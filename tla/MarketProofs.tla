----------------------------- MODULE MarketProofs ------------------------------
(***************************************************************************)
(* Theorems about Market, for every number of hosts, pools, workloads,     *)
(* callers and daemons, all terms, requests and bounds.                    *)
(***************************************************************************)
EXTENDS Market, FiniteSums, TLAPS

--------------------------------------------------------------------------------
(* Reputation *)

\* Outcomes keep the metrics in their range, and so do new hosts.
LEMMA MetricsType ==
    /\ NewMetrics \in Metrics
    /\ \A m \in Metrics : /\ Healthy(m) \in Metrics
                          /\ \A b \in BOOLEAN : Concluded(m, b) \in Metrics
<1>1. NewMetrics \in Metrics
  BY DEF NewMetrics, Metrics, UptimeRange, CompletionRange
<1>2. ASSUME NEW m \in Metrics, NEW b \in BOOLEAN
      PROVE  Healthy(m) \in Metrics /\ Concluded(m, b) \in Metrics
  <2>1. m.uptime \in 600..1000 /\ m.completion \in 500..1000
    BY DEF Metrics, UptimeRange, CompletionRange
  <2> DEFINE u == m.uptime + 1
             k == m.completion + (IF b THEN 8 ELSE -25)
  <2>2. u \in Int /\ k \in Int
    BY <2>1
  <2> HIDE DEF u, k
  <2>3. Clamp(u, 600, 1000) \in 600..1000 /\ Clamp(k, 500, 1000) \in 500..1000
    BY <2>2 DEF Clamp
  <2> QED
    BY <2>1, <2>3 DEF Healthy, Concluded, Metrics, UptimeRange, CompletionRange, u, k
<1> QED
  BY <1>1, <1>2

\* A score is between 65 and 91.5 points: the other metrics never change.
LEMMA ScoreRange == \A m \in Metrics : ComputeScore(m) \in Scores
<1> SUFFICES ASSUME NEW m \in Metrics PROVE ComputeScore(m) \in Scores
  OBVIOUS
<1> DEFINE u == m.uptime
           k == m.completion
<1>1. u \in 600..1000 /\ k \in 500..1000
  BY DEF Metrics, UptimeRange, CompletionRange
<1> HIDE DEF u, k
<1> DEFINE t == 35 * u + 25 * k + 31500 + 5
<1>2. t \in 65005..91505
  BY <1>1
<1>3. ComputeScore(m) = t \div 10
  BY DEF ComputeScore, ConstantShare, u, k
<1> HIDE DEF t
<1> QED
  BY <1>2, <1>3 DEF Scores

--------------------------------------------------------------------------------
(* Prices *)

\* Integer division is between what it should be and one less.
LEMMA DivBounds ==
    ASSUME NEW a \in Int, NEW b \in Nat \ {0}
    PROVE  /\ a \div b \in Int
           /\ b * (a \div b) <= a /\ a < b * (a \div b) + b
  OBVIOUS

\* A multiple below the dividend is below the quotient, one above it above.
LEMMA DivMultiple ==
    ASSUME NEW a \in Int, NEW b \in Nat \ {0}, NEW k \in Int
    PROVE  /\ b * k <= a => k <= a \div b
           /\ a <= b * k => a \div b <= k
<1> DEFINE q == a \div b
<1>1. q \in Int /\ b * q <= a /\ a < b * q + b
  BY DivBounds
<1> HIDE DEF q
<1>2. ASSUME b * k <= a, ~(k <= q) PROVE FALSE
  <2>1. q + 1 <= k
    BY <1>1, <1>2
  <2>2. k - q - 1 \in Nat
    BY <1>1, <2>1
  <2>3. b * (k - q - 1) \in Nat
    BY <2>2
  <2>4. b * (k - q - 1) = b * k - b * q - b
    BY <1>1
  <2> QED
    BY <1>1, <1>2, <2>3, <2>4
<1>3. ASSUME a <= b * k, ~(q <= k) PROVE FALSE
  <2>1. q - k - 1 \in Nat
    BY <1>1, <1>3
  <2>2. b * (q - k - 1) \in Nat
    BY <2>1
  <2>3. b * (q - k - 1) = b * q - b * k - b
    BY <1>1
  <2> QED
    BY <1>1, <1>3, <2>2, <2>3
<1> QED
  BY <1>2, <1>3 DEF q

\* Products keep the order of their second factors.
LEMMA ProductOrder ==
    ASSUME NEW k \in Nat, NEW a \in Int, NEW b \in Int
    PROVE  /\ a <= b => k * a <= k * b
           /\ k # 0 /\ k * a < k * b => a < b
<1>1. ASSUME a <= b PROVE k * a <= k * b
  <2>1. b - a \in Nat
    BY <1>1
  <2>2. k * (b - a) \in Nat
    BY <2>1
  <2>3. k * (b - a) = k * b - k * a
    OBVIOUS
  <2> QED
    BY <2>2, <2>3
<1>2. ASSUME k # 0, k * a < k * b, ~(a < b) PROVE FALSE
  <2>1. a - b \in Nat
    BY <1>2
  <2>2. k * (a - b) \in Nat
    BY <2>1
  <2>3. k * (a - b) = k * a - k * b
    OBVIOUS
  <2> QED
    BY <1>2, <2>2, <2>3
<1> QED
  BY <1>1, <1>2

\* What the demand makes of a floor: between 0.8 and 1.8 times as much, and
\* more than it once the demand is 36% of the supply.
LEMMA PressedRange ==
    ASSUME NEW f \in Nat, NEW s \in Nat \ {0}, NEW d \in Nat
    PROVE  LET p == (f * Pressure(s, d)) \div (10 * s) IN
           /\ p \in Nat
           /\ 10 * p <= 18 * f
           /\ 8 * f < 10 * p + 10
           /\ 100 * d >= 36 * s => 1016 * f < 1000 * p + 1000
<1> DEFINE m == Pressure(s, d)
           a == f * m
           b == 10 * s
           p == a \div b
<1>1. /\ m \in Nat /\ 8 * s <= m /\ m <= 18 * s
      /\ 100 * d >= 36 * s => 1016 * s <= 100 * m
  BY DEF Pressure, Clamp
<1> HIDE DEF m
<1>2. a \in Nat /\ b \in Nat \ {0}
  BY <1>1
<1>3. p \in Int /\ b * p <= a /\ a < b * p + b /\ 0 <= p
  <2> HIDE DEF a, b
  <2>1. b * 0 <= a
    BY <1>2
  <2> QED
    BY <1>2, <2>1, DivBounds, DivMultiple
<1> HIDE DEF p
<1>4. s * (10 * p) <= a /\ a < s * (10 * p + 10)
  BY <1>3
<1>5. f * (8 * s) <= a /\ a <= f * (18 * s)
  BY <1>1, ProductOrder
<1>6. 10 * p <= 18 * f
  <2>1. f * (18 * s) = s * (18 * f)
    OBVIOUS
  <2>2. s * (10 * p) < s * (18 * f + 1)
    BY <1>2, <1>3, <1>4, <1>5, <2>1
  <2> QED
    BY <1>3, <2>2, ProductOrder
<1>7. 8 * f < 10 * p + 10
  <2>1. s * (8 * f) < s * (10 * p + 10)
    BY <1>2, <1>3, <1>4, <1>5
  <2> QED
    BY <1>3, <2>1, ProductOrder
<1>8. ASSUME 100 * d >= 36 * s
      PROVE  1016 * f < 1000 * p + 1000
  <2>1. f * (1016 * s) <= f * (100 * m)
    BY <1>1, <1>8, ProductOrder
  <2>2. f * (1016 * s) = s * (1016 * f) /\ f * (100 * m) = 100 * a
    BY <1>1
  <2>3. 100 * (s * (10 * p + 10)) = s * (1000 * p + 1000)
    BY <1>3
  <2>4. s * (1016 * f) < s * (1000 * p + 1000)
    BY <1>2, <1>3, <1>4, <2>1, <2>2, <2>3
  <2> QED
    BY <1>3, <2>4, ProductOrder
<1> QED
  BY <1>3, <1>6, <1>7, <1>8 DEF p, m

\* The price of a host with a score in its range, from its floor.
LEMMA PriceOfRange ==
    ASSUME NEW f \in Nat, NEW s \in Nat, s # 0, NEW d \in Nat,
           NEW x \in Nat, 6500 <= x, x <= 9150
    PROVE  /\ PriceOf(f, s, d, x) \in Nat
           /\ 100 * PriceOf(f, s, d, x) <= 188 * f
           /\ 100 * (PriceOf(f, s, d, x) + 2) >= 79 * f
           /\ 100 * d >= 36 * s => PriceOf(f, s, d, x) + 2 >= f
<1> DEFINE p == (f * Pressure(s, d)) \div (10 * s)
           r == Reliability(x)
           t == p * r
           u == t \div 50000
<1>1. /\ p \in Nat /\ 10 * p <= 18 * f /\ 8 * f < 10 * p + 10
      /\ 100 * d >= 36 * s => 1016 * f < 1000 * p + 1000
  BY PressedRange
<1>2. r \in -500..2150
  BY DEF Reliability, Clamp
<1>3. PriceOf(f, s, d, x) = p + u
  BY DEF PriceOf
<1> HIDE DEF p, r
<1>4. t \in Int /\ p * (-500) <= t /\ t <= p * 2150
  BY <1>1, <1>2, ProductOrder
<1> HIDE DEF t
<1>5. u \in Int /\ 50000 * u <= t /\ t < 50000 * u + 50000
  BY <1>4, DivBounds
<1> HIDE DEF u
<1> QED
  BY <1>1, <1>3, <1>4, <1>5

\* What prices and capacities are computed from has its type.
LEMMA TermsType ==
    ASSUME TypeOK, NEW h \in Host
    PROVE  /\ Floor(h) \in Nat
           /\ RegionSupply(h) \in Nat /\ RegionSupply(h) # 0 /\ RegionDemand(h) \in Nat
           /\ score[h] \in Nat /\ 6500 <= score[h] /\ score[h] <= 9150
<1>1. /\ settings[h] \in Settings /\ score[h] \in Scores
      /\ settings \in [Host -> Settings] /\ registered \subseteq Host
  BY DEF TypeOK, RegistryTypeOK
<1>2. Floor(h) \in Nat
  <2>1. settings[h].minPrice \in Nat /\ settings[h].tier \in Tier
    BY <1>1 DEF Settings
  <2> QED
    BY <2>1 DEF Floor, Larger, BaseTierRate, Tier
<1>3. \A r, t : Supply(r, t) \in Nat
  <2> DEFINE f == [g \in Host |-> settings[g].cpuTotal]
  <2>1. \A g \in Host : f[g] \in Nat
    BY <1>1 DEF Settings
  <2>2. \A r, t : Supplying(r, t) \subseteq Host
    BY <1>1 DEF Supplying, RunningHosts
  <2> HIDE DEF f
  <2>3. \A T \in SUBSET Host : SumFunctionOnSet(f, T) \in Nat
    BY <2>1, SumType, RequestAssumption
  <2> QED
    BY <2>2, <2>3 DEF Supply, f
<1>4. \A r, t : Demand(r, t) \in Nat
  <2>1. \A w \in Workload : RequestedCpu[w] \in Nat
    BY RequestAssumption DEF RequestedCpu, Requests
  <2>2. \A r, t : Demanding(r, t) \subseteq Workload
    BY DEF Demanding
  <2>3. \A T \in SUBSET Workload : SumFunctionOnSet(RequestedCpu, T) \in Nat
    BY <2>1, SumType, RequestAssumption
  <2> QED
    BY <2>2, <2>3 DEF Demand
<1>5. RegionSupply(h) \in Nat /\ RegionSupply(h) # 0 /\ RegionDemand(h) \in Nat
  BY <1>3, <1>4 DEF RegionSupply, RegionDemand, Larger
<1>6. score[h] \in Nat /\ 6500 <= score[h] /\ score[h] <= 9150
  <2> DEFINE x == score[h]
  <2>1. x \in 6500..9150
    BY <1>1 DEF Scores
  <2> HIDE DEF x
  <2>2. x \in Nat /\ 6500 <= x /\ x <= 9150
    BY <2>1
  <2> QED
    BY <2>2 DEF x
<1> QED
  BY <1>2, <1>5, <1>6

\* A price is a natural number of millionths, in its range.
LEMMA PriceType ==
    ASSUME TypeOK, NEW h \in Host
    PROVE  /\ PriceForHost(h) \in Nat
           /\ 100 * PriceForHost(h) <= 188 * Floor(h)
           /\ 100 * (PriceForHost(h) + 2) >= 79 * Floor(h)
           /\ 100 * RegionDemand(h) >= 36 * RegionSupply(h) => PriceForHost(h) + 2 >= Floor(h)
<1> DEFINE f == Floor(h)
           s == RegionSupply(h)
           d == RegionDemand(h)
           x == score[h]
<1>1. f \in Nat /\ s \in Nat /\ s # 0 /\ d \in Nat /\ x \in Nat /\ 6500 <= x /\ x <= 9150
  BY TermsType
<1>2. PriceForHost(h) = PriceOf(f, s, d, x)
  BY DEF PriceForHost
<1> HIDE DEF f, s, d, x
<1>3. /\ PriceOf(f, s, d, x) \in Nat
      /\ 100 * PriceOf(f, s, d, x) <= 188 * f
      /\ 100 * (PriceOf(f, s, d, x) + 2) >= 79 * f
      /\ 100 * d >= 36 * s => PriceOf(f, s, d, x) + 2 >= f
  BY <1>1, PriceOfRange
<1> QED
  BY <1>2, <1>3 DEF f, s, d, x

\* However many requests pile up, a price keeps within its range of the floor
\* (marketPricingService.ts:14-43).
LEMMA TypesBoundPrices == TypeOK => PriceRange
<1> SUFFICES ASSUME TypeOK PROVE PriceRange
  OBVIOUS
<1>1. registered \subseteq Host
  BY DEF TypeOK, RegistryTypeOK
<1> QED
  BY <1>1, PriceType DEF PriceRange

--------------------------------------------------------------------------------
(* Types *)

\* A call that is about to assign a workload to a host knows it is registered.
CallKnows ==
    \A c \in Caller : caller[c].pc = "assign" => caller[c].h \in registered

TypeInv == TypeOK /\ CallKnows

\* An edited row has the types of the columns: options are typed, amounts are
\* parsed.
LEMMA EditedType ==
    ASSUME NEW row \in Settings, NEW e \in Edits
    PROVE  Edited(row, e) \in Settings
<1>1. \A a \in Amount : ParseMemoryToMb(a) \in Nat
  <2> SUFFICES ASSUME NEW a \in Amount PROVE ParseMemoryToMb(a) \in Nat
    OBVIOUS
  <2> DEFINE n == a.tenths
             u == UnitsInMb[a.unit]
  <2>1. n \in Nat /\ u \in Nat
    BY DEF Amount, UnitsInMb
  <2> HIDE DEF n, u
  <2> DEFINE p == n * u
  <2>2. p \in Nat
    BY <2>1
  <2> HIDE DEF p
  <2>3. p \div 10 \in Nat
    BY <2>2
  <2> QED
    BY <2>3 DEF ParseMemoryToMb, n, u, p
<1> QED
  BY <1>1, EditAssumption DEF Edited, Settings

\* What a call holds depends on where it is.
LEMMA CallFields ==
    ASSUME TypeOK, NEW c \in Caller
    PROVE  /\ At(c, "insert") => /\ caller[c].h \in Host
                                 /\ caller[c].offer \in [region : Region, tier : Tier]
           /\ At(c, "update") => /\ caller[c].h \in Host /\ caller[c].row \in Settings
                                 /\ caller[c].pool \in Pool \cup {Null}
           /\ At(c, "score") => /\ caller[c].h \in Host /\ caller[c].score \in Scores
                                /\ caller[c].pool \in Pool \cup {Null}
           /\ At(c, "join") => caller[c].h \in Host /\ caller[c].pool \in Pool
           /\ At(c, "place") => caller[c].w \in Workload
           /\ At(c, "assign") => /\ caller[c].w \in Workload /\ caller[c].h \in Host
                                 /\ caller[c].rate \in Nat
           /\ At(c, "mark") \/ At(c, "requeue") =>
                 /\ caller[c].w \in Workload /\ caller[c].h \in Host
                 /\ caller[c].named \in BOOLEAN
                 /\ caller[c] = [pc |-> caller[c].pc, w |-> caller[c].w, h |-> caller[c].h,
                                 named |-> caller[c].named]
<1>1. caller[c] \in RegistryCall \cup PlacementCall \cup {Idle}
  BY DEF TypeOK, Call
<1> QED
  BY <1>1 DEF RegistryCall, PlacementCall, Idle, At

\* A call that goes on keeps the others where they are.
LEMMA GotoType ==
    ASSUME TypeOK, NEW c \in Caller, NEW state \in Call, Goto(c, state)
    PROVE  /\ caller' \in [Caller -> Call]
           /\ caller'[c] = state
           /\ \A b \in Caller \ {c} : caller'[b] = caller[b]
  BY DEF TypeOK, Goto

\* If a call does not move on to write a host, what calls know stays known.
LEMMA GotoKnows ==
    ASSUME TypeInv, NEW c \in Caller, NEW state \in Call, Goto(c, state),
           registered \subseteq registered',
           state.pc = "assign" => state.h \in registered
    PROVE  CallKnows'
<1>1. \A b \in Caller : caller'[b] = IF b = c THEN state ELSE caller[b]
  BY GotoType DEF TypeInv
<1> QED
  BY <1>1 DEF TypeInv, CallKnows

\* Writing daemon_status keeps its type.
LEMMA StatusType ==
    ASSUME TypeOK, NEW h \in Host, NEW s \in {"running", "stopped"}, SetDaemonStatus(h, s)
    PROVE  daemonStatus' \in [Host -> {"running", "stopped"}]
  BY DEF TypeOK, RegistryTypeOK, SetDaemonStatus

\* A host a placement may choose has a row, is in the pool asked for, and asks
\* no more than the cap.
LEMMA Placed ==
    ASSUME TypeOK, NEW w \in Workload, NEW x, NEW h \in PlaceWorkload(w, x)
    PROVE  /\ h \in registered /\ h \in Host
           /\ Request[w].pool # Null => h \in HostIdsInPool(Request[w].pool)
           /\ Request[w].priceCap # Null => PriceForHost(h) <= Request[w].priceCap
  BY DEF PlaceWorkload, Eligible, RunningHosts, Admits, Affordable, TypeOK, RegistryTypeOK

\* A migration may go to h: because the caller named it, or because the
\* scheduler chose it.
MigratesTo(w, h, named) ==
    \/ named = TRUE /\ h \in Targets \ {Null}
    \/ named = FALSE /\ h \in PlaceWorkload(w, workloads[w].hostId)

LEMMA MigrateEffect ==
    ASSUME NEW c, NEW w, Migrate(c, w)
    PROVE  \E h, named : /\ MigratesTo(w, h, named)
                         /\ Goto(c, [pc |-> "mark", w |-> w, h |-> h, named |-> named])
<1>1. PICK to \in Targets :
         \E h \in IF to = Null THEN PlaceWorkload(w, workloads[w].hostId) ELSE {to} :
            Goto(c, [pc |-> "mark", w |-> w, h |-> h, named |-> to # Null])
  BY DEF Migrate
<1>2. CASE to = Null
  <2>1. PICK h \in PlaceWorkload(w, workloads[w].hostId) :
           Goto(c, [pc |-> "mark", w |-> w, h |-> h, named |-> to # Null])
    BY <1>1, <1>2
  <2>2. (to # Null) = FALSE
    BY <1>2
  <2>3. MigratesTo(w, h, FALSE)
    BY DEF MigratesTo
  <2> QED
    BY <2>1, <2>2, <2>3
<1>3. CASE to # Null
  <2>1. Goto(c, [pc |-> "mark", w |-> w, h |-> to, named |-> to # Null])
    BY <1>1, <1>3
  <2>2. (to # Null) = TRUE
    BY <1>3
  <2>3. MigratesTo(w, to, TRUE)
    BY <1>3 DEF MigratesTo
  <2> QED
    BY <2>1, <2>2, <2>3
<1> QED
  BY <1>2, <1>3

LEMMA MigratesToType ==
    ASSUME TypeOK, NEW w \in Workload, NEW h, NEW named, MigratesTo(w, h, named)
    PROVE  h \in Host /\ named \in BOOLEAN
  BY Placed, TargetAssumption DEF MigratesTo

\* The types hold to begin with.
LEMMA TypesInit == Init => TypeInv
<1> SUFFICES ASSUME Init PROVE TypeInv
  OBVIOUS
<1> USE DEF Init, RegistryInit
<1>1. registered \subseteq Host
  BY FirstAssumption
<1>2. settings \in [Host -> Settings]
  BY FirstAssumption DEF DefaultHost, Settings, Tier
<1>3. metrics \in [Host -> Metrics]
  BY FirstAssumption, MetricsType
<1>4. score \in [Host -> Scores]
  BY <1>3, ScoreRange
<1>5. daemonStatus \in [Host -> {"running", "stopped"}]
  OBVIOUS
<1>6. pools \subseteq Pool /\ members \subseteq pools \X registered
  <2>1. \A m \in FirstMembers : m = <<m[1], m[2]>> /\ m[1] \in Pool /\ m[2] \in FirstHosts
    BY FirstAssumption
  <2> QED
    BY <2>1
<1>7. daemon \in [Daemon -> DaemonState] /\ calls \in Nat /\ outcomes \in Nat
  BY DEF DaemonState
<1>8. caller \in [Caller -> Call] /\ CallKnows
  BY DEF Call, Idle, CallKnows
<1>9. workloads \in [Workload -> Row] /\ \A w \in Workload : workloads[w].hostId = Null
  BY DEF Absent, Row, WorkloadStatus
<1> QED
  BY <1>1, <1>2, <1>3, <1>4, <1>5, <1>6, <1>7, <1>8, <1>9 DEF TypeInv, TypeOK, RegistryTypeOK

\* If callers and workloads keep their types, so does all that was left alone.
LEMMA TypeFrame ==
    ASSUME TypeInv, RegistryTypeOK', registered \subseteq registered', UNCHANGED workloads,
           caller' \in [Caller -> Call], CallKnows'
    PROVE  TypeInv'
<1>1. \A w \in Workload : workloads'[w].hostId \in registered' \cup {Null}
  BY DEF TypeInv, TypeOK
<1> QED
  BY <1>1 DEF TypeInv, TypeOK

\* The steps of owners keep the types.
LEMMA OwnerKeepsTypes ==
    ASSUME TypeInv, NEW c \in Caller, RegistryCallStep(c), UNCHANGED workloads
    PROVE  TypeInv'
<1> USE DEF hostVars, poolVars, Begin
<1>0. TypeOK /\ RegistryTypeOK
  BY DEF TypeInv, TypeOK
<1>1. ASSUME NEW h \in Host, NEW offer \in Offers, InitHost(c, h, offer)
      PROVE  TypeInv'
  <2> DEFINE state == [pc |-> "insert", h |-> h, offer |-> offer]
  <2>1. state \in Call /\ state.pc = "insert"
    BY OfferAssumption DEF Call, RegistryCall
  <2>2. Goto(c, state) /\ registered' = registered
    BY <1>1 DEF InitHost
  <2> HIDE DEF state
  <2>3. caller' \in [Caller -> Call] /\ CallKnows'
    BY <1>0, <2>1, <2>2, GotoType, GotoKnows
  <2>4. RegistryTypeOK'
    BY <1>0, <1>1, BoundAssumption DEF InitHost, RegistryTypeOK
  <2> QED
    BY <1>1, <2>2, <2>3, <2>4, TypeFrame DEF InitHost
<1>2. ASSUME NEW h \in Host, NEW e \in Edits, NEW p \in Pool \cup {Null}, SetHost(c, h, e, p)
      PROVE  TypeInv'
  <2> DEFINE state == [pc |-> "update", h |-> h, row |-> Edited(settings[h], e), pool |-> p]
  <2>1. Edited(settings[h], e) \in Settings
    BY <1>0, EditedType DEF RegistryTypeOK
  <2>2. state \in Call /\ state.pc = "update"
    BY <2>1 DEF Call, RegistryCall
  <2>3. Goto(c, state) /\ registered' = registered
    BY <1>2 DEF SetHost
  <2> HIDE DEF state
  <2>4. caller' \in [Caller -> Call] /\ CallKnows'
    BY <1>0, <2>2, <2>3, GotoType, GotoKnows
  <2>5. RegistryTypeOK'
    BY <1>0, <1>2, BoundAssumption DEF SetHost, RegistryTypeOK
  <2> QED
    BY <2>3, <2>4, <2>5, TypeFrame
<1>3. ASSUME NEW p \in Pool, CreatePool(c, p)
      PROVE  TypeInv'
  <2>1. RegistryTypeOK'
    BY <1>0, <1>3 DEF CreatePool, RegistryTypeOK
  <2>2. registered' = registered /\ caller' = caller
    BY <1>3 DEF CreatePool
  <2> QED
    BY <2>1, <2>2, TypeFrame DEF TypeInv, TypeOK, CallKnows
<1>4. ASSUME NEW h \in Host, NEW p \in Pool, AddHost(c, h, p)
      PROVE  TypeInv'
  <2>1. RegistryTypeOK'
    BY <1>0, <1>4 DEF AddHost, AddHostToPool, RegistryTypeOK
  <2>2. registered' = registered /\ caller' = caller
    BY <1>4 DEF AddHost
  <2> QED
    BY <2>1, <2>2, TypeFrame DEF TypeInv, TypeOK, CallKnows
<1>5. ASSUME HostCommand(c)
      PROVE  TypeInv'
  <2>1. daemonStatus' \in [Host -> {"running", "stopped"}]
    BY <1>0, <1>5, StatusType DEF HostCommand
  <2>2. RegistryTypeOK'
    BY <1>0, <1>5, <2>1 DEF HostCommand, RegistryTypeOK
  <2>3. registered' = registered /\ caller' = caller
    BY <1>5 DEF HostCommand
  <2> QED
    BY <2>2, <2>3, TypeFrame DEF TypeInv, TypeOK, CallKnows
<1>6. ASSUME InsertHost(c)
      PROVE  TypeInv'
  <2> DEFINE h == caller[c].h
  <2>1. h \in Host /\ caller[c].offer \in [region : Region, tier : Tier]
    BY <1>0, <1>6, CallFields DEF InsertHost
  <2>2. DefaultHost(caller[c].offer) \in Settings
    BY <2>1 DEF DefaultHost, Settings
  <2>3. NewMetrics \in Metrics /\ ComputeScore(NewMetrics) \in Scores
    BY MetricsType, ScoreRange
  <2>4. Idle \in Call /\ Idle.pc = "idle" /\ Goto(c, Idle) /\ registered \subseteq registered'
    BY <1>6 DEF InsertHost, Call, Idle
  <2>5. caller' \in [Caller -> Call] /\ CallKnows'
    BY <1>0, <2>4, GotoType, GotoKnows
  <2>6. RegistryTypeOK'
    BY <1>0, <1>6, <2>1, <2>2, <2>3 DEF InsertHost, RegistryTypeOK
  <2> QED
    BY <2>4, <2>5, <2>6, TypeFrame
<1>7. ASSUME InsertHostThrows(c)
      PROVE  TypeInv'
  <2>1. Idle \in Call /\ Idle.pc = "idle" /\ Goto(c, Idle) /\ registered' = registered
    BY <1>7 DEF InsertHostThrows, Call, Idle
  <2>2. caller' \in [Caller -> Call] /\ CallKnows'
    BY <1>0, <2>1, GotoType, GotoKnows
  <2>3. RegistryTypeOK'
    BY <1>0, <1>7 DEF InsertHostThrows, RegistryTypeOK
  <2> QED
    BY <2>1, <2>2, <2>3, TypeFrame
<1>8. ASSUME UpdateHost(c)
      PROVE  TypeInv'
  <2> DEFINE call == caller[c]
             state == [pc |-> "score", h |-> call.h, pool |-> call.pool,
                       score |-> ComputeScore(metrics[call.h])]
  <2>1. call.h \in Host /\ call.row \in Settings /\ call.pool \in Pool \cup {Null}
    BY <1>0, <1>8, CallFields DEF UpdateHost
  <2>2. ComputeScore(metrics[call.h]) \in Scores
    BY <1>0, <2>1, ScoreRange DEF RegistryTypeOK
  <2>3. state \in Call /\ state.pc = "score"
    BY <2>1, <2>2 DEF Call, RegistryCall
  <2>4. Goto(c, state) /\ registered' = registered
    BY <1>8 DEF UpdateHost
  <2> HIDE DEF state
  <2>5. caller' \in [Caller -> Call] /\ CallKnows'
    BY <1>0, <2>3, <2>4, GotoType, GotoKnows
  <2>6. RegistryTypeOK'
    BY <1>0, <1>8, <2>1 DEF UpdateHost, RegistryTypeOK
  <2> QED
    BY <2>4, <2>5, <2>6, TypeFrame
<1>9. ASSUME RefreshHostScore(c)
      PROVE  TypeInv'
  <2> DEFINE call == caller[c]
             state == IF call.pool = Null THEN Idle
                      ELSE [pc |-> "join", h |-> call.h, pool |-> call.pool]
  <2>1. call.h \in Host /\ call.score \in Scores /\ call.pool \in Pool \cup {Null}
    BY <1>0, <1>9, CallFields DEF RefreshHostScore
  <2>2. state \in Call /\ state.pc \in {"idle", "join"}
    BY <2>1 DEF Call, RegistryCall, Idle
  <2>3. Goto(c, state) /\ registered' = registered
    BY <1>9 DEF RefreshHostScore
  <2> HIDE DEF state
  <2>4. caller' \in [Caller -> Call] /\ CallKnows'
    BY <1>0, <2>2, <2>3, GotoType, GotoKnows
  <2>5. RegistryTypeOK'
    BY <1>0, <1>9, <2>1 DEF RefreshHostScore, RegistryTypeOK
  <2> QED
    BY <2>3, <2>4, <2>5, TypeFrame
<1>10. ASSUME JoinPool(c)
       PROVE  TypeInv'
  <2>1. caller[c].h \in Host /\ caller[c].pool \in Pool
    BY <1>0, <1>10, CallFields DEF JoinPool
  <2>2. Idle \in Call /\ Idle.pc = "idle" /\ Goto(c, Idle) /\ registered' = registered
    BY <1>10 DEF JoinPool, Call, Idle
  <2>3. caller' \in [Caller -> Call] /\ CallKnows'
    BY <1>0, <2>2, GotoType, GotoKnows
  <2>4. RegistryTypeOK'
    BY <1>0, <1>10, <2>1 DEF JoinPool, AddHostToPool, RegistryTypeOK
  <2> QED
    BY <2>2, <2>3, <2>4, TypeFrame
<1> QED
  BY <1>1, <1>2, <1>3, <1>4, <1>5, <1>6, <1>7, <1>8, <1>9, <1>10 DEF RegistryCallStep

\* The steps of daemons keep the types.
LEMMA DaemonKeepsTypes ==
    ASSUME TypeInv, NEW d \in Daemon, DaemonStep(d), UNCHANGED workloads
    PROVE  TypeInv'
<1> DEFINE h == Serves[d]
<1> USE DEF hostVars, poolVars
<1>1. TypeOK /\ RegistryTypeOK /\ h \in Host /\ caller' = caller /\ registered' = registered
  BY ProcessAssumption DEF TypeInv, TypeOK, DaemonStep, DaemonWorks, StartDaemon, AdjustUptime,
     AdjustCompletion, UpdateMetrics, EndLoop, StopDaemon, CrashDaemon
<1> HIDE DEF h
<1>2. metrics[h] \in Metrics /\ daemon[d] \in DaemonState
  BY <1>1 DEF RegistryTypeOK
<1>3. ASSUME StartDaemon(d) PROVE RegistryTypeOK'
  <2>1. daemonStatus' \in [Host -> {"running", "stopped"}]
    BY <1>1, <1>3, StatusType DEF StartDaemon, h
  <2> QED
    BY <1>1, <1>3, <2>1 DEF StartDaemon, Turn, RegistryTypeOK, DaemonState
<1>4. ASSUME AdjustUptime(d) PROVE RegistryTypeOK'
  <2>1. Healthy(metrics[h]) \in Metrics
    BY <1>2, MetricsType
  <2> QED
    BY <1>1, <1>4, <2>1 DEF AdjustUptime, Turn, RegistryTypeOK, DaemonState, h
<1>5. ASSUME NEW success \in BOOLEAN, AdjustCompletion(d, success) PROVE RegistryTypeOK'
  <2>1. Concluded(metrics[h], success) \in Metrics
    BY <1>2, MetricsType
  <2> QED
    BY <1>1, <1>5, <2>1 DEF AdjustCompletion, Turn, RegistryTypeOK, DaemonState, h
<1>6. ASSUME UpdateMetrics(d) PROVE RegistryTypeOK'
  <2>1. daemon[d].metrics \in Metrics
    BY <1>2, <1>6 DEF UpdateMetrics, Is, DaemonState
  <2>2. ComputeScore(daemon[d].metrics) \in Scores
    BY <2>1, ScoreRange
  <2> QED
    BY <1>1, <1>6, <2>1, <2>2 DEF UpdateMetrics, Turn, RegistryTypeOK, DaemonState, h
<1>7. ASSUME EndLoop(d) PROVE RegistryTypeOK'
  BY <1>1, <1>7 DEF EndLoop, Turn, RegistryTypeOK, DaemonState
<1>8. ASSUME StopDaemon(d) PROVE RegistryTypeOK'
  <2>1. daemonStatus' \in [Host -> {"running", "stopped"}]
    BY <1>1, <1>8, StatusType DEF StopDaemon, h
  <2> QED
    BY <1>1, <1>8, <2>1 DEF StopDaemon, Turn, RegistryTypeOK, DaemonState
<1>9. ASSUME CrashDaemon(d) PROVE RegistryTypeOK'
  <2>1. daemonStatus' \in [Host -> {"running", "stopped"}]
    BY <1>1, <1>9, StatusType DEF CrashDaemon, RegistryTypeOK, h
  <2> QED
    BY <1>1, <1>9, <2>1 DEF CrashDaemon, Turn, RegistryTypeOK, DaemonState
<1>10. RegistryTypeOK'
  BY <1>3, <1>4, <1>5, <1>6, <1>7, <1>8, <1>9 DEF DaemonStep, DaemonWorks
<1> QED
  BY <1>1, <1>10, TypeFrame DEF TypeInv, TypeOK, CallKnows

\* A write of a row keeps the types if the row has its type.
LEMMA RowWritten ==
    ASSUME TypeInv, NEW w \in Workload, NEW row \in Row, row.hostId \in registered \cup {Null},
           workloads' = [workloads EXCEPT ![w] = row],
           UNCHANGED <<hostVars, poolVars, daemon>>, calls' \in Nat, outcomes' = outcomes,
           caller' \in [Caller -> Call], CallKnows'
    PROVE  TypeInv'
<1>1. RegistryTypeOK'
  BY DEF TypeInv, TypeOK, RegistryTypeOK, hostVars, poolVars
<1>2. workloads' \in [Workload -> Row] /\ registered' = registered
  BY DEF TypeInv, TypeOK, hostVars
<1>3. \A v \in Workload : workloads'[v] = IF v = w THEN row ELSE workloads[v]
  BY DEF TypeInv, TypeOK
<1>4. \A v \in Workload : workloads'[v].hostId \in registered' \cup {Null}
  BY <1>2, <1>3 DEF TypeInv, TypeOK
<1> QED
  BY <1>1, <1>2, <1>4 DEF TypeInv, TypeOK

\* A read that goes on keeps the types.
LEMMA ReadOnly ==
    ASSUME TypeInv, UNCHANGED <<hostVars, poolVars, daemon, outcomes, workloads>>,
           calls' \in Nat, caller' \in [Caller -> Call], CallKnows'
    PROVE  TypeInv'
<1>1. RegistryTypeOK' /\ registered' = registered /\ workloads' = workloads
  BY DEF TypeInv, TypeOK, RegistryTypeOK, hostVars, poolVars
<1> QED
  BY <1>1, TypeFrame

\* The steps of customers, and with them of all calls, keep the types.
LEMMA CallKeepsTypes ==
    ASSUME TypeInv, NEW c \in Caller, CallStep(c)
    PROVE  TypeInv'
<1> USE DEF Begin
<1>0. /\ TypeOK /\ CallKnows /\ calls \in Nat /\ calls + 1 \in Nat
      /\ workloads \in [Workload -> Row]
      /\ \A w \in Workload : workloads[w].hostId \in registered \cup {Null}
  BY DEF TypeInv, TypeOK, RegistryTypeOK
<1>1. ASSUME NEW w \in Workload, Spawn(c, w)
      PROVE  TypeInv'
  <2> DEFINE state == [pc |-> "place", w |-> w]
             row == [workloads[w] EXCEPT !.status = "pending"]
  <2>1. state \in Call /\ state.pc = "place" /\ Goto(c, state) /\ registered' = registered
    BY <1>1 DEF Spawn, Call, PlacementCall, hostVars
  <2> HIDE DEF state
  <2>2. caller' \in [Caller -> Call] /\ CallKnows'
    BY <1>0, <2>1, GotoType, GotoKnows
  <2>3. row \in Row /\ row.hostId = workloads[w].hostId
    BY <1>0 DEF Row, WorkloadStatus
  <2>4. workloads' = [workloads EXCEPT ![w] = row]
    BY <1>1 DEF Spawn
  <2> HIDE DEF row
  <2> QED
    BY <1>0, <1>1, <2>2, <2>3, <2>4, RowWritten DEF Spawn
<1>2. ASSUME NEW w \in Workload, Migrate(c, w)
      PROVE  TypeInv'
  <2>1. PICK h, named : /\ MigratesTo(w, h, named)
                        /\ Goto(c, [pc |-> "mark", w |-> w, h |-> h, named |-> named])
    BY <1>2, MigrateEffect
  <2> DEFINE state == [pc |-> "mark", w |-> w, h |-> h, named |-> named]
  <2>2. h \in Host /\ named \in BOOLEAN
    BY <1>0, <2>1, MigratesToType
  <2>3. state \in Call /\ state.pc = "mark" /\ Goto(c, state) /\ registered' = registered
    BY <1>2, <2>1, <2>2 DEF Migrate, Call, PlacementCall, hostVars
  <2> HIDE DEF state
  <2>4. caller' \in [Caller -> Call] /\ CallKnows'
    BY <1>0, <2>3, GotoType, GotoKnows
  <2> QED
    BY <1>0, <1>2, <2>4, ReadOnly DEF Migrate
<1>3. ASSUME Place(c)
      PROVE  TypeInv'
  <2> DEFINE w == caller[c].w
  <2>1. w \in Workload
    BY <1>0, <1>3, CallFields DEF Place
  <2>2. PICK h \in PlaceWorkload(w, Null) :
           Goto(c, [pc |-> "assign", w |-> w, h |-> h, rate |-> PriceForHost(h)])
    BY <1>3 DEF Place
  <2> DEFINE state == [pc |-> "assign", w |-> w, h |-> h, rate |-> PriceForHost(h)]
  <2>3. h \in registered /\ h \in Host /\ PriceForHost(h) \in Nat
    BY <1>0, <2>1, Placed, PriceType
  <2>4. state \in Call /\ state.h = h /\ Goto(c, state) /\ registered' = registered
    BY <1>3, <2>1, <2>2, <2>3 DEF Place, Call, PlacementCall, hostVars
  <2> HIDE DEF state
  <2>5. caller' \in [Caller -> Call] /\ CallKnows'
    BY <1>0, <2>3, <2>4, GotoType, GotoKnows
  <2> QED
    BY <1>0, <1>3, <2>5, ReadOnly DEF Place
<1>4. ASSUME Refuse(c)
      PROVE  TypeInv'
  <2>1. Idle \in Call /\ Idle.pc = "idle" /\ Goto(c, Idle) /\ registered' = registered
    BY <1>4 DEF Refuse, Call, Idle, hostVars
  <2>2. caller' \in [Caller -> Call] /\ CallKnows'
    BY <1>0, <2>1, GotoType, GotoKnows
  <2> QED
    BY <1>0, <1>4, <2>2, ReadOnly DEF Refuse
<1>5. ASSUME AssignWorkload(c)
      PROVE  TypeInv'
  <2> DEFINE call == caller[c]
             row == [status |-> "assigned", hostId |-> call.h, rate |-> call.rate,
                     named |-> FALSE]
  <2>1. call.w \in Workload /\ call.h \in Host /\ call.rate \in Nat /\ call.h \in registered
    BY <1>0, <1>5, CallFields DEF AssignWorkload, At, CallKnows
  <2>2. Idle \in Call /\ Idle.pc = "idle" /\ Goto(c, Idle) /\ registered' = registered
    BY <1>5 DEF AssignWorkload, Call, Idle, hostVars
  <2>3. caller' \in [Caller -> Call] /\ CallKnows'
    BY <1>0, <2>2, GotoType, GotoKnows
  <2>4. row \in Row /\ row.hostId = call.h
    BY <2>1 DEF Row, WorkloadStatus
  <2>5. workloads' = [workloads EXCEPT ![call.w] = row]
    BY <1>5 DEF AssignWorkload
  <2> HIDE DEF row
  <2> QED
    BY <1>0, <1>5, <2>1, <2>3, <2>4, <2>5, RowWritten DEF AssignWorkload
<1>6. ASSUME MarkMigrating(c)
      PROVE  TypeInv'
  <2> DEFINE call == caller[c]
             state == [pc |-> "requeue", w |-> call.w, h |-> call.h, named |-> call.named]
             row == [workloads[call.w] EXCEPT !.status = "migrating"]
  <2>1. call.w \in Workload /\ call.h \in Host /\ call.named \in BOOLEAN
    BY <1>0, <1>6, CallFields DEF MarkMigrating
  <2>6. state = [call EXCEPT !.pc = "requeue"]
    <3>1. call = [pc |-> "mark", w |-> call.w, h |-> call.h, named |-> call.named]
      BY <1>0, <1>6, CallFields DEF MarkMigrating, At
    <3> HIDE DEF call
    <3> QED
      BY <3>1
  <2>2. state \in Call /\ state.pc = "requeue" /\ Goto(c, state) /\ registered' = registered
    BY <1>6, <2>1, <2>6 DEF MarkMigrating, Call, PlacementCall, hostVars
  <2> HIDE DEF state
  <2>3. caller' \in [Caller -> Call] /\ CallKnows'
    BY <1>0, <2>1, <2>2, GotoType, GotoKnows
  <2>4. row \in Row /\ row.hostId = workloads[call.w].hostId
    BY <1>0, <2>1 DEF Row, WorkloadStatus
  <2>5. workloads' = [workloads EXCEPT ![call.w] = row]
    BY <1>6 DEF MarkMigrating
  <2> HIDE DEF row
  <2> QED
    BY <1>0, <1>6, <2>1, <2>3, <2>4, <2>5, RowWritten DEF MarkMigrating
<1>7. ASSUME RequeueOnHost(c)
      PROVE  TypeInv'
  <2> DEFINE call == caller[c]
             row == IF call.h \in registered
                    THEN [workloads[call.w] EXCEPT !.status = "assigned", !.hostId = call.h,
                                                   !.named = call.named]
                    ELSE workloads[call.w]
  <2>1. call.w \in Workload /\ call.h \in Host /\ call.named \in BOOLEAN
    BY <1>0, <1>7, CallFields DEF RequeueOnHost
  <2>2. Idle \in Call /\ Idle.pc = "idle" /\ Goto(c, Idle) /\ registered' = registered
    BY <1>7 DEF RequeueOnHost, Call, Idle, hostVars
  <2>3. caller' \in [Caller -> Call] /\ CallKnows'
    BY <1>0, <2>2, GotoType, GotoKnows
  <2>4. row \in Row /\ row.hostId \in registered \cup {Null}
    BY <1>0, <2>1 DEF Row, WorkloadStatus
  <2>5. workloads' = [workloads EXCEPT ![call.w] = row]
    BY <1>0, <1>7 DEF RequeueOnHost
  <2> HIDE DEF row
  <2> QED
    BY <1>0, <1>7, <2>1, <2>3, <2>4, <2>5, RowWritten DEF RequeueOnHost
<1>8. ASSUME RegistryCallStep(c), UNCHANGED workloads
      PROVE  TypeInv'
  BY <1>8, OwnerKeepsTypes
<1> QED
  BY <1>1, <1>2, <1>3, <1>4, <1>5, <1>6, <1>7, <1>8 DEF CallStep

\* Every step keeps the types.
LEMMA TypesStep == TypeInv /\ [Next]_vars => TypeInv'
<1> SUFFICES ASSUME TypeInv, [Next]_vars PROVE TypeInv'
  OBVIOUS
<1>1. ASSUME NEW c \in Caller, CallStep(c) PROVE TypeInv'
  BY <1>1, CallKeepsTypes
<1>2. ASSUME NEW d \in Daemon, DaemonStep(d), UNCHANGED workloads PROVE TypeInv'
  BY <1>2, DaemonKeepsTypes
<1>3. ASSUME NEW w \in Workload, WorkloadMoves(w) PROVE TypeInv'
  <2>1. PICK status \in {"assigned", "running", "sleeping", "failed"} :
           workloads' = [workloads EXCEPT ![w].status = status]
    BY <1>3 DEF WorkloadMoves
  <2> DEFINE row == [workloads[w] EXCEPT !.status = status]
  <2>2. row \in Row /\ row.hostId = workloads[w].hostId
    BY DEF TypeInv, TypeOK, Row, WorkloadStatus
  <2>3. workloads' = [workloads EXCEPT ![w] = row]
    BY <2>1
  <2>4. workloads[w].hostId \in registered \cup {Null} /\ UNCHANGED registryVars
        /\ calls \in Nat /\ caller \in [Caller -> Call] /\ CallKnows
    BY <1>3 DEF TypeInv, TypeOK, RegistryTypeOK, WorkloadMoves
  <2> HIDE DEF row
  <2> QED
    BY <2>2, <2>3, <2>4, RowWritten DEF registryVars, hostVars, poolVars, CallKnows
<1>4. ASSUME UNCHANGED vars PROVE TypeInv'
  <2>1. UNCHANGED <<hostVars, poolVars, daemon, outcomes, workloads, calls, caller>>
    BY <1>4 DEF vars, registryVars, hostVars, poolVars
  <2>2. calls \in Nat /\ caller \in [Caller -> Call] /\ CallKnows'
    BY <2>1 DEF TypeInv, TypeOK, RegistryTypeOK, CallKnows, hostVars
  <2> QED
    BY <2>1, <2>2, ReadOnly
<1> QED
  BY <1>1, <1>2, <1>3, <1>4 DEF Next

\* The tables, calls and daemons hold values of their types, and every host
\* that a workload's row names has a row itself (db/schema.ts:1-64).
THEOREM MarketTypes == Spec => []TypeOK
<1>1. Spec => []TypeInv
  BY TypesInit, TypesStep, PTL DEF Spec
<1>2. TypeInv => TypeOK
  BY DEF TypeInv
<1> QED
  BY <1>1, <1>2, PTL

\* No host asks more than 188% of its floor or less than 79%, and it asks the
\* floor once the demand is 36% of the supply, whatever requests are left
\* pending and whatever owners and daemons write (marketPricingService.ts:14-43).
THEOREM PricesInRange == Spec => []PriceRange
  BY MarketTypes, TypesBoundPrices, PTL

--------------------------------------------------------------------------------
(* Placements *)

\* No pool loses a host, and no step of an owner or a daemon places a workload.
LEMMA RegistryEffect ==
    ASSUME TypeOK,
           \/ \E c \in Caller : RegistryCallStep(c)
           \/ \E d \in Daemon : DaemonStep(d)
    PROVE  /\ members \subseteq members'
           /\ \A b \in Caller : caller'[b] = caller[b]
                                \/ caller'[b].pc \notin {"assign", "mark", "requeue"}
<1> USE DEF poolVars, Begin
<1>1. ASSUME NEW c \in Caller, RegistryCallStep(c)
      PROVE  members \subseteq members'
  BY <1>1 DEF RegistryCallStep, InitHost, SetHost, CreatePool, AddHost, HostCommand, InsertHost,
     InsertHostThrows, UpdateHost, RefreshHostScore, JoinPool, AddHostToPool
<1>2. ASSUME NEW c \in Caller, RegistryCallStep(c)
      PROVE  \/ caller' = caller
             \/ \E state : Goto(c, state) /\ state.pc \notin {"assign", "mark", "requeue"}
  <2>1. Idle.pc = "idle"
    BY DEF Idle
  <2>2. CASE \E h \in Host, offer \in Offers : InitHost(c, h, offer)
    BY <2>2 DEF InitHost
  <2>3. CASE \E h \in Host, e \in Edits, p \in Pool \cup {Null} : SetHost(c, h, e, p)
    BY <2>3 DEF SetHost
  <2>4. CASE \/ \E p \in Pool : CreatePool(c, p)
             \/ \E h \in Host, p \in Pool : AddHost(c, h, p)
             \/ HostCommand(c)
    BY <2>4 DEF CreatePool, AddHost, HostCommand
  <2>5. CASE InsertHost(c) \/ InsertHostThrows(c) \/ JoinPool(c)
    BY <2>1, <2>5 DEF InsertHost, InsertHostThrows, JoinPool
  <2>6. CASE UpdateHost(c)
    BY <2>6 DEF UpdateHost
  <2>7. CASE RefreshHostScore(c)
    BY <2>1, <2>7 DEF RefreshHostScore
  <2> QED
    BY <1>2, <2>2, <2>3, <2>4, <2>5, <2>6, <2>7 DEF RegistryCallStep
<1>3. ASSUME NEW d \in Daemon, DaemonStep(d)
      PROVE  members' = members /\ caller' = caller
  BY <1>3 DEF DaemonStep, DaemonWorks, StartDaemon, AdjustUptime, AdjustCompletion, UpdateMetrics,
     EndLoop, StopDaemon, CrashDaemon
<1>4. caller \in [Caller -> Call]
  BY DEF TypeOK
<1>5. ASSUME NEW c \in Caller, NEW state, Goto(c, state),
             state.pc \notin {"assign", "mark", "requeue"}, NEW b \in Caller
      PROVE  caller'[b] = caller[b] \/ caller'[b].pc \notin {"assign", "mark", "requeue"}
  BY <1>4, <1>5 DEF Goto
<1> QED
  BY <1>1, <1>2, <1>3, <1>5

\* A host fits a request if it is in the pool asked for.
InPoolOf(w, h) == Request[w].pool # Null => h \in HostIdsInPool(Request[w].pool)
WithinCap(w, rate) == Request[w].priceCap # Null => rate <= Request[w].priceCap

\* A call that was given its host by the scheduler is about to write one that
\* was asked for, and a rate within the cap.
CallPlaces(call) ==
    /\ call.pc = "assign" => InPoolOf(call.w, call.h) /\ WithinCap(call.w, call.rate)
    /\ call.pc \in {"mark", "requeue"} => call.named \/ InPoolOf(call.w, call.h)

CallsPlace == \A c \in Caller : CallPlaces(caller[c])

\* A row holds a rate within the cap, and a host that was asked for unless the
\* caller of a migration named it.
RowPlaced(w, row) ==
    /\ row.hostId # Null => row.named \/ InPoolOf(w, row.hostId)
    /\ WithinCap(w, row.rate)

RowsPlaced == \A w \in Workload : RowPlaced(w, workloads[w])

PlacedInv == TypeInv /\ CallsPlace /\ RowsPlaced

SamePlace(w) ==
    /\ workloads'[w].hostId = workloads[w].hostId
    /\ workloads'[w].rate = workloads[w].rate
    /\ workloads'[w].named = workloads[w].named

\* Placements hold in the initial states: nothing is placed yet.
LEMMA PlacedInit == Init => PlacedInv
<1> SUFFICES ASSUME Init PROVE PlacedInv
  OBVIOUS
<1>1. \A w \in Workload : Request[w].priceCap # Null => Request[w].priceCap \in Nat
  BY RequestAssumption DEF Requests
<1>2. CallsPlace
  BY DEF Init, RegistryInit, CallsPlace, CallPlaces, Idle
<1>3. RowsPlaced
  BY <1>1 DEF Init, RowsPlaced, RowPlaced, Absent, WithinCap
<1> QED
  BY <1>2, <1>3, TypesInit DEF PlacedInv

\* Placements are kept by a step that only writes one row and moves one call.
LEMMA PlacedKept ==
    ASSUME PlacedInv, TypeInv', members \subseteq members',
           \A b \in Caller : caller'[b] = caller[b] \/ CallPlaces(caller'[b]),
           \A w \in Workload : SamePlace(w) \/ RowPlaced(w, workloads'[w])
    PROVE  PlacedInv'
<1>1. \A w, h : InPoolOf(w, h) => InPoolOf(w, h)'
  BY DEF InPoolOf, HostIdsInPool
<1>2. \A w, r : WithinCap(w, r) => WithinCap(w, r)'
  BY DEF WithinCap
<1>3. CallsPlace'
  BY <1>1, <1>2 DEF PlacedInv, CallsPlace, CallPlaces
<1>4. RowsPlaced'
  BY <1>1, <1>2 DEF PlacedInv, RowsPlaced, RowPlaced, SamePlace
<1> QED
  BY <1>3, <1>4 DEF PlacedInv

\* Every step keeps placements as requested.
LEMMA PlacedStep == PlacedInv /\ [Next]_vars => PlacedInv'
<1> SUFFICES ASSUME PlacedInv, [Next]_vars PROVE PlacedInv'
  OBVIOUS
<1> USE DEF poolVars
<1>0. /\ TypeInv /\ TypeInv' /\ TypeOK
      /\ caller \in [Caller -> Call] /\ workloads \in [Workload -> Row]
      /\ CallsPlace /\ RowsPlaced
  BY TypesStep DEF PlacedInv, TypeInv, TypeOK
<1>1. ASSUME UNCHANGED workloads,
             \/ \E c \in Caller : RegistryCallStep(c)
             \/ \E d \in Daemon : DaemonStep(d)
      PROVE  PlacedInv'
  BY <1>0, <1>1, RegistryEffect, PlacedKept DEF CallPlaces, SamePlace
<1>2. ASSUME NEW c \in Caller, NEW w \in Workload, Spawn(c, w)
      PROVE  PlacedInv'
  <2>1. members' = members
    BY <1>2 DEF Spawn
  <2>2. \A b \in Caller : caller'[b] = caller[b] \/ caller'[b].pc = "place"
    BY <1>0, <1>2 DEF Spawn, Goto
  <2>3. \A v \in Workload : SamePlace(v)
    BY <1>0, <1>2 DEF Spawn, Row, SamePlace
  <2> QED
    BY <1>0, <2>1, <2>2, <2>3, PlacedKept DEF CallPlaces
<1>3. ASSUME NEW c \in Caller, NEW w \in Workload, Migrate(c, w)
      PROVE  PlacedInv'
  <2>1. PICK h, named : /\ MigratesTo(w, h, named)
                        /\ Goto(c, [pc |-> "mark", w |-> w, h |-> h, named |-> named])
    BY <1>3, MigrateEffect
  <2>2. named \/ InPoolOf(w, h)
    BY <1>0, <2>1, Placed DEF MigratesTo, InPoolOf
  <2>3. members' = members /\ workloads' = workloads
    BY <1>3 DEF Migrate
  <2>4. \A b \in Caller : \/ caller'[b] = caller[b]
                          \/ /\ caller'[b].pc = "mark" /\ caller'[b].w = w
                             /\ caller'[b].h = h /\ caller'[b].named = named
    BY <1>0, <2>1 DEF Goto
  <2> QED
    BY <1>0, <2>2, <2>3, <2>4, PlacedKept DEF CallPlaces, SamePlace
<1>4. ASSUME NEW c \in Caller, Place(c)
      PROVE  PlacedInv'
  <2> DEFINE w == caller[c].w
  <2>1. w \in Workload
    BY <1>0, <1>4, CallFields DEF Place
  <2>2. PICK h \in PlaceWorkload(w, Null) :
           Goto(c, [pc |-> "assign", w |-> w, h |-> h, rate |-> PriceForHost(h)])
    BY <1>4 DEF Place
  <2>3. InPoolOf(w, h) /\ WithinCap(w, PriceForHost(h))
    BY <1>0, <2>1, Placed DEF InPoolOf, WithinCap
  <2>4. members' = members /\ workloads' = workloads
    BY <1>4 DEF Place
  <2>5. \A b \in Caller : \/ caller'[b] = caller[b]
                          \/ /\ caller'[b].pc = "assign" /\ caller'[b].w = w
                             /\ caller'[b].h = h /\ caller'[b].rate = PriceForHost(h)
    BY <1>0, <2>2 DEF Goto
  <2> HIDE DEF w
  <2> QED
    BY <1>0, <2>3, <2>4, <2>5, PlacedKept DEF CallPlaces, SamePlace
<1>5. ASSUME NEW c \in Caller, Refuse(c)
      PROVE  PlacedInv'
  <2>1. members' = members /\ workloads' = workloads
    BY <1>5 DEF Refuse
  <2>2. \A b \in Caller : caller'[b] = caller[b] \/ caller'[b].pc = "idle"
    BY <1>0, <1>5 DEF Refuse, Goto, Idle
  <2> QED
    BY <1>0, <2>1, <2>2, PlacedKept DEF CallPlaces, SamePlace
<1>6. ASSUME NEW c \in Caller, AssignWorkload(c)
      PROVE  PlacedInv'
  <2> DEFINE call == caller[c]
  <2>1. call.w \in Workload /\ InPoolOf(call.w, call.h) /\ WithinCap(call.w, call.rate)
    BY <1>0, <1>6, CallFields DEF AssignWorkload, At, CallsPlace, CallPlaces
  <2>2. members' = members
    BY <1>6 DEF AssignWorkload
  <2>3. \A b \in Caller : caller'[b] = caller[b] \/ caller'[b].pc = "idle"
    BY <1>0, <1>6 DEF AssignWorkload, Goto, Idle
  <2>4. \A v \in Workload :
           IF v = call.w THEN workloads'[v].hostId = call.h /\ workloads'[v].rate = call.rate
           ELSE workloads'[v] = workloads[v]
    BY <1>0, <1>6, <2>1 DEF AssignWorkload
  <2> HIDE DEF call
  <2>5. \A v \in Workload : SamePlace(v) \/ RowPlaced(v, workloads'[v])
    BY <2>1, <2>4 DEF SamePlace, RowPlaced
  <2> QED
    BY <1>0, <2>2, <2>3, <2>5, PlacedKept DEF CallPlaces
<1>7. ASSUME NEW c \in Caller, MarkMigrating(c)
      PROVE  PlacedInv'
  <2> DEFINE call == caller[c]
  <2>1. call.named \/ InPoolOf(call.w, call.h)
    BY <1>0, <1>7 DEF MarkMigrating, At, CallsPlace, CallPlaces
  <2>2. members' = members
    BY <1>7 DEF MarkMigrating
  <2>3. \A b \in Caller : \/ caller'[b] = caller[b]
                          \/ /\ caller'[b].pc = "requeue" /\ caller'[b].w = call.w
                             /\ caller'[b].h = call.h /\ caller'[b].named = call.named
    BY <1>0, <1>7, CallFields DEF MarkMigrating, Goto
  <2>4. \A v \in Workload : SamePlace(v)
    BY <1>0, <1>7 DEF MarkMigrating, Row, SamePlace
  <2> HIDE DEF call
  <2> QED
    BY <1>0, <2>1, <2>2, <2>3, <2>4, PlacedKept DEF CallPlaces
<1>8. ASSUME NEW c \in Caller, RequeueOnHost(c)
      PROVE  PlacedInv'
  <2> DEFINE call == caller[c]
  <2>1. call.w \in Workload /\ (call.named \/ InPoolOf(call.w, call.h))
    BY <1>0, <1>8, CallFields DEF RequeueOnHost, At, CallsPlace, CallPlaces
  <2>2. members' = members
    BY <1>8 DEF RequeueOnHost
  <2>3. \A b \in Caller : caller'[b] = caller[b] \/ caller'[b].pc = "idle"
    BY <1>0, <1>8 DEF RequeueOnHost, Goto, Idle
  <2>4. \A v \in Workload :
           \/ SamePlace(v)
           \/ /\ v = call.w
              /\ workloads'[v].hostId = call.h /\ workloads'[v].named = call.named
              /\ workloads'[v].rate = workloads[v].rate
    <3>1. CASE call.h \in registered
      <4> DEFINE row == [workloads[call.w] EXCEPT !.status = "assigned", !.hostId = call.h,
                                                  !.named = call.named]
      <4>1. workloads' = [workloads EXCEPT ![call.w] = row]
        BY <1>8, <3>1 DEF RequeueOnHost
      <4>2. row.hostId = call.h /\ row.named = call.named /\ row.rate = workloads[call.w].rate
        BY <1>0, <2>1 DEF Row
      <4> HIDE DEF row
      <4> QED
        BY <1>0, <2>1, <4>1, <4>2 DEF SamePlace
    <3>2. CASE call.h \notin registered
      BY <1>8, <3>2 DEF RequeueOnHost, SamePlace
    <3> QED
      BY <3>1, <3>2
  <2>5. \A v \in Workload : WithinCap(v, workloads[v].rate)
    BY <1>0 DEF RowsPlaced, RowPlaced
  <2> HIDE DEF call
  <2>6. \A v \in Workload : SamePlace(v) \/ RowPlaced(v, workloads'[v])
    BY <2>1, <2>4, <2>5 DEF RowPlaced
  <2> QED
    BY <1>0, <2>2, <2>3, <2>6, PlacedKept DEF CallPlaces
<1>9. ASSUME NEW w \in Workload, WorkloadMoves(w)
      PROVE  PlacedInv'
  <2>1. members' = members /\ caller' = caller
    BY <1>9 DEF WorkloadMoves, registryVars
  <2>2. \A v \in Workload : SamePlace(v)
    BY <1>0, <1>9 DEF WorkloadMoves, Row, SamePlace
  <2> QED
    BY <1>0, <2>1, <2>2, PlacedKept
<1>10. ASSUME UNCHANGED vars PROVE PlacedInv'
  BY <1>0, <1>10, PlacedKept DEF vars, registryVars, SamePlace
<1> QED
  BY <1>1, <1>2, <1>3, <1>4, <1>5, <1>6, <1>7, <1>8, <1>9, <1>10 DEF Next, CallStep

\* A workload's rate is within its cap, and it is on a host of the pool it asked
\* for or on one that the caller of its last migration named, however many
\* owners, customers and daemons work at once, and however often and by however
\* many callers at a time it is migrated (schedulerService.ts:67-97,
\* checkpointService.ts:75-119).
THEOREM PlacementsAsRequested == Spec => []PlacedAsRequested
<1>1. Spec => []PlacedInv
  BY PlacedInit, PlacedStep, PTL DEF Spec
<1>2. PlacedInv => PlacedAsRequested
  BY DEF PlacedInv, RowsPlaced, RowPlaced, PlacedAsRequested, InPoolOf, WithinCap
<1> QED
  BY <1>1, <1>2, PTL

--------------------------------------------------------------------------------
(* Reliability *)

\* Of two prices for the same demand and floor, the one of the better score is
\* at most a little higher.
LEMMA DearerBy ==
    ASSUME NEW p \in Nat, NEW x \in Nat, NEW y \in Nat, 6500 <= x, x < y, y <= 9150
    PROVE  LET P(z) == p + (p * (z - 7000)) \div 50000
               A == 100000 + 4 * P(x)
               B == 100000 + 4 * P(y)
           IN /\ A \in Nat /\ B \in Nat /\ P(x) \in Nat /\ P(y) \in Nat
              /\ A <= B /\ 90000 + 3 * p <= A
              /\ 50000 * (B - A) <= 4 * (p * (y - x)) + 200000
<1> DEFINE t == p * (x - 7000)
           s == p * (y - 7000)
           D == p * (y - x)
           u == t \div 50000
           v == s \div 50000
<1>1. t \in Int /\ s \in Int /\ D \in Nat /\ s = t + D
  OBVIOUS
<1>2. p * (-500) <= t
  BY ProductOrder
<1> HIDE DEF t, s, D
<1>3. /\ u \in Int /\ 50000 * u <= t /\ t < 50000 * u + 50000
      /\ v \in Int /\ 50000 * v <= s /\ s < 50000 * v + 50000
  BY <1>1, DivBounds
<1> HIDE DEF u, v
<1>4. u <= v
  BY <1>1, <1>3
<1>5. 100 * u + 100 > -p
  BY <1>1, <1>2, <1>3
<1>6. 50000 * (v - u) <= D + 50000
  BY <1>1, <1>3
<1>7. p + u \in Nat /\ p + v \in Nat
  BY <1>3, <1>4, <1>5
<1> QED
  BY <1>3, <1>4, <1>5, <1>6, <1>7 DEF t, s, D, u, v

\* What a higher price takes from the rank is less than what the score that
\* raised it adds.
LEMMA CheaperByLess ==
    ASSUME NEW A \in Nat, NEW B \in Nat, NEW p \in Nat, NEW k \in Nat \ {0},
           A <= B, 90000 + 3 * p <= A,
           50000 * (B - A) <= 4 * (p * k) + 200000
    PROVE  /\ 2000000000 \div A \in Nat /\ 2000000000 \div B \in Nat
           /\ 2000000000 \div A < 2000000000 \div B + 4 * k
<1> DEFINE q == 2000000000 \div A
           v == 2000000000 \div B
           C == B - A
<1>1. /\ q \in Int /\ A * q <= 2000000000
      /\ v \in Int /\ B * v <= 2000000000 /\ 2000000000 < B * v + B
      /\ 0 <= q /\ 0 <= v
  <2>1. A \in Nat \ {0} /\ B \in Nat \ {0} /\ 2000000000 \in Int
    OBVIOUS
  <2>2. A * 0 <= 2000000000 /\ B * 0 <= 2000000000
    OBVIOUS
  <2> QED
    BY <2>1, <2>2, DivBounds, DivMultiple
<1> HIDE DEF q, v
<1>2. C \in Nat /\ B = A + C
  OBVIOUS
<1> HIDE DEF C
<1> SUFFICES ASSUME q >= v + 4 * k PROVE FALSE
  BY <1>1 DEF q, v
<1>3. A * v + A * (4 * k) <= 2000000000
  <2>1. A * (v + 4 * k) <= A * q
    BY <1>1, ProductOrder
  <2>2. A * (v + 4 * k) = A * v + A * (4 * k)
    BY <1>1
  <2> QED
    BY <1>1, <2>1, <2>2
<1>4. A * (4 * k) < C * v + C + A
  <2>1. B * v + B = A * v + C * v + A + C
    BY <1>1, <1>2
  <2> QED
    BY <1>1, <1>2, <1>3, <2>1
<1>5. A * (3 * k) < C * (v + 1)
  <2>1. A * (4 * k) = A * (3 * k) + A * k /\ C * (v + 1) = C * v + C
    BY <1>1, <1>2
  <2>2. A * 1 <= A * k
    BY ProductOrder
  <2> QED
    BY <1>1, <1>2, <1>4, <2>1, <2>2
<1>6. k * (150000 * A) < (v + 1) * (4 * (p * k) + 200000)
  <2>1. (v + 1) * (50000 * C) <= (v + 1) * (4 * (p * k) + 200000)
    BY <1>1, <1>2, ProductOrder DEF C
  <2>2. (v + 1) * (50000 * C) = 50000 * (C * (v + 1)) /\ k * (150000 * A) = 50000 * (A * (3 * k))
    BY <1>1, <1>2
  <2> QED
    BY <1>1, <1>2, <1>5, <2>1, <2>2
<1> DEFINE Y == 4 * (p * v) + 4 * p + 200000 * (v + 1)
<1>7. (v + 1) * (4 * (p * k) + 200000) <= k * Y
  <2>1. (v + 1) * (4 * (p * k) + 200000) = k * (4 * (p * v) + 4 * p) + 200000 * (v + 1)
    BY <1>1
  <2>2. 200000 * (v + 1) <= k * (200000 * (v + 1))
    <3>1. (200000 * (v + 1)) * 1 <= (200000 * (v + 1)) * k
      BY <1>1, ProductOrder
    <3> QED
      BY <1>1, <3>1
  <2>3. k * Y = k * (4 * (p * v) + 4 * p) + k * (200000 * (v + 1))
    BY <1>1
  <2> QED
    BY <1>1, <2>1, <2>2, <2>3
<1>8. v <= 22222 /\ 3 * (p * v) <= 2000000000
  <2>1. v * A <= v * B /\ v * (90000 + 3 * p) <= v * A
    BY <1>1, ProductOrder
  <2>2. v * (90000 + 3 * p) = 90000 * v + 3 * (p * v) /\ p * v \in Nat /\ v * B = B * v
    BY <1>1
  <2> QED
    BY <1>1, <2>1, <2>2
<1>9. Y \in Nat /\ Y < 150000 * A
  <2>1. p * v \in Nat
    BY <1>1
  <2> QED
    BY <1>1, <1>8, <2>1
<1> HIDE DEF Y
<1>10. k * Y <= k * (150000 * A)
  BY <1>9, ProductOrder
<1> QED
  BY <1>1, <1>6, <1>7, <1>9, <1>10

\* How often a request fits a host is a number, whatever the host's terms.
LEMMA FitType ==
    ASSUME TypeOK, NEW w \in Workload, NEW h \in Host
    PROVE  ResourceFit(w, h) \in Int
<1>1. settings[h] \in Settings /\ Request[w] \in Requests
  BY RequestAssumption DEF TypeOK, RegistryTypeOK
<1>2. /\ SumFunctionOnSet(RequestedCpu, AllocatedTo(h)) \in Nat
      /\ SumFunctionOnSet(RequestedMemoryMb, AllocatedTo(h)) \in Nat
  <2>1. \A v \in Workload : RequestedCpu[v] \in Nat /\ RequestedMemoryMb[v] \in Nat
    BY RequestAssumption DEF RequestedCpu, RequestedMemoryMb, Requests
  <2>2. AllocatedTo(h) \subseteq Workload
    BY DEF AllocatedTo
  <2> QED
    BY <2>1, <2>2, SumType, RequestAssumption
<1>3. AvailableCpu(h) \in Int
  <2>1. settings[h].cpuTotal * settings[h].maxCpuPct \in Int
    BY <1>1 DEF Settings
  <2> QED
    BY <1>2, <2>1 DEF AvailableCpu, Larger
<1>4. AvailableMemoryMb(h) \in Int
  BY <1>1, <1>2 DEF AvailableMemoryMb, Larger, Settings
<1>5. Request[w].cpu \in Nat \ {0} /\ Request[w].memoryMb \in Nat \ {0}
  BY <1>1 DEF Requests
<1> DEFINE a == (1000 * AvailableCpu(h)) \div Request[w].cpu
           b == (1000 * AvailableMemoryMb(h)) \div Request[w].memoryMb
<1>6. a \in Int /\ b \in Int
  <2> DEFINE m == 1000 * AvailableCpu(h)
             n == 1000 * AvailableMemoryMb(h)
  <2>1. m \in Int /\ n \in Int
    BY <1>3, <1>4
  <2> HIDE DEF m, n
  <2>2. m \div Request[w].cpu \in Int /\ n \div Request[w].memoryMb \in Int
    BY <1>5, <2>1, DivBounds
  <2> QED
    BY <2>2 DEF m, n
<1>7. ResourceFit(w, h) = Clamp(Smaller(a, b), 0, 4000)
  BY DEF ResourceFit
<1> HIDE DEF a, b
<1> QED
  BY <1>6, <1>7 DEF Clamp, Smaller

\* Of hosts with the same offer and room, the one with the better score ranks
\* higher.
LEMMA BetterRanksHigher ==
    ASSUME TypeOK, NEW w \in Workload, NEW g \in Host, NEW h \in Host,
           SameOffer(g, h), score[h] < score[g]
    PROVE  ~(RankOf(w, g) <= RankOf(w, h))
<1> DEFINE f == Floor(h)
           s == RegionSupply(h)
           d == RegionDemand(h)
           p == (f * Pressure(s, d)) \div (10 * s)
           x == score[h]
           y == score[g]
<1>1. /\ f \in Nat /\ s \in Nat \ {0} /\ d \in Nat
      /\ x \in Nat /\ y \in Nat /\ 6500 <= x /\ x < y /\ y <= 9150
  BY TermsType
<1>2. f = Floor(g) /\ s = RegionSupply(g) /\ d = RegionDemand(g)
  BY DEF SameOffer, Floor, RegionSupply, RegionDemand
<1>3. /\ PriceForHost(h) = p + (p * Reliability(x)) \div 50000
      /\ PriceForHost(g) = p + (p * Reliability(y)) \div 50000
  BY <1>2 DEF PriceForHost, PriceOf
<1>4. ResourceFit(w, g) = ResourceFit(w, h) /\ settings[g] = settings[h]
  BY DEF SameOffer, ResourceFit
<1> HIDE DEF f, s, d, x, y
<1>5. p \in Nat
  BY <1>1, PressedRange
<1> HIDE DEF p
<1>6. Reliability(x) = x - 7000 /\ Reliability(y) = y - 7000
  BY <1>1 DEF Reliability, Clamp
<1> DEFINE A == 100000 + 4 * PriceForHost(h)
           B == 100000 + 4 * PriceForHost(g)
           k == y - x
<1>7. /\ A \in Nat /\ B \in Nat /\ k \in Nat \ {0}
      /\ A <= B /\ 90000 + 3 * p <= A /\ 50000 * (B - A) <= 4 * (p * k) + 200000
  BY <1>1, <1>3, <1>5, <1>6, DearerBy
<1> DEFINE a == 2000000000 \div A
           b == 2000000000 \div B
<1>8. a \in Nat /\ b \in Nat /\ a < b + 4 * k
  <2> HIDE DEF A, B, k
  <2> QED
    BY <1>5, <1>7, CheaperByLess
<1>9. (15 * ResourceFit(w, h)) \div 2 \in Int
  <2>1. ResourceFit(w, h) \in Int
    BY FitType
  <2> QED
    BY <2>1
<1> DEFINE e == (15 * ResourceFit(w, h)) \div 2
           m == IF settings[h].tier = Request[w].tier THEN 10000 ELSE 7000
<1>10. RankOf(w, h) = 4 * x + e + a + m /\ RankOf(w, g) = 4 * y + e + b + m /\ m \in Int
  BY <1>4 DEF RankOf, x, y
<1> HIDE DEF a, b, e, m
<1> QED
  BY <1>1, <1>8, <1>9, <1>10 DEF k, e

\* Reliability pays: of eligible hosts with the same offer and room, one with a
\* lower score is never preferred, whatever the floor, the demand and the
\* request (schedulerService.ts:94-121, marketPricingService.ts:17).
THEOREM ReliabilityRewarded == Spec => ReliabilityPays
<1> DEFINE Preferred ==
      \A c \in Caller :
         At(c, "place") /\ caller'[c].pc = "assign" =>
            \A g \in Eligible(caller[c].w, Null) :
               SameOffer(g, caller'[c].h) => score[g] <= score[caller'[c].h]
<1>1. ASSUME TypeInv, Next, NEW c \in Caller, At(c, "place"), caller'[c].pc = "assign"
      PROVE  caller[c].w \in Workload /\ caller'[c].h \in PlaceWorkload(caller[c].w, Null)
  <2>0. TypeOK /\ caller \in [Caller -> Call]
    BY <1>1 DEF TypeInv, TypeOK
  <2>1. caller'[c] # caller[c]
    BY <1>1 DEF At
  <2>2. ASSUME NEW b \in Caller, Place(b)
        PROVE  b = c
    BY <2>0, <2>1, <2>2 DEF Place, Goto
  <2>3. ASSUME NEW b \in Caller, ~Place(b), CallStep(b)
        PROVE  FALSE
    <3>1. ~RegistryCallStep(b)
      BY <1>1, <2>0, <2>1, RegistryEffect
    <3>2. \A state \in Call : Goto(b, state) => caller'[c] = caller[c] \/ state.pc = "assign"
      BY <1>1, <2>0 DEF Goto
    <3>3. CASE Refuse(b) \/ AssignWorkload(b) \/ RequeueOnHost(b)
      BY <1>1, <2>0, <2>1, <3>3 DEF Refuse, AssignWorkload, RequeueOnHost, Goto, Idle
    <3>4. CASE MarkMigrating(b)
      BY <1>1, <2>0, <2>1, <3>4 DEF MarkMigrating, Goto
    <3>5. CASE \E w \in Workload : Spawn(b, w)
      BY <1>1, <2>0, <2>1, <3>5 DEF Spawn, Goto
    <3>6. CASE \E w \in Workload : Migrate(b, w)
      BY <1>1, <2>0, <2>1, <3>6 DEF Migrate, Goto
    <3> QED
      BY <2>3, <3>1, <3>3, <3>4, <3>5, <3>6 DEF CallStep
  <2>4. ASSUME NEW d \in Daemon, DaemonStep(d)
        PROVE  FALSE
    BY <1>1, <2>0, <2>1, <2>4, RegistryEffect
  <2>5. ASSUME NEW w \in Workload, WorkloadMoves(w)
        PROVE  FALSE
    BY <2>1, <2>5 DEF WorkloadMoves, registryVars
  <2>6. Place(c)
    BY <1>1, <2>2, <2>3, <2>4, <2>5 DEF Next
  <2>7. PICK h \in PlaceWorkload(caller[c].w, Null) :
           Goto(c, [pc |-> "assign", w |-> caller[c].w, h |-> h, rate |-> PriceForHost(h)])
    BY <2>6 DEF Place
  <2>8. caller'[c].h = h
    BY <2>0, <2>7 DEF Goto
  <2> QED
    BY <1>1, <2>0, <2>7, <2>8, CallFields
<1>2. TypeInv /\ [Next]_vars => [Preferred]_vars
  <2> SUFFICES ASSUME TypeInv, Next PROVE Preferred
    OBVIOUS
  <2> SUFFICES ASSUME NEW c \in Caller, At(c, "place"), caller'[c].pc = "assign",
                      NEW g \in Eligible(caller[c].w, Null), SameOffer(g, caller'[c].h)
               PROVE  score[g] <= score[caller'[c].h]
    OBVIOUS
  <2> DEFINE w == caller[c].w
             h == caller'[c].h
  <2>1. w \in Workload /\ h \in PlaceWorkload(w, Null)
    BY <1>1
  <2>2. TypeOK /\ g \in Host /\ h \in Host
    BY <2>1, Placed DEF TypeInv, TypeOK, RegistryTypeOK, Eligible, RunningHosts
  <2>3. RankOf(w, g) <= RankOf(w, h)
    BY <2>1 DEF PlaceWorkload
  <2>4. ~(score[h] < score[g])
    BY <2>1, <2>2, <2>3, BetterRanksHigher
  <2>5. score[g] \in Nat /\ score[h] \in Nat
    BY <2>2, TermsType
  <2> QED
    BY <2>4, <2>5
<1>3. Init => TypeInv
  BY TypesInit
<1>4. TypeInv /\ [Next]_vars => TypeInv'
  BY TypesStep
<1> QED
  BY <1>2, <1>3, <1>4, PTL DEF Spec, ReliabilityPays

--------------------------------------------------------------------------------
(* Outcomes *)

\* No two daemons serve one host.
OneDaemonPerHost == \A d, e \in Daemon : Serves[d] = Serves[e] => d = e

\* A host that is not registered has the metrics of a new one; a daemon at work
\* serves a registered one; and what a daemon is about to write is one outcome
\* counted upon what is stored.
LedgerInv ==
    /\ TypeInv
    /\ \A h \in Host \ registered : metrics[h] = NewMetrics
    /\ \A d \in Daemon : daemon[d].pc \in {"work", "write"} => Serves[d] \in registered
    /\ \A d \in Daemon : Is(d, "write") =>
          daemon[d].metrics \in Ledger!Outcomes(metrics[Serves[d]])

\* The ledger counts by the arithmetic of the code.
LEMMA OutcomesAre ==
    /\ Ledger!Metrics = Metrics
    /\ \A m : Ledger!Outcomes(m) = {Healthy(m), Concluded(m, TRUE), Concluded(m, FALSE)}
  BY DEF Ledger!Metrics, Metrics, Ledger!UptimeRange, UptimeRange, Ledger!CompletionRange,
     CompletionRange, Ledger!Outcomes, Ledger!Healthy, Healthy, Ledger!Concluded, Concluded,
     Ledger!Clamp, Clamp

\* Nothing has been counted when the ledger begins.
LEMMA LedgerInit == Init => LedgerInv /\ Ledger!Init
<1> SUFFICES ASSUME Init PROVE LedgerInv /\ Ledger!Init
  OBVIOUS
<1>1. TypeInv
  BY TypesInit
<1>2. metrics \in [Host -> Ledger!Metrics]
  BY <1>1, OutcomesAre DEF TypeInv, TypeOK, RegistryTypeOK
<1>3. \A h \in Host \ registered : metrics[h] = NewMetrics
  BY DEF Init, RegistryInit
<1>4. \A d \in Daemon : daemon[d].pc = "off"
  BY DEF Init, RegistryInit
<1> QED
  BY <1>1, <1>2, <1>3, <1>4 DEF LedgerInv, Ledger!Init, Is

\* A step that changes no metrics is none of the ledger's, and keeps the
\* invariant if daemons begin to write only what is due.
LEMMA LedgerKept ==
    ASSUME LedgerInv, TypeInv', metrics' = metrics, registered \subseteq registered',
           \A e \in Daemon :
              \/ daemon'[e] = daemon[e]
              \/ daemon'[e].pc \in {"off", "loop"}
              \/ daemon'[e].pc = "work" /\ daemon[e].pc \in {"work", "write"}
              \/ /\ daemon'[e].pc = "write" /\ Serves[e] \in registered
                 /\ daemon'[e].metrics \in Ledger!Outcomes(metrics[Serves[e]])
    PROVE  LedgerInv' /\ UNCHANGED metrics
<1>1. \A h \in Host \ registered' : metrics'[h] = NewMetrics
  BY DEF LedgerInv
<1>2. ASSUME NEW e \in Daemon
      PROVE  /\ daemon'[e].pc \in {"work", "write"} => Serves[e] \in registered'
             /\ daemon'[e].pc = "write" =>
                   daemon'[e].metrics \in Ledger!Outcomes(metrics'[Serves[e]])
  BY DEF LedgerInv, Is
<1> QED
  BY <1>1, <1>2 DEF LedgerInv, Is

\* Every step of every process is a step of the ledger or leaves it alone.
LEMMA LedgerStep ==
    ASSUME OneDaemonPerHost
    PROVE  LedgerInv /\ [Next]_vars => LedgerInv' /\ [Ledger!Next]_metrics
<1> SUFFICES ASSUME LedgerInv, [Next]_vars PROVE LedgerInv' /\ [Ledger!Next]_metrics
  OBVIOUS
<1> USE DEF hostVars, Begin
<1>0. /\ TypeInv /\ TypeInv' /\ TypeOK /\ Serves \in [Daemon -> Host]
      /\ metrics \in [Host -> Metrics] /\ daemon \in [Daemon -> DaemonState]
      /\ settings \in [Host -> Settings]
  BY TypesStep, ProcessAssumption DEF LedgerInv, TypeInv, TypeOK, RegistryTypeOK
<1>1. ASSUME NEW c \in Caller, CallStep(c)
      PROVE  LedgerInv' /\ UNCHANGED metrics
  <2>1. CASE InsertHost(c)
    <3> DEFINE h == caller[c].h
    <3>1. h \in Host /\ h \notin registered
      BY <1>0, <2>1, CallFields DEF InsertHost
    <3>2. metrics[h] = NewMetrics
      BY <3>1 DEF LedgerInv
    <3>3. metrics' = metrics
      BY <1>0, <2>1, <3>2 DEF InsertHost
    <3>4. daemon' = daemon /\ registered \subseteq registered'
      BY <2>1 DEF InsertHost
    <3> QED
      BY <1>0, <3>3, <3>4, LedgerKept
  <2>2. CASE ~InsertHost(c)
    <3>1. metrics' = metrics /\ daemon' = daemon /\ registered' = registered
      BY <1>1, <2>2 DEF CallStep, RegistryCallStep, InitHost, SetHost, CreatePool, AddHost,
         HostCommand, InsertHostThrows, UpdateHost, RefreshHostScore, JoinPool, Spawn, Migrate,
         Place, Refuse, AssignWorkload, MarkMigrating, RequeueOnHost
    <3> QED
      BY <1>0, <3>1, LedgerKept
  <2> QED
    BY <2>1, <2>2
<1>2. ASSUME NEW d \in Daemon, DaemonStep(d)
      PROVE  LedgerInv' /\ [Ledger!Next]_metrics
  <2> DEFINE h == Serves[d]
  <2>0. h \in Host /\ registered' = registered
    BY <1>0, <1>2 DEF DaemonStep, DaemonWorks, StartDaemon, AdjustUptime, AdjustCompletion,
       UpdateMetrics, EndLoop, StopDaemon, CrashDaemon
  <2>1. ASSUME NEW state, Turn(d, state), metrics' = metrics,
               \/ state.pc \in {"off", "loop"}
               \/ /\ state.pc = "write" /\ h \in registered
                  /\ state.metrics \in Ledger!Outcomes(metrics[h])
        PROVE  LedgerInv' /\ [Ledger!Next]_metrics
    <3>1. \A e \in Daemon : daemon'[e] = IF e = d THEN state ELSE daemon[e]
      BY <1>0, <2>1 DEF Turn
    <3> QED
      BY <1>0, <2>0, <2>1, <3>1, LedgerKept
  <2>2. CASE StartDaemon(d) \/ EndLoop(d) \/ StopDaemon(d) \/ CrashDaemon(d)
    BY <2>1, <2>2 DEF StartDaemon, EndLoop, StopDaemon, CrashDaemon
  <2>3. CASE AdjustUptime(d)
    <3>1. Healthy(metrics[h]) \in Ledger!Outcomes(metrics[h])
      BY OutcomesAre
    <3> QED
      BY <2>1, <2>3, <3>1 DEF AdjustUptime
  <2>4. ASSUME NEW success \in BOOLEAN, AdjustCompletion(d, success)
        PROVE  LedgerInv' /\ [Ledger!Next]_metrics
    <3>1. Concluded(metrics[h], success) \in Ledger!Outcomes(metrics[h])
      BY OutcomesAre
    <3>2. h \in registered
      BY <2>4 DEF AdjustCompletion, Is, LedgerInv
    <3> QED
      BY <2>1, <2>4, <3>1, <3>2 DEF AdjustCompletion
  <2>5. CASE UpdateMetrics(d)
    <3> DEFINE m == daemon[d].metrics
    <3>1. h \in registered /\ m \in Ledger!Outcomes(metrics[h])
      BY <2>5 DEF UpdateMetrics, Is, LedgerInv
    <3>2. metrics' = [metrics EXCEPT ![h] = m]
      BY <2>5 DEF UpdateMetrics
    <3>3. Ledger!Next
      BY <2>0, <3>1, <3>2 DEF Ledger!Next, Ledger!Count
    <3>4. \A g \in Host \ registered' : metrics'[g] = NewMetrics
      BY <1>0, <2>0, <3>1, <3>2 DEF LedgerInv
    <3>5. \A e \in Daemon : /\ e = d => daemon'[e] = [pc |-> "work"]
                            /\ e # d => daemon'[e] = daemon[e] /\ Serves[e] # h
      BY <1>0, <2>5 DEF UpdateMetrics, Turn, OneDaemonPerHost
    <3>6. \A e \in Daemon : daemon'[e].pc \in {"work", "write"} => Serves[e] \in registered'
      BY <2>0, <3>1, <3>5 DEF LedgerInv
    <3>7. \A e \in Daemon : daemon'[e].pc = "write" =>
             daemon'[e].metrics \in Ledger!Outcomes(metrics'[Serves[e]])
      BY <1>0, <3>2, <3>5 DEF LedgerInv, Is
    <3> QED
      BY <1>0, <3>3, <3>4, <3>6, <3>7 DEF LedgerInv, Is
  <2> QED
    BY <1>2, <2>2, <2>3, <2>4, <2>5 DEF DaemonStep, DaemonWorks
<1>3. ASSUME NEW w \in Workload, WorkloadMoves(w)
      PROVE  LedgerInv' /\ UNCHANGED metrics
  <2>1. metrics' = metrics /\ daemon' = daemon /\ registered' = registered
    BY <1>3 DEF WorkloadMoves, registryVars
  <2> QED
    BY <1>0, <2>1, LedgerKept
<1>4. ASSUME UNCHANGED vars
      PROVE  LedgerInv' /\ UNCHANGED metrics
  <2>1. metrics' = metrics /\ daemon' = daemon /\ registered' = registered
    BY <1>4 DEF vars, registryVars
  <2> QED
    BY <1>0, <2>1, LedgerKept
<1> QED
  BY <1>1, <1>2, <1>3, <1>4 DEF Next

\* With one daemon per host, no outcome is lost under another, and neither a
\* registration nor an owner's edit touches what was counted
\* (hostService.ts:46-129, reputationService.ts:51-83).
THEOREM OutcomesCounted ==
    ASSUME OneDaemonPerHost
    PROVE  Spec => OutcomesCountOnce
<1>1. Init => LedgerInv /\ Ledger!Init
  BY LedgerInit
<1>2. LedgerInv /\ [Next]_vars => LedgerInv' /\ [Ledger!Next]_metrics
  BY LedgerStep
<1> QED
  BY <1>1, <1>2, PTL DEF Spec, OutcomesCountOnce, Ledger!Spec

================================================================================
