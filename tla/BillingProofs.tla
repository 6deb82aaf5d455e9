----------------------------- MODULE BillingProofs -----------------------------
(***************************************************************************)
(* What metering and billing guarantee for every number of workloads,      *)
(* hosts and billing processes, all rates and intervals, and however their *)
(* steps interleave.                                                       *)
(***************************************************************************)
EXTENDS Billing, FiniteSums, SequenceTheorems

--------------------------------------------------------------------------------
(* Types *)

LEMMA MinuteBucketType ==
    \A t \in 0..MaxTime : MinuteBucket(t) \in Minute
  BY DEF Minute

LEMMA BillerType ==
    ASSUME TypeOK, NEW b \in Biller, biller[b].pc # "idle"
    PROVE  biller[b] \in Bill
  BY DEF TypeOK, Idle

LEMMA CostType ==
    \A w \in Workload, n \in Nat : Cost(w, n) \in Nat
  BY RateAssumption DEF Cost

LEMMA DidType ==
    ASSUME TypeOK, NEW b \in Biller, NEW m, biller[b] \in Bill,
           biller' = [biller EXCEPT ![b].todo = @ \ {m}]
    PROVE  biller' \in [Biller -> Bill \cup {Idle}]
<1> DEFINE r == [biller[b] EXCEPT !.todo = @ \ {m}]
<1>1. r \in Bill
  BY DEF Bill
<1>2. biller' = [biller EXCEPT ![b] = r]
  OBVIOUS
<1> HIDE DEF r
<1> QED
  BY <1>1, <1>2 DEF TypeOK

\* What the steps of a bill write.
LEMMA UpsertType ==
    ASSUME TypeOK, NEW b \in Biller, UpsertLineItem(b)
    PROVE  /\ biller[b] \in Bill /\ biller[b].pc = "upsert"
           /\ \E m \in biller[b].todo, item \in LineItem :
                /\ item = LineItemOf(biller[b].w, m, biller[b].host, biller[b].values[m])
                /\ lineItems' = [lineItems EXCEPT ![biller[b].w][m] = item]
                /\ biller' = [biller EXCEPT ![b].todo = @ \ {m}]
           /\ UNCHANGED <<meterVars, earnings>>
<1>1. biller[b] \in Bill /\ biller[b].pc = "upsert"
  BY BillerType DEF UpsertLineItem, At
<1>2. PICK m \in NextMinute(b) :
          /\ lineItems' = [lineItems EXCEPT ![biller[b].w][m] =
                              LineItemOf(biller[b].w, m, biller[b].host, biller[b].values[m])]
          /\ Did(b, m)
  BY DEF UpsertLineItem
<1>3. m \in biller[b].todo /\ m \in Minute
  BY <1>1 DEF NextMinute, Bill
<1>4. /\ biller[b].w \in Workload /\ biller[b].host \in Host
      /\ biller[b].values[m] \in Nat
  BY <1>1, <1>3 DEF Bill
<1>5. lineItems[biller[b].w][m] \in LineItem
  BY <1>3, <1>4 DEF TypeOK
<1>6. LineItemOf(biller[b].w, m, biller[b].host, biller[b].values[m]) \in LineItem
  BY <1>4, <1>5, CostType DEF LineItemOf, LineItem
<1> QED
  BY <1>1, <1>2, <1>3, <1>6 DEF Did, UpsertLineItem

LEMMA InsertType ==
    ASSUME TypeOK, NEW b \in Biller, InsertEarning(b)
    PROVE  /\ biller[b] \in Bill /\ biller[b].pc = "insert"
           /\ \E m \in biller[b].todo, e \in Earning :
                /\ e.minute = m /\ e.gross = Cost(biller[b].w, biller[b].values[m])
                /\ e.host = biller[b].host
                /\ earnings' = [earnings EXCEPT ![biller[b].w] = Append(@, e)]
                /\ biller' = [biller EXCEPT ![b].todo = @ \ {m}]
           /\ UNCHANGED <<meterVars, lineItems>>
<1>1. biller[b] \in Bill /\ biller[b].pc = "insert"
  BY BillerType DEF InsertEarning, At
<1>2. PICK m \in NextMinute(b) :
          /\ earnings' = [earnings EXCEPT ![biller[b].w] =
                Append(@, [host |-> biller[b].host, minute |-> m,
                           gross |-> Cost(biller[b].w, biller[b].values[m])])]
          /\ Did(b, m)
  BY DEF InsertEarning
<1>3. m \in biller[b].todo /\ m \in Minute
  BY <1>1 DEF NextMinute, Bill
<1> DEFINE e == [host |-> biller[b].host, minute |-> m,
                 gross |-> Cost(biller[b].w, biller[b].values[m])]
<1>4. e \in Earning
  BY <1>1, <1>3, CostType DEF Bill, Earning
<1>5. /\ e.minute = m /\ e.gross = Cost(biller[b].w, biller[b].values[m])
      /\ e.host = biller[b].host
  OBVIOUS
<1>6. earnings' = [earnings EXCEPT ![biller[b].w] = Append(@, e)]
  BY <1>2
<1> HIDE DEF e
<1> QED
  BY <1>1, <1>2, <1>3, <1>4, <1>5, <1>6 DEF Did, InsertEarning

\* The tables and processes of billing always hold values of their types.
THEOREM BillingTypes == Spec => []TypeOK
<1>1. Init => TypeOK
  BY TimeAssumption DEF Init, TypeOK, Nothing, NoItem, LineItem
<1>2. TypeOK /\ [Next]_vars => TypeOK'
  <2> SUFFICES ASSUME TypeOK, [Next]_vars PROVE TypeOK'
    OBVIOUS
  <2>1. CASE TimePasses
    BY <2>1, TimeAssumption DEF TimePasses, TypeOK, billVars
  <2>2. ASSUME NEW w \in Workload, AssignWorkload(w) PROVE TypeOK'
    BY <2>2 DEF AssignWorkload, TypeOK, billVars
  <2>3. ASSUME NEW w \in Workload, RequeueOnHost(w) PROVE TypeOK'
    BY <2>3 DEF RequeueOnHost, TypeOK, billVars
  <2>4. ASSUME NEW h \in Host, CollectMetering(h) PROVE TypeOK'
    BY <2>4, TimeAssumption DEF CollectMetering, TypeOK, billVars, NextLoop
  <2>5. ASSUME NEW h \in Host, RecordTick(h) PROVE TypeOK'
    <3>1. PICK w \in sweep[h] :
            /\ sweep' = [sweep EXCEPT ![h] = @ \ {w}]
            /\ \/ /\ usage' = [usage EXCEPT ![w][MinuteBucket(now)] = @ + MeteringInterval]
                  /\ ranOn' = [ranOn EXCEPT ![w][h] = @ + MeteringInterval]
               \/ UNCHANGED <<usage, ranOn>>
      BY <2>5 DEF RecordTick
    <3>2. w \in Workload /\ MinuteBucket(now) \in Minute
      <4>1. now \in 0..MaxTime
        BY DEF TypeOK
      <4> QED
        BY <3>1, <4>1, MinuteBucketType DEF TypeOK
    <3>3. usage' \in [Workload -> [Minute -> Nat]]
      <4> DEFINE bucket == MinuteBucket(now)
                 n == usage[w][bucket] + MeteringInterval
      <4>1. CASE usage' = [usage EXCEPT ![w][bucket] = @ + MeteringInterval]
        <5>1. usage[w] \in [Minute -> Nat] /\ bucket \in Minute
          BY <3>2 DEF TypeOK
        <5>2. n \in Nat
          BY <5>1, TimeAssumption
        <5>3. usage' = [usage EXCEPT ![w] = [usage[w] EXCEPT ![bucket] = n]]
          BY <4>1
        <5> HIDE DEF bucket, n
        <5>4. [usage[w] EXCEPT ![bucket] = n] \in [Minute -> Nat]
          BY <5>1, <5>2
        <5> QED
          BY <5>3, <5>4 DEF TypeOK
      <4> QED
        BY <3>1, <4>1 DEF TypeOK
    <3>6. ranOn' \in [Workload -> [Host -> Nat]]
      <4>1. ranOn[w] \in [Host -> Nat]
        BY <3>2 DEF TypeOK
      <4>2. [ranOn[w] EXCEPT ![h] = @ + MeteringInterval] \in [Host -> Nat]
        BY <4>1, TimeAssumption
      <4>3. \/ ranOn' = [ranOn EXCEPT ![w] = [ranOn[w] EXCEPT ![h] = @ + MeteringInterval]]
            \/ UNCHANGED ranOn
        BY <3>1
      <4> QED
        BY <4>2, <4>3 DEF TypeOK
    <3>4. sweep' \in [Host -> SUBSET Workload]
      BY <3>1 DEF TypeOK
    <3>5. loopAt' \in [Host -> Nat]
      BY <2>5, TimeAssumption DEF RecordTick, TypeOK, NextLoop
    <3> QED
      BY <2>5, <3>3, <3>4, <3>5, <3>6 DEF RecordTick, TypeOK, billVars
  <2>6. ASSUME NEW h \in Host, RestartDaemon(h) PROVE TypeOK'
    BY <2>6 DEF RestartDaemon, TypeOK, billVars
  <2>7. ASSUME NEW b \in Biller, BillerStep(b) PROVE TypeOK'
    <3>1. ASSUME NEW w \in Workload, Materialize(b, w) PROVE TypeOK'
      <4>1. [pc |-> "usage", w |-> w, host |-> hostId[w],
             values |-> Nothing, todo |-> {}] \in Bill
        BY <3>1 DEF Materialize, TypeOK, Bill, Nothing
      <4> QED
        BY <3>1, <4>1 DEF Materialize, TypeOK, meterVars
    <3>2. CASE ReadUsage(b)
      <4>1. biller[b] \in Bill
        BY <3>2, BillerType DEF ReadUsage, At
      <4>2. MinuteUsage(biller[b].w) \in [Minute -> Nat]
        BY <4>1 DEF TypeOK, Bill, MinuteUsage
      <4> DEFINE r == [biller[b] EXCEPT !.pc = "upsert", !.values = MinuteUsage(biller[b].w),
                                        !.todo = Used(MinuteUsage(biller[b].w))]
      <4>3. r \in Bill
        BY <4>1, <4>2 DEF Bill, Used
      <4>4. biller' = [biller EXCEPT ![b] = r]
        BY <3>2 DEF ReadUsage
      <4> HIDE DEF r
      <4> QED
        BY <3>2, <4>3, <4>4 DEF ReadUsage, TypeOK, meterVars
    <3>3. CASE UpsertLineItem(b)
      <4>1. biller[b] \in Bill
        BY <3>3, UpsertType
      <4>2. PICK m \in biller[b].todo, item \in LineItem :
              /\ lineItems' = [lineItems EXCEPT ![biller[b].w][m] = item]
              /\ biller' = [biller EXCEPT ![b].todo = @ \ {m}]
        BY <3>3, UpsertType
      <4>3. biller[b].w \in Workload /\ m \in Minute
        BY <4>1 DEF Bill
      <4>4. lineItems' \in [Workload -> [Minute -> LineItem]]
        BY <4>2, <4>3 DEF TypeOK
      <4>5. biller' \in [Biller -> Bill \cup {Idle}]
        BY <4>1, <4>2, DidType
      <4> QED
        BY <3>3, <4>4, <4>5, UpsertType DEF TypeOK, meterVars
    <3>4. CASE DeleteEarnings(b)
      <4>1. biller[b] \in Bill
        BY <3>4, BillerType DEF DeleteEarnings, At
      <4> DEFINE r == [biller[b] EXCEPT !.pc = "insert", !.todo = Used(biller[b].values)]
      <4>2. r \in Bill
        BY <4>1 DEF Bill, Used
      <4>3. biller' = [biller EXCEPT ![b] = r]
        BY <3>4 DEF DeleteEarnings
      <4> HIDE DEF r
      <4>4. earnings' \in [Workload -> Seq(Earning)]
        BY <3>4, EmptySeq DEF DeleteEarnings, TypeOK
      <4> QED
        BY <3>4, <4>2, <4>3, <4>4 DEF DeleteEarnings, TypeOK, meterVars
    <3>5. CASE InsertEarning(b)
      <4>1. biller[b] \in Bill
        BY <3>5, InsertType
      <4>2. PICK m \in biller[b].todo, e \in Earning :
              /\ earnings' = [earnings EXCEPT ![biller[b].w] = Append(@, e)]
              /\ biller' = [biller EXCEPT ![b].todo = @ \ {m}]
        BY <3>5, InsertType
      <4>3. biller' \in [Biller -> Bill \cup {Idle}]
        BY <4>1, <4>2, DidType
      <4>4. earnings[biller[b].w] \in Seq(Earning)
        BY <4>1 DEF TypeOK, Bill
      <4>5. Append(earnings[biller[b].w], e) \in Seq(Earning)
        BY <4>4, AppendProperties
      <4>6. earnings' \in [Workload -> Seq(Earning)]
        BY <4>2, <4>5 DEF TypeOK
      <4> QED
        BY <3>5, <4>3, <4>6, InsertType DEF TypeOK, meterVars
    <3>6. CASE Return(b)
      BY <3>6 DEF Return, TypeOK, meterVars
    <3>7. CASE Abort(b)
      BY <3>7 DEF Abort, TypeOK, meterVars
    <3> QED
      BY <2>7, <3>1, <3>2, <3>3, <3>4, <3>5, <3>6, <3>7 DEF BillerStep
  <2>8. CASE UNCHANGED vars
    BY <2>8 DEF vars, meterVars, billVars, TypeOK
  <2> QED
    BY <2>1, <2>2, <2>3, <2>4, <2>5, <2>6, <2>7, <2>8 DEF Next
<1> QED
  BY <1>1, <1>2, PTL DEF Spec

--------------------------------------------------------------------------------
(* Bills never exceed the usage. *)

\* What a bill has read is no more than there is.
ReadBound ==
    \A b \in Biller : biller[b].pc # "idle" =>
        \A m \in Minute : biller[b].values[m] <= usage[biller[b].w][m]

\* Usage is only ever added.
UsageGrows == \A w \in Workload, m \in Minute : usage[w][m] <= usage'[w][m]

LEMMA UsageOnlyGrows ==
    ASSUME TypeOK, [Next]_vars
    PROVE  UsageGrows
<1>0. UNCHANGED usage => UsageGrows
  BY DEF UsageGrows, TypeOK
<1>1. ASSUME NEW h \in Host, RecordTick(h) PROVE UsageGrows
  <2>1. PICK w : \/ usage' = [usage EXCEPT ![w][MinuteBucket(now)] = @ + MeteringInterval]
                 \/ UNCHANGED usage
    BY <1>1 DEF RecordTick
  <2>2. ASSUME usage' = [usage EXCEPT ![w][MinuteBucket(now)] = @ + MeteringInterval],
               NEW v \in Workload, NEW m \in Minute
        PROVE  usage[v][m] <= usage'[v][m]
    <3>1. usage[v] \in [Minute -> Nat] /\ usage[v][m] \in Nat
      BY DEF TypeOK
    <3>2. usage'[v] = IF v = w THEN [usage[v] EXCEPT ![MinuteBucket(now)] = @ + MeteringInterval]
                               ELSE usage[v]
      BY <2>2 DEF TypeOK
    <3> QED
      BY <3>1, <3>2, TimeAssumption
  <2> QED
    BY <1>0, <2>1, <2>2 DEF UsageGrows
<1>2. ASSUME NEW b \in Biller, BillerStep(b) PROVE UNCHANGED usage
  BY <1>2 DEF BillerStep, Materialize, ReadUsage, UpsertLineItem, DeleteEarnings,
       InsertEarning, Return, Abort, meterVars
<1> QED
  BY <1>0, <1>1, <1>2 DEF Next, TimePasses, AssignWorkload, RequeueOnHost, CollectMetering,
       RestartDaemon, vars, meterVars

\* What a bill that goes on has read stays, or is read now.
LEMMA ReadBoundStep ==
    ASSUME TypeOK, TypeOK', ReadBound, [Next]_vars
    PROVE  ReadBound'
<1>1. UsageGrows
  BY UsageOnlyGrows
<1>2. ASSUME NEW b \in Biller, UNCHANGED biller[b]
      PROVE  biller'[b].pc # "idle" =>
                \A m \in Minute : biller'[b].values[m] <= usage'[biller'[b].w][m]
  <2> SUFFICES ASSUME biller[b].pc # "idle", NEW m \in Minute
               PROVE  biller[b].values[m] <= usage'[biller[b].w][m]
    BY <1>2
  <2>1. biller[b] \in Bill
    BY BillerType
  <2>2. /\ biller[b].w \in Workload /\ biller[b].values[m] \in Nat
        /\ usage[biller[b].w][m] \in Nat /\ usage'[biller[b].w][m] \in Nat
    BY <2>1 DEF Bill, TypeOK
  <2> QED
    BY <1>1, <2>2 DEF ReadBound, UsageGrows
<1>3. ASSUME UNCHANGED biller PROVE ReadBound'
  BY <1>2, <1>3 DEF ReadBound
<1>4. ASSUME NEW b \in Biller, BillerStep(b) PROVE ReadBound'
  <2>1. \A x \in Biller \ {b} : biller'[x] = biller[x]
    BY <1>4 DEF BillerStep, Materialize, ReadUsage, UpsertLineItem, DeleteEarnings,
         InsertEarning, Return, Abort, Did, TypeOK
  <2>2. UNCHANGED usage
    BY <1>4 DEF BillerStep, Materialize, ReadUsage, UpsertLineItem, DeleteEarnings,
         InsertEarning, Return, Abort, meterVars
  <2>3. biller'[b].pc # "idle" =>
            \A m \in Minute : biller'[b].values[m] <= usage[biller'[b].w][m]
    <3>1. ASSUME NEW w \in Workload, Materialize(b, w)
          PROVE  \A m \in Minute : biller'[b].values[m] <= usage[biller'[b].w][m]
      <4>1. biller'[b].w = w /\ biller'[b].values = Nothing
        BY <3>1 DEF Materialize, TypeOK
      <4> QED
        BY <4>1 DEF Nothing, TypeOK
    <3>2. ASSUME ReadUsage(b)
          PROVE  \A m \in Minute : biller'[b].values[m] <= usage[biller'[b].w][m]
      <4>1. biller[b] \in Bill
        BY <3>2, BillerType DEF ReadUsage, At
      <4>2. biller'[b].w = biller[b].w /\ biller'[b].values = usage[biller[b].w]
        BY <3>2, <4>1 DEF ReadUsage, MinuteUsage, TypeOK, Bill
      <4> QED
        BY <4>1, <4>2 DEF TypeOK, Bill
    <3>3. ASSUME UpsertLineItem(b) \/ DeleteEarnings(b) \/ InsertEarning(b)
          PROVE  \A m \in Minute : biller'[b].values[m] <= usage[biller'[b].w][m]
      <4>1. biller[b] \in Bill /\ biller[b].pc # "idle"
        BY <3>3, BillerType DEF UpsertLineItem, DeleteEarnings, InsertEarning, At
      <4>2. biller'[b].w = biller[b].w /\ biller'[b].values = biller[b].values
        <5>1. CASE UpsertLineItem(b)
          <6>1. \E m : biller' = [biller EXCEPT ![b].todo = @ \ {m}]
            BY <5>1, UpsertType
          <6> QED
            BY <4>1, <6>1 DEF TypeOK, Bill
        <5>2. CASE DeleteEarnings(b)
          BY <4>1, <5>2 DEF DeleteEarnings, TypeOK, Bill
        <5>3. CASE InsertEarning(b)
          <6>1. \E m : biller' = [biller EXCEPT ![b].todo = @ \ {m}]
            BY <5>3, InsertType
          <6> QED
            BY <4>1, <6>1 DEF TypeOK, Bill
        <5> QED
          BY <3>3, <5>1, <5>2, <5>3
      <4> QED
        BY <4>1, <4>2 DEF ReadBound
    <3>4. ASSUME Return(b) \/ Abort(b) PROVE biller'[b].pc = "idle"
      BY <3>4 DEF Return, Abort, Idle, TypeOK
    <3> QED
      BY <1>4, <3>1, <3>2, <3>3, <3>4 DEF BillerStep
  <2> QED
    BY <1>2, <2>1, <2>2, <2>3 DEF ReadBound
<1> QED
  BY <1>3, <1>4 DEF Next, TimePasses, AssignWorkload, RequeueOnHost, CollectMetering,
       RecordTick, RestartDaemon, vars, billVars

\* A line item is written by UpsertLineItem only.
LEMMA UpsertWrites ==
    ASSUME [Next]_vars, \A b \in Biller : ~UpsertLineItem(b)
    PROVE  UNCHANGED lineItems
  BY DEF Next, TimePasses, AssignWorkload, RequeueOnHost, CollectMetering, RecordTick,
     RestartDaemon, BillerStep, Materialize, ReadUsage, DeleteEarnings, InsertEarning,
     Return, Abort, vars, billVars

\* For any number of processes that bill the same workload at the same time,
\* no line item bills more than the minute's usage.
THEOREM UsageBoundsBills == Spec => []NeverOverbilled
<1>1. Init => ReadBound /\ NeverOverbilled
  BY DEF Init, ReadBound, NeverOverbilled, Idle, NoItem
<1>2. TypeOK /\ TypeOK' /\ ReadBound /\ NeverOverbilled /\ [Next]_vars
        => ReadBound' /\ NeverOverbilled'
  <2> SUFFICES ASSUME TypeOK, TypeOK', ReadBound, NeverOverbilled, [Next]_vars
               PROVE  ReadBound' /\ NeverOverbilled'
    OBVIOUS
  <2>1. UsageGrows
    BY UsageOnlyGrows
  <2>2. ASSUME UNCHANGED lineItems PROVE NeverOverbilled'
    <3> SUFFICES ASSUME NEW w \in Workload, NEW m \in Minute
                 PROVE  lineItems[w][m].seconds <= usage'[w][m]
      BY <2>2 DEF NeverOverbilled
    <3>1. lineItems[w][m].seconds \in Nat /\ usage[w][m] \in Nat /\ usage'[w][m] \in Nat
      BY DEF TypeOK, LineItem
    <3> QED
      BY <2>1, <3>1 DEF NeverOverbilled, UsageGrows
  <2>3. ASSUME NEW b \in Biller, UpsertLineItem(b) PROVE NeverOverbilled'
    <3> DEFINE v == biller[b].w
    <3>1. /\ biller[b] \in Bill /\ biller[b].pc = "upsert"
          /\ UNCHANGED usage
      BY <2>3, UpsertType DEF meterVars
    <3>2. PICK m \in biller[b].todo, item \in LineItem :
              /\ item = LineItemOf(v, m, biller[b].host, biller[b].values[m])
              /\ lineItems' = [lineItems EXCEPT ![v][m] = item]
      BY <2>3, UpsertType
    <3>3. item.seconds = biller[b].values[m]
      BY <3>2 DEF LineItemOf
    <3>4. v \in Workload /\ m \in Minute
      BY <3>1, <3>2 DEF Bill
    <3>5. item.seconds <= usage[v][m]
      BY <3>1, <3>3, <3>4 DEF ReadBound
    <3> HIDE DEF v
    <3>6. \A w \in Workload, n \in Minute :
              lineItems'[w][n] = IF w = v /\ n = m THEN item ELSE lineItems[w][n]
      BY <3>2, <3>4 DEF TypeOK
    <3> QED
      BY <3>1, <3>5, <3>6 DEF NeverOverbilled
  <2> QED
    BY <2>2, <2>3, ReadBoundStep, UpsertWrites
<1> QED
  BY <1>1, <1>2, BillingTypes, PTL DEF Spec

--------------------------------------------------------------------------------
(* Ticks do not run ahead of the time. *)

\* The ticks that restarts give away.
Slack(h) == MeteringInterval * restarts[h]

\* A daemon does not wait longer than an interval; what it has recorded for a
\* workload is covered by the time when its next loop begins, or by now if the
\* workload is in the sweep.
TickInv ==
    \A h \in Host :
        /\ loopAt[h] <= now + Interval
        /\ \A w \in Workload :
              ranOn[w][h] <= Slack(h) + (IF w \in sweep[h] THEN now ELSE loopAt[h])

LEMMA SlackType ==
    ASSUME TypeOK, NEW h \in Host
    PROVE  /\ Slack(h) \in Nat
           /\ MeteringInterval * (1 + restarts[h]) = MeteringInterval + Slack(h)
  BY TimeAssumption DEF TypeOK, Slack

\* A daemon that sleeps at least as long as its ticks account for records no
\* more usage than time has passed, but for one tick per start.
THEOREM TicksInRealTime ==
    ASSUME MeteringInterval <= Interval
    PROVE  Spec => []MeteredInRealTime
<1> DEFINE Inv == TickInv /\ MeteredInRealTime
<1>1. Init => Inv
  BY TimeAssumption DEF Init, TickInv, MeteredInRealTime, Slack
<1>2. TypeOK /\ TypeOK' /\ Inv /\ [Next]_vars => Inv'
  <2> SUFFICES ASSUME TypeOK, TypeOK', TickInv, MeteredInRealTime, [Next]_vars
               PROVE  TickInv' /\ MeteredInRealTime'
    OBVIOUS
  <2>a. /\ now \in Nat /\ now' \in Nat /\ Interval \in Nat /\ MeteringInterval \in Nat
        /\ \A h \in Host : loopAt[h] \in Nat /\ loopAt'[h] \in Nat /\ restarts[h] \in Nat
        /\ \A h \in Host, w \in Workload : ranOn[w][h] \in Nat /\ ranOn'[w][h] \in Nat
    BY TimeAssumption DEF TypeOK
  <2>b. \A h \in Host : Slack(h) \in Nat /\ Slack(h)' \in Nat
    <3>1. \A h \in Host : Slack(h) \in Nat
      BY SlackType
    <3>2. \A h \in Host : restarts'[h] \in Nat
      BY DEF TypeOK
    <3>3. \A h \in Host : (MeteringInterval * restarts[h])' \in Nat
      BY <3>2, TimeAssumption
    <3> QED
      BY <3>1, <3>3 DEF Slack
  \* The property, with the product named.
  <2>c. MeteredInRealTime <=>
            \A w \in Workload, h \in Host : ranOn[w][h] <= now + MeteringInterval + Slack(h)
    BY <2>a, <2>b, SlackType DEF MeteredInRealTime
  <2>d. MeteredInRealTime' <=>
            \A w \in Workload, h \in Host : ranOn'[w][h] <= now' + MeteringInterval + Slack(h)'
    <3>1. \A h \in Host : (MeteringInterval * (1 + restarts[h]))' = MeteringInterval + Slack(h)'
      BY TimeAssumption DEF TypeOK, Slack
    <3> QED
      BY <2>a, <2>b, <3>1 DEF MeteredInRealTime
  \* Restarts aside, it is enough to look at the host that steps.
  <2>1. ASSUME UNCHANGED <<restarts, loopAt, sweep, ranOn>>, now <= now'
        PROVE  TickInv' /\ MeteredInRealTime'
    <3>1. \A h \in Host : Slack(h)' = Slack(h)
      BY <2>1 DEF Slack
    <3>2. TickInv'
      BY <2>1, <2>a, <2>b, <3>1 DEF TickInv
    <3>3. MeteredInRealTime'
      BY <2>1, <2>a, <2>b, <2>c, <2>d, <3>1
    <3> QED
      BY <3>2, <3>3
  <2>2. ASSUME NEW h \in Host, CollectMetering(h)
        PROVE  TickInv' /\ MeteredInRealTime'
    <3>1. /\ UNCHANGED <<now, restarts, ranOn>> /\ \A g \in Host : Slack(g)' = Slack(g)
          /\ sweep[h] = {} /\ now >= loopAt[h] /\ loopAt'[h] = now + Interval
          /\ \A g \in Host \ {h} : sweep'[g] = sweep[g] /\ loopAt'[g] = loopAt[g]
      BY <2>2 DEF CollectMetering, NextLoop, Slack, TypeOK
    <3>2. TickInv'
      BY <2>a, <2>b, <3>1 DEF TickInv
    <3> QED
      BY <2>c, <2>d, <3>1, <3>2
  <2>3. ASSUME NEW h \in Host, RecordTick(h)
        PROVE  TickInv' /\ MeteredInRealTime'
    <3>1. PICK w \in sweep[h] :
            /\ sweep' = [sweep EXCEPT ![h] = @ \ {w}]
            /\ \/ ranOn' = [ranOn EXCEPT ![w][h] = @ + MeteringInterval]
               \/ UNCHANGED ranOn
      BY <2>3 DEF RecordTick
    <3>2. w \in Workload
      BY DEF TypeOK
    <3>3. /\ now' = now /\ loopAt'[h] = now + Interval
          /\ \A g \in Host : Slack(g)' = Slack(g)
          /\ \A g \in Host \ {h} : loopAt'[g] = loopAt[g]
      BY <2>3 DEF RecordTick, NextLoop, Slack, TypeOK
    <3>4. /\ sweep'[h] = sweep[h] \ {w}
          /\ \A g \in Host \ {h} : sweep'[g] = sweep[g]
      BY <3>1 DEF TypeOK
    <3>5. \A v \in Workload, g \in Host :
            \/ ranOn'[v][g] = ranOn[v][g]
            \/ v = w /\ g = h /\ ranOn'[v][g] = ranOn[v][g] + MeteringInterval
      <4>1. \A v \in Workload : ranOn[v] \in [Host -> Nat]
        BY DEF TypeOK
      <4>2. CASE ranOn' = [ranOn EXCEPT ![w][h] = @ + MeteringInterval]
        <5>1. \A v \in Workload : ranOn'[v] =
                IF v = w THEN [ranOn[v] EXCEPT ![h] = @ + MeteringInterval] ELSE ranOn[v]
          BY <3>2, <4>2 DEF TypeOK
        <5> QED
          BY <4>1, <5>1
      <4> QED
        BY <3>1, <4>2
    <3>6. ranOn[w][h] <= Slack(h) + now
      BY <3>1, <3>2 DEF TickInv
    <3>7. ASSUME NEW g \in Host PROVE loopAt'[g] <= now' + Interval
      BY <2>a, <3>3 DEF TickInv
    <3>8. ASSUME NEW g \in Host, NEW v \in Workload
          PROVE  ranOn'[v][g] <= Slack(g) + (IF v \in sweep'[g] THEN now ELSE loopAt'[g])
      <4>1. CASE g # h
        BY <3>3, <3>4, <3>5, <4>1 DEF TickInv
      <4>2. CASE g = h /\ v = w
        BY <2>a, <2>b, <3>3, <3>4, <3>5, <3>6, <4>2
      <4>3. CASE g = h /\ v # w
        BY <2>a, <2>b, <3>3, <3>4, <3>5, <4>3 DEF TickInv
      <4> QED
        BY <4>1, <4>2, <4>3
    <3>9. TickInv'
      BY <3>3, <3>7, <3>8 DEF TickInv
    <3>10. MeteredInRealTime'
      BY <2>a, <2>b, <2>c, <2>d, <3>3, <3>5, <3>6
    <3> QED
      BY <3>9, <3>10
  <2>4. ASSUME NEW h \in Host, RestartDaemon(h)
        PROVE  TickInv' /\ MeteredInRealTime'
    <3>1. /\ UNCHANGED <<now, ranOn>> /\ loopAt'[h] = now /\ sweep'[h] = {}
          /\ restarts'[h] = restarts[h] + 1
          /\ \A g \in Host \ {h} : /\ sweep'[g] = sweep[g] /\ loopAt'[g] = loopAt[g]
                                    /\ restarts'[g] = restarts[g]
      BY <2>4 DEF RestartDaemon, TypeOK
    <3>2. /\ Slack(h)' = Slack(h) + MeteringInterval
          /\ \A g \in Host \ {h} : Slack(g)' = Slack(g)
      BY <2>a, <3>1 DEF Slack
    <3>3. TickInv'
      BY <2>a, <2>b, <2>c, <3>1, <3>2 DEF TickInv
    <3>4. MeteredInRealTime'
      BY <2>a, <2>b, <2>c, <2>d, <3>1, <3>2
    <3> QED
      BY <3>3, <3>4
  <2>5. ASSUME NEW b \in Biller, BillerStep(b)
        PROVE  UNCHANGED meterVars
    BY <2>5 DEF BillerStep, Materialize, ReadUsage, UpsertLineItem, DeleteEarnings,
         InsertEarning, Return, Abort
  <2>6. TimePasses => UNCHANGED <<restarts, loopAt, sweep, ranOn>> /\ now <= now'
    BY <2>a DEF TimePasses
  <2>7. ASSUME NEW w \in Workload, AssignWorkload(w) \/ RequeueOnHost(w)
        PROVE  UNCHANGED <<now, restarts, loopAt, sweep, ranOn>>
    BY <2>7 DEF AssignWorkload, RequeueOnHost
  <2>8. UNCHANGED <<now, restarts, loopAt, sweep, ranOn>> => TickInv' /\ MeteredInRealTime'
    BY <2>1, <2>a
  <2> QED
    BY <2>1, <2>2, <2>3, <2>4, <2>5, <2>6, <2>7, <2>8 DEF Next, vars, meterVars
<1> QED
  BY <1>1, <1>2, BillingTypes, PTL DEF Spec

--------------------------------------------------------------------------------
(* Bills of a workload one after the other *)

\* The line items of w, at the price of w.
Priced(w, items) ==
    \A m \in Minute : items[m].total = Cost(w, items[m].seconds)

\* The payments for w follow its line items.
Paid(items, rows) ==
    \A i \in DOMAIN rows :
        /\ \A j \in DOMAIN rows : rows[j].minute = rows[i].minute => i = j
        /\ rows[i].gross <= items[rows[i].minute].total

\* What a bill r in progress has done to the line items and payments: earlier
\* bills charged no more than r has read; the minutes r is through with are
\* charged, and after the DELETE paid, as r has read them.
OnItsWay(r, items, rows) ==
    /\ r.pc # "usage" =>
          \A m \in Minute :
              /\ items[m].seconds <= r.values[m]
              /\ r.pc = "insert" \/ m \notin r.todo => items[m].seconds = r.values[m]
    /\ r.pc = "insert" =>
          /\ \A i \in DOMAIN rows : rows[i].minute \notin r.todo
          /\ \A m \in Used(r.values) \ r.todo : \E i \in DOMAIN rows :
                rows[i].minute = m /\ rows[i].gross = items[m].total

Alone ==
    \A b, x \in Biller :
        biller[b].pc # "idle" /\ biller[x].pc # "idle" /\ biller[b].w = biller[x].w => b = x

BooksInv ==
    /\ Alone
    /\ \A w \in Workload : Priced(w, lineItems[w]) /\ Paid(lineItems[w], earnings[w])
    /\ \A b \in Biller : biller[b].pc # "idle" =>
          OnItsWay(biller[b], lineItems[biller[b].w], earnings[biller[b].w])

LEMMA CostMonotonic ==
    ASSUME NEW w \in Workload, NEW n \in Nat, NEW k \in Nat, n <= k
    PROVE  Cost(w, n) <= Cost(w, k)
<1> DEFINE r == Rate[w]
           d == k - n
<1>1. r \in Nat /\ d \in Nat /\ k = n + d
  BY RateAssumption
<1> HIDE DEF r, d
<1>2. k * r = n * r + d * r
  BY <1>1
<1>3. d * r \in Nat /\ n * r \in Nat
  BY <1>1
<1>4. n * r <= k * r
  BY <1>2, <1>3
<1> QED
  BY <1>4 DEF Cost, r

\* One line item is replaced by one that charges no less.
LEMMA ItemCharged ==
    ASSUME NEW w \in Workload, NEW items \in [Minute -> LineItem], NEW rows \in Seq(Earning),
           NEW r \in Bill, NEW m \in r.todo, NEW item \in LineItem,
           r.pc = "upsert", item.seconds = r.values[m], item.total = Cost(w, r.values[m]),
           Priced(w, items), Paid(items, rows), OnItsWay(r, items, rows)
    PROVE  LET next == [items EXCEPT ![m] = item]
               after == [r EXCEPT !.todo = @ \ {m}]
           IN  /\ Priced(w, next) /\ Paid(next, rows) /\ OnItsWay(after, next, rows)
               /\ \A n \in Minute : items[n].seconds <= next[n].seconds
<1> DEFINE next == [items EXCEPT ![m] = item]
           after == [r EXCEPT !.todo = @ \ {m}]
<1>1. m \in Minute /\ r.values \in [Minute -> Nat]
  BY DEF Bill
<1>2. \A n \in Minute : next[n] = IF n = m THEN item ELSE items[n]
  BY <1>1
<1>3. /\ after.pc = "upsert" /\ after.values = r.values
      /\ after.todo = r.todo \ {m}
  BY DEF Bill
<1>4. items[m].seconds <= r.values[m] /\ items[m].seconds \in Nat /\ r.values[m] \in Nat
  BY <1>1 DEF OnItsWay, LineItem
<1>5. items[m].total <= item.total
  BY <1>1, <1>4, CostMonotonic DEF Priced
<1>6. items[m].total \in Nat /\ item.total \in Nat
  BY <1>1 DEF LineItem
<1> HIDE DEF next, after
<1>7. Priced(w, next)
  BY <1>2 DEF Priced
<1>8. Paid(next, rows)
  <2> SUFFICES ASSUME NEW i \in DOMAIN rows
               PROVE  rows[i].gross <= next[rows[i].minute].total
    BY DEF Paid
  <2>1. rows[i] \in Earning
    BY ElementOfSeq
  <2>2. rows[i].minute \in Minute /\ rows[i].gross \in Nat
    BY <2>1 DEF Earning
  <2>3. rows[i].gross <= items[rows[i].minute].total
    BY DEF Paid
  <2> QED
    BY <1>2, <1>5, <1>6, <2>2, <2>3
<1>9. OnItsWay(after, next, rows)
  BY <1>2, <1>3, <1>4 DEF OnItsWay
<1>10. \A n \in Minute : items[n].seconds <= next[n].seconds
  <2>1. \A n \in Minute : items[n].seconds \in Nat
    BY DEF LineItem
  <2> QED
    BY <1>2, <1>4, <2>1
<1> QED
  BY <1>7, <1>8, <1>9, <1>10 DEF next, after

\* One minute is paid.
LEMMA MinutePaid ==
    ASSUME NEW w \in Workload, NEW items \in [Minute -> LineItem], NEW rows \in Seq(Earning),
           NEW r \in Bill, NEW m \in r.todo, NEW e \in Earning,
           r.pc = "insert", e.minute = m, e.gross = Cost(w, r.values[m]),
           Priced(w, items), Paid(items, rows), OnItsWay(r, items, rows)
    PROVE  LET next == Append(rows, e)
               after == [r EXCEPT !.todo = @ \ {m}]
           IN  Paid(items, next) /\ OnItsWay(after, items, next)
<1> DEFINE next == Append(rows, e)
           after == [r EXCEPT !.todo = @ \ {m}]
<1>1. m \in Minute /\ r.values \in [Minute -> Nat]
  BY DEF Bill
<1>2. /\ Len(rows) \in Nat /\ DOMAIN rows = 1..Len(rows)
      /\ DOMAIN next = 1..(Len(rows) + 1)
      /\ \A i \in DOMAIN rows : next[i] = rows[i]
      /\ next[Len(rows) + 1] = e
  BY AppendProperties, LenProperties
<1>3. /\ after.pc = "insert" /\ after.values = r.values
      /\ after.todo = r.todo \ {m}
  BY DEF Bill
<1>4. e.gross = items[m].total
  BY <1>1 DEF Priced, OnItsWay
<1>5. \A i \in DOMAIN rows : rows[i].minute # m
  BY DEF OnItsWay
<1>6. items[m].total \in Nat
  BY <1>1 DEF LineItem
<1> HIDE DEF next, after
<1>7. Paid(items, next)
  <2> SUFFICES ASSUME NEW i \in DOMAIN next
               PROVE  /\ \A j \in DOMAIN next : next[j].minute = next[i].minute => i = j
                      /\ next[i].gross <= items[next[i].minute].total
    BY DEF Paid
  <2>1. CASE i = Len(rows) + 1
    BY <1>2, <1>4, <1>5, <1>6, <2>1
  <2>2. CASE i \in DOMAIN rows
    BY <1>2, <1>5, <2>2 DEF Paid
  <2> QED
    BY <1>2, <2>1, <2>2
<1>8. OnItsWay(after, items, next)
  <2>1. \A n \in Minute : items[n].seconds <= r.values[n] /\ items[n].seconds = r.values[n]
    BY DEF OnItsWay
  <2>2. \A i \in DOMAIN next : next[i].minute \notin after.todo
    BY <1>2, <1>3 DEF OnItsWay
  <2>3. ASSUME NEW n \in Used(r.values) \ after.todo
        PROVE  \E i \in DOMAIN next : next[i].minute = n /\ next[i].gross = items[n].total
    <3>1. CASE n = m
      BY <1>2, <1>4, <3>1
    <3>2. CASE n \in Used(r.values) \ r.todo
      <4>1. PICK i \in DOMAIN rows : rows[i].minute = n /\ rows[i].gross = items[n].total
        BY <3>2 DEF OnItsWay
      <4> QED
        BY <1>2, <4>1
    <3> QED
      BY <1>3, <3>1, <3>2
  <2> QED
    BY <1>3, <2>1, <2>2, <2>3 DEF OnItsWay
<1> QED
  BY <1>7, <1>8 DEF next, after

\* A step of bill b that goes on with workload w touches nothing of the others.
LEMMA OneBill ==
    ASSUME TypeOK, TypeOK', BooksInv, NEW b \in Biller, NEW w \in Workload, NEW r,
           biller' = [biller EXCEPT ![b] = r],
           r.pc # "idle" => r.w = w /\ OnItsWay(r, lineItems'[w], earnings'[w]),
           \A x \in Biller \ {b} : biller[x].pc # "idle" => biller[x].w # w,
           Priced(w, lineItems'[w]) /\ Paid(lineItems'[w], earnings'[w]),
           \A v \in Workload \ {w} : lineItems'[v] = lineItems[v] /\ earnings'[v] = earnings[v]
    PROVE  BooksInv'
<1>1. biller'[b] = r /\ \A x \in Biller \ {b} : biller'[x] = biller[x]
  BY DEF TypeOK
<1>2. Alone'
  BY <1>1 DEF BooksInv, Alone
<1>3. \A v \in Workload : Priced(v, lineItems'[v]) /\ Paid(lineItems'[v], earnings'[v])
  BY DEF BooksInv
<1>4. ASSUME NEW x \in Biller, biller'[x].pc # "idle"
      PROVE  OnItsWay(biller'[x], lineItems'[biller'[x].w], earnings'[biller'[x].w])
  <2>1. CASE x = b
    BY <1>1, <1>4, <2>1
  <2>2. CASE x # b
    <3>1. biller'[x] = biller[x] /\ biller[x].w \in Workload
      BY <1>1, <1>4, <2>2, BillerType DEF Bill
    <3>2. /\ lineItems'[biller[x].w] = lineItems[biller[x].w]
          /\ earnings'[biller[x].w] = earnings[biller[x].w]
      BY <1>4, <2>2, <3>1
    <3> QED
      BY <1>4, <3>1, <3>2 DEF BooksInv
  <2> QED
    BY <2>1, <2>2
<1> QED
  BY <1>2, <1>3, <1>4 DEF BooksInv

\* Other bills in progress are of other workloads.
LEMMA OthersElsewhere ==
    ASSUME BooksInv, NEW b \in Biller, biller[b].pc # "idle"
    PROVE  \A x \in Biller \ {b} : biller[x].pc # "idle" => biller[x].w # biller[b].w
  BY DEF BooksInv, Alone

LEMMA BillerKeepsBooks ==
    ASSUME TypeOK, TypeOK', NeverOverbilled, BooksInv, Exclusive,
           NEW b \in Biller, BillerStep(b)
    PROVE  /\ BooksInv'
           /\ \A w \in Workload, m \in Minute : lineItems[w][m].seconds <= lineItems'[w][m].seconds
<1> DEFINE Grows == \A w \in Workload, m \in Minute :
                        lineItems[w][m].seconds <= lineItems'[w][m].seconds
<1>a. UNCHANGED lineItems => Grows
  BY DEF TypeOK, LineItem
<1>b. ASSUME UNCHANGED <<lineItems, earnings>>, NEW w \in Workload
      PROVE  /\ Priced(w, lineItems'[w]) /\ Paid(lineItems'[w], earnings'[w])
             /\ \A v \in Workload \ {w} :
                    lineItems'[v] = lineItems[v] /\ earnings'[v] = earnings[v]
  BY <1>b DEF BooksInv
<1>1. ASSUME NEW w \in Workload, Materialize(b, w) PROVE BooksInv' /\ Grows
  <2> DEFINE r == [pc |-> "usage", w |-> w, host |-> hostId[w],
                   values |-> Nothing, todo |-> {}]
  <2>1. /\ biller' = [biller EXCEPT ![b] = r]
        /\ UNCHANGED <<lineItems, earnings>>
    BY <1>1 DEF Materialize
  <2>2. \A x \in Biller \ {b} : biller[x].pc # "idle" => biller[x].w # w
    BY <1>1 DEF Materialize, Busy, Idle
  <2>3. r.pc = "usage" /\ r.w = w /\ OnItsWay(r, lineItems'[w], earnings'[w])
    BY DEF OnItsWay
  <2> HIDE DEF r
  <2>4. BooksInv'
    BY <1>b, <2>1, <2>2, <2>3, OneBill
  <2> QED
    BY <1>a, <2>1, <2>4
<1>2. ASSUME ReadUsage(b) PROVE BooksInv' /\ Grows
  <2> DEFINE w == biller[b].w
             r == [biller[b] EXCEPT !.pc = "upsert", !.values = MinuteUsage(w),
                                    !.todo = Used(MinuteUsage(w))]
  <2>1. biller[b] \in Bill /\ biller[b].pc # "idle"
    BY <1>2, BillerType DEF ReadUsage, At
  <2>2. /\ biller' = [biller EXCEPT ![b] = r]
        /\ UNCHANGED <<lineItems, earnings>>
    BY <1>2 DEF ReadUsage
  <2>3. w \in Workload
    BY <2>1 DEF Bill
  <2>4. r.pc = "upsert" /\ r.w = w /\ r.values = usage[w] /\ r.todo = Used(usage[w])
    BY <2>1 DEF Bill, MinuteUsage
  <2>5. \A x \in Biller \ {b} : biller[x].pc # "idle" => biller[x].w # w
    BY <2>1, OthersElsewhere
  <2> HIDE DEF r, w
  <2>6. \A m \in Minute : /\ lineItems[w][m].seconds <= usage[w][m]
                          /\ lineItems[w][m].seconds \in Nat /\ usage[w][m] \in Nat
    BY <2>3 DEF NeverOverbilled, TypeOK, LineItem
  <2>7. OnItsWay(r, lineItems'[w], earnings'[w])
    BY <2>2, <2>4, <2>6 DEF OnItsWay, Used
  <2>8. BooksInv'
    BY <1>b, <2>2, <2>3, <2>4, <2>5, <2>7, OneBill
  <2> QED
    BY <1>a, <2>2, <2>8
<1>3. ASSUME UpsertLineItem(b) PROVE BooksInv' /\ Grows
  <2> DEFINE w == biller[b].w
  <2>1. biller[b] \in Bill /\ biller[b].pc = "upsert" /\ UNCHANGED earnings
    BY <1>3, UpsertType
  <2>2. PICK m \in biller[b].todo, item \in LineItem :
          /\ item = LineItemOf(w, m, biller[b].host, biller[b].values[m])
          /\ lineItems' = [lineItems EXCEPT ![w][m] = item]
          /\ biller' = [biller EXCEPT ![b].todo = @ \ {m}]
    BY <1>3, UpsertType
  <2>3. item.seconds = biller[b].values[m] /\ item.total = Cost(w, biller[b].values[m])
    BY <2>2 DEF LineItemOf
  <2>4. w \in Workload
    BY <2>1 DEF Bill
  <2>5. \A x \in Biller \ {b} : biller[x].pc # "idle" => biller[x].w # w
    BY <2>1, OthersElsewhere
  <2> DEFINE r == [biller[b] EXCEPT !.todo = @ \ {m}]
             next == [lineItems[w] EXCEPT ![m] = item]
  <2>6. biller' = [biller EXCEPT ![b] = r] /\ r.pc = "upsert" /\ r.w = w
    BY <2>1, <2>2 DEF Bill
  <2>7. lineItems' = [lineItems EXCEPT ![w] = next]
    BY <2>2
  <2>8. /\ Priced(w, lineItems[w]) /\ Paid(lineItems[w], earnings[w])
        /\ OnItsWay(biller[b], lineItems[w], earnings[w])
    BY <2>1, <2>4 DEF BooksInv
  <2>9. lineItems[w] \in [Minute -> LineItem] /\ earnings[w] \in Seq(Earning)
    BY <2>4 DEF TypeOK
  <2> HIDE DEF w
  <2>10. /\ Priced(w, next) /\ Paid(next, earnings[w]) /\ OnItsWay(r, next, earnings[w])
         /\ \A n \in Minute : lineItems[w][n].seconds <= next[n].seconds
    BY <2>1, <2>3, <2>4, <2>8, <2>9, ItemCharged
  <2> HIDE DEF r, next
  <2>11. lineItems'[w] = next /\ \A v \in Workload \ {w} : lineItems'[v] = lineItems[v]
    BY <2>4, <2>7 DEF TypeOK
  <2>12. BooksInv'
    <3>1. Priced(w, lineItems'[w]) /\ Paid(lineItems'[w], earnings'[w])
      BY <2>1, <2>10, <2>11
    <3>2. r.pc # "idle" => r.w = w /\ OnItsWay(r, lineItems'[w], earnings'[w])
      BY <2>1, <2>6, <2>10, <2>11
    <3>3. \A v \in Workload \ {w} : lineItems'[v] = lineItems[v] /\ earnings'[v] = earnings[v]
      BY <2>1, <2>11
    <3> QED
      BY <2>4, <2>5, <2>6, <3>1, <3>2, <3>3, OneBill
  <2>13. Grows
    <3> SUFFICES ASSUME NEW v \in Workload, NEW n \in Minute
                 PROVE  lineItems[v][n].seconds <= lineItems'[v][n].seconds
      OBVIOUS
    <3>1. lineItems[v][n].seconds \in Nat
      BY DEF TypeOK, LineItem
    <3>2. CASE v = w
      BY <2>10, <2>11, <3>2
    <3>3. CASE v # w
      BY <2>11, <3>1, <3>3
    <3> QED
      BY <3>2, <3>3
  <2> QED
    BY <2>12, <2>13
<1>4. ASSUME DeleteEarnings(b) PROVE BooksInv' /\ Grows
  <2> DEFINE w == biller[b].w
             r == [biller[b] EXCEPT !.pc = "insert", !.todo = Used(biller[b].values)]
  <2>1. biller[b] \in Bill /\ biller[b].pc = "upsert" /\ biller[b].todo = {}
    BY <1>4, BillerType DEF DeleteEarnings, At
  <2>2. /\ biller' = [biller EXCEPT ![b] = r]
        /\ earnings' = [earnings EXCEPT ![w] = <<>>]
        /\ UNCHANGED lineItems
    BY <1>4 DEF DeleteEarnings
  <2>3. w \in Workload
    BY <2>1 DEF Bill
  <2>4. /\ r.pc = "insert" /\ r.w = w /\ r.values = biller[b].values
        /\ r.todo = Used(biller[b].values)
    BY <2>1 DEF Bill
  <2>5. \A x \in Biller \ {b} : biller[x].pc # "idle" => biller[x].w # w
    BY <2>1, OthersElsewhere
  <2>6. Priced(w, lineItems[w]) /\ OnItsWay(biller[b], lineItems[w], earnings[w])
    BY <2>1, <2>3 DEF BooksInv
  <2> HIDE DEF r, w
  <2>7. earnings'[w] = <<>> /\ \A v \in Workload \ {w} : earnings'[v] = earnings[v]
    BY <2>2, <2>3 DEF TypeOK
  <2>8. DOMAIN <<>> = {}
    OBVIOUS
  <2>9. Paid(lineItems[w], <<>>)
    BY <2>8 DEF Paid
  <2>10. OnItsWay(r, lineItems[w], <<>>)
    BY <2>1, <2>4, <2>6, <2>8 DEF OnItsWay
  <2>11. BooksInv'
    <3>1. Priced(w, lineItems'[w]) /\ Paid(lineItems'[w], earnings'[w])
      BY <2>2, <2>6, <2>7, <2>9
    <3>2. r.pc # "idle" => r.w = w /\ OnItsWay(r, lineItems'[w], earnings'[w])
      BY <2>2, <2>4, <2>7, <2>10
    <3>3. \A v \in Workload \ {w} : lineItems'[v] = lineItems[v] /\ earnings'[v] = earnings[v]
      BY <2>2, <2>7
    <3> QED
      BY <2>2, <2>3, <2>5, <3>1, <3>2, <3>3, OneBill
  <2> QED
    BY <1>a, <2>2, <2>11
<1>5. ASSUME InsertEarning(b) PROVE BooksInv' /\ Grows
  <2> DEFINE w == biller[b].w
  <2>1. biller[b] \in Bill /\ biller[b].pc = "insert" /\ UNCHANGED lineItems
    BY <1>5, InsertType
  <2>2. PICK m \in biller[b].todo, e \in Earning :
          /\ e.minute = m /\ e.gross = Cost(w, biller[b].values[m])
          /\ earnings' = [earnings EXCEPT ![w] = Append(@, e)]
          /\ biller' = [biller EXCEPT ![b].todo = @ \ {m}]
    BY <1>5, InsertType
  <2>3. w \in Workload
    BY <2>1 DEF Bill
  <2>4. \A x \in Biller \ {b} : biller[x].pc # "idle" => biller[x].w # w
    BY <2>1, OthersElsewhere
  <2> DEFINE r == [biller[b] EXCEPT !.todo = @ \ {m}]
             next == Append(earnings[w], e)
  <2>5. biller' = [biller EXCEPT ![b] = r] /\ r.pc = "insert" /\ r.w = w
    BY <2>1, <2>2 DEF Bill
  <2>6. earnings' = [earnings EXCEPT ![w] = next]
    BY <2>2
  <2>7. /\ Priced(w, lineItems[w]) /\ Paid(lineItems[w], earnings[w])
        /\ OnItsWay(biller[b], lineItems[w], earnings[w])
    BY <2>1, <2>3 DEF BooksInv
  <2>8. lineItems[w] \in [Minute -> LineItem] /\ earnings[w] \in Seq(Earning)
    BY <2>3 DEF TypeOK
  <2> HIDE DEF w
  <2>9. Paid(lineItems[w], next) /\ OnItsWay(r, lineItems[w], next)
    BY <2>1, <2>2, <2>3, <2>7, <2>8, MinutePaid
  <2> HIDE DEF r, next
  <2>10. earnings'[w] = next /\ \A v \in Workload \ {w} : earnings'[v] = earnings[v]
    BY <2>3, <2>6 DEF TypeOK
  <2>11. BooksInv'
    <3>1. Priced(w, lineItems'[w]) /\ Paid(lineItems'[w], earnings'[w])
      BY <2>1, <2>7, <2>9, <2>10
    <3>2. r.pc # "idle" => r.w = w /\ OnItsWay(r, lineItems'[w], earnings'[w])
      BY <2>1, <2>5, <2>9, <2>10
    <3>3. \A v \in Workload \ {w} : lineItems'[v] = lineItems[v] /\ earnings'[v] = earnings[v]
      BY <2>1, <2>10
    <3> QED
      BY <2>3, <2>4, <2>5, <3>1, <3>2, <3>3, OneBill
  <2> QED
    BY <1>a, <2>1, <2>11
<1>6. ASSUME Return(b) \/ Abort(b) PROVE BooksInv' /\ Grows
  <2>1. /\ biller' = [biller EXCEPT ![b] = Idle]
        /\ UNCHANGED <<lineItems, earnings>>
    BY <1>6 DEF Return, Abort
  <2>2. Idle.pc = "idle"
    BY DEF Idle
  <2>3. biller[b].pc # "idle"
    BY <1>6 DEF Return, Abort, Done, At, Busy, TypeOK, Bill
  <2>4. biller[b].w \in Workload
    BY <2>3, BillerType DEF Bill
  <2>5. \A x \in Biller \ {b} : biller[x].pc # "idle" => biller[x].w # biller[b].w
    BY <2>3, OthersElsewhere
  <2>6. BooksInv'
    BY <1>b, <2>1, <2>2, <2>4, <2>5, OneBill
  <2> QED
    BY <1>a, <2>1, <2>6
<1> QED
  BY <1>1, <1>2, <1>3, <1>4, <1>5, <1>6 DEF BillerStep

\* Steps of the others leave the books alone.
LEMMA OthersKeepBooks ==
    ASSUME TypeOK, BooksInv, UNCHANGED billVars
    PROVE  /\ BooksInv'
           /\ \A w \in Workload, m \in Minute : lineItems[w][m].seconds <= lineItems'[w][m].seconds
  BY DEF BooksInv, Alone, billVars, TypeOK, LineItem

LEMMA BooksInvariance ==
    ASSUME Exclusive
    PROVE  Spec => []BooksInv /\ BillNeverShrinks
<1> DEFINE Grows == \A w \in Workload, m \in Minute :
                        lineItems'[w][m].seconds >= lineItems[w][m].seconds
<1>1. Init => BooksInv
  BY RateAssumption DEF Init, BooksInv, Alone, Priced, Paid, Idle, NoItem, Cost
<1>2. TypeOK /\ TypeOK' /\ NeverOverbilled /\ BooksInv /\ [Next]_vars => BooksInv' /\ Grows
  <2> SUFFICES ASSUME TypeOK, TypeOK', NeverOverbilled, BooksInv, [Next]_vars
               PROVE  BooksInv' /\ Grows
    OBVIOUS
  <2>0. \A w \in Workload, m \in Minute :
            lineItems[w][m].seconds \in Nat /\ lineItems'[w][m].seconds \in Nat
    BY DEF TypeOK, LineItem
  <2>1. CASE UNCHANGED billVars
    BY <2>0, <2>1, OthersKeepBooks
  <2>2. CASE \E b \in Biller : BillerStep(b)
    BY <2>0, <2>2, BillerKeepsBooks
  <2> QED
    BY <2>1, <2>2 DEF Next, TimePasses, AssignWorkload, RequeueOnHost, CollectMetering,
       RecordTick, RestartDaemon, vars
<1>3. Spec => []BooksInv
  BY <1>1, <1>2, BillingTypes, UsageBoundsBills, PTL DEF Spec
<1>4. Spec => BillNeverShrinks
  <2>1. TypeOK /\ TypeOK' /\ NeverOverbilled /\ BooksInv /\ [Next]_vars => [Grows]_vars
    BY <1>2
  <2> QED
    BY <2>1, <1>3, BillingTypes, UsageBoundsBills, PTL DEF Spec, BillNeverShrinks
<1> QED
  BY <1>3, <1>4, PTL

\* When no workload is billed by two processes at a time, a minute is paid
\* once and no higher than it is charged, whatever aborted bills leave behind
\* (billingService.ts:62-108).
THEOREM NoDoublePayment ==
    ASSUME Exclusive
    PROVE  Spec => []PaidOnce
<1>1. TypeOK /\ BooksInv => PaidOnce
  BY DEF BooksInv, Paid, PaidOnce
<1> QED
  BY <1>1, BooksInvariance, BillingTypes, PTL

\* And a bill that returns leaves books that balance: it repairs what bills
\* before it left half-way (billingService.ts:33-108).
THEOREM BooksBalanced ==
    ASSUME Exclusive
    PROVE  Spec => []BooksBalance
<1>1. TypeOK /\ BooksInv => BooksBalance
  <2> SUFFICES ASSUME TypeOK, BooksInv, NEW b \in Biller, Busy(b), Done(b), NEW m \in Minute
               PROVE  LET w == biller[b].w
                          paid(n) == {i \in DOMAIN earnings[w] : earnings[w][i].minute = n}
                      IN  /\ lineItems[w][m].seconds = biller[b].values[m]
                          /\ m \in Used(biller[b].values) =>
                                \E i \in paid(m) : earnings[w][i].gross = lineItems[w][m].total
    BY DEF BooksBalance
  <2>1. biller[b].pc = "insert" /\ biller[b].todo = {}
    BY DEF Done, At
  <2>2. OnItsWay(biller[b], lineItems[biller[b].w], earnings[biller[b].w])
    BY <2>1 DEF BooksInv
  <2> QED
    BY <2>1, <2>2 DEF OnItsWay
<1> QED
  BY <1>1, BooksInvariance, BillingTypes, PTL

\* And no bill takes away what an earlier one charged (billingService.ts:33-91).
THEOREM NoBillShrinks ==
    ASSUME Exclusive
    PROVE  Spec => BillNeverShrinks
  BY BooksInvariance, PTL

--------------------------------------------------------------------------------
(* Whose revenue it is *)

\* Workloads that do not move run on, and are billed for, the one host their
\* row names.
StaysInv ==
    /\ moves = 0
    /\ \A h \in Host : \A w \in sweep[h] : hostId[w] = h
    /\ \A w \in Workload, h \in Host : ranOn[w][h] = IF hostId[w] = h THEN Seconds(w) ELSE 0
    /\ \A w \in Workload : hostId[w] = NoHost => Seconds(w) = 0
    /\ \A b \in Biller : biller[b].pc # "idle" => biller[b].host = hostId[biller[b].w]
    /\ \A w \in Workload : \A i \in DOMAIN earnings[w] : earnings[w][i].host = hostId[w]

LEMMA MinutesFinite == IsFiniteSet(Minute)
<1>1. IsFiniteSet(0..MaxTime)
  BY FS_Interval, TimeAssumption
<1>2. [t \in 0..MaxTime |-> MinuteBucket(t)] \in Surjection(0..MaxTime, Minute)
  BY DEF Surjection, Minute
<1> QED
  BY <1>1, <1>2, FS_Surjection

LEMMA SecondsType ==
    ASSUME TypeOK, NEW w \in Workload
    PROVE  Seconds(w) \in Nat
<1>1. \A m \in Minute : usage[w][m] \in Nat
  BY DEF TypeOK
<1> QED
  BY <1>1, MinutesFinite, SumType DEF Seconds

LEMMA StaysInit == Init => StaysInv
<1> SUFFICES ASSUME Init PROVE StaysInv
  OBVIOUS
<1>1. ASSUME NEW w \in Workload
      PROVE  Seconds(w) = 0
  <2>1. \A m \in Minute : usage[w][m] = 0
    BY DEF Init
  <2>2. SumFunctionOnSet(usage[w], Minute) = SumFunctionOnSet(usage[w], Minute) * 0
    BY <2>1, MinutesFinite, SumScaled
  <2>3. SumFunctionOnSet(usage[w], Minute) \in Nat
    BY <2>1, MinutesFinite, SumType
  <2> QED
    BY <2>2, <2>3 DEF Seconds
<1> QED
  BY <1>1 DEF Init, StaysInv, Idle

\* A tick is recorded on the host the workload stays on.
LEMMA TickStays ==
    ASSUME TypeOK, StaysInv, NEW h \in Host, RecordTick(h)
    PROVE  StaysInv'
<1>1. PICK w \in sweep[h] :
         /\ sweep' = [sweep EXCEPT ![h] = @ \ {w}]
         /\ \/ /\ usage' = [usage EXCEPT ![w][MinuteBucket(now)] = @ + MeteringInterval]
               /\ ranOn' = [ranOn EXCEPT ![w][h] = @ + MeteringInterval]
            \/ UNCHANGED <<usage, ranOn>>
         /\ UNCHANGED <<hostId, moves, billVars>>
  BY DEF RecordTick
<1>2. w \in Workload /\ hostId[w] = h /\ h # NoHost
  BY HostAssumption DEF TypeOK, StaysInv
<1>3. \A x \in Host : \A v \in sweep'[x] : hostId'[v] = x
  BY <1>1 DEF TypeOK, StaysInv
<1>4. CASE UNCHANGED <<usage, ranOn>>
  BY <1>1, <1>3, <1>4 DEF StaysInv, Seconds, billVars
<1>5. CASE /\ usage' = [usage EXCEPT ![w][MinuteBucket(now)] = @ + MeteringInterval]
           /\ ranOn' = [ranOn EXCEPT ![w][h] = @ + MeteringInterval]
  <2>1. MinuteBucket(now) \in Minute
    BY MinuteBucketType DEF TypeOK
  <2>2. \A v \in Workload \ {w} : usage'[v] = usage[v] /\ ranOn'[v] = ranOn[v]
    BY <1>5 DEF TypeOK
  <2>3. \A m \in Minute : usage[w][m] \in Nat
    BY <1>2 DEF TypeOK
  <2>4. \A m \in Minute : usage'[w][m] = IF m = MinuteBucket(now)
                                         THEN usage[w][m] + MeteringInterval ELSE usage[w][m]
    BY <1>2, <1>5, <2>1 DEF TypeOK
  <2>5. Seconds(w)' = Seconds(w) + MeteringInterval
    <3>1. PICK f, g, bucket : f = usage[w] /\ g = usage'[w] /\ bucket = MinuteBucket(now)
      OBVIOUS
    <3>2. /\ bucket \in Minute /\ MeteringInterval \in Nat
          /\ \A m \in Minute : f[m] \in Nat
          /\ \A m \in Minute : g[m] = IF m = bucket THEN f[m] + MeteringInterval ELSE f[m]
      BY <2>1, <2>3, <2>4, <3>1, TimeAssumption
    <3>3. SumFunctionOnSet(g, Minute) = SumFunctionOnSet(f, Minute) + MeteringInterval
      BY <3>2, MinutesFinite, SumRaised
    <3> QED
      BY <3>1, <3>3 DEF Seconds
  <2>6. /\ ranOn'[w][h] = ranOn[w][h] + MeteringInterval
        /\ \A x \in Host \ {h} : ranOn'[w][x] = ranOn[w][x]
    BY <1>2, <1>5 DEF TypeOK
  <2>7. \A x \in Host : ranOn'[w][x] = IF hostId[w] = x THEN Seconds(w)' ELSE 0
    BY <1>2, <2>5, <2>6 DEF StaysInv
  <2>8. \A v \in Workload \ {w} : Seconds(v)' = Seconds(v)
    BY <2>2 DEF Seconds
  <2> QED
    BY <1>1, <1>2, <1>3, <2>2, <2>7, <2>8 DEF StaysInv, billVars
<1> QED
  BY <1>1, <1>4, <1>5

\* A bill pays the host its workload stays on.
LEMMA BillStays ==
    ASSUME TypeOK, StaysInv, NEW b \in Biller, BillerStep(b)
    PROVE  StaysInv'
<1>a. meterVars' = meterVars
  BY DEF BillerStep, Materialize, ReadUsage, UpsertLineItem, DeleteEarnings,
     InsertEarning, Return, Abort
<1>b. ASSUME NEW r, biller' = [biller EXCEPT ![b] = r],
             r.pc # "idle" => r.host = hostId[r.w],
             \A w \in Workload : \A i \in DOMAIN earnings'[w] : earnings'[w][i].host = hostId[w]
      PROVE  StaysInv'
  <2>1. \A x \in Biller : biller'[x].pc # "idle" => biller'[x].host = hostId[biller'[x].w]
    BY <1>b DEF TypeOK, StaysInv
  <2> QED
    BY <1>a, <1>b, <2>1 DEF StaysInv, Seconds, meterVars
<1>c. ASSUME UNCHANGED earnings
      PROVE  \A w \in Workload : \A i \in DOMAIN earnings'[w] : earnings'[w][i].host = hostId[w]
  BY <1>c DEF StaysInv
<1>d. biller[b].pc # "idle" => biller[b] \in Bill /\ biller[b].host = hostId[biller[b].w]
  BY BillerType DEF StaysInv
<1>1. ASSUME NEW w \in Workload, Materialize(b, w) PROVE StaysInv'
  <2> DEFINE r == [pc |-> "usage", w |-> w, host |-> hostId[w], values |-> Nothing, todo |-> {}]
  <2>1. r.host = hostId[r.w] /\ biller' = [biller EXCEPT ![b] = r] /\ UNCHANGED earnings
    BY <1>1 DEF Materialize
  <2> HIDE DEF r
  <2> QED
    BY <1>b, <1>c, <2>1
<1>2. CASE ReadUsage(b)
  <2> DEFINE values == MinuteUsage(biller[b].w)
             r == [biller[b] EXCEPT !.pc = "upsert", !.values = values, !.todo = Used(values)]
  <2>1. biller' = [biller EXCEPT ![b] = r] /\ UNCHANGED earnings /\ biller[b].pc # "idle"
    BY <1>2 DEF ReadUsage, At
  <2> HIDE DEF values
  <2>2. r.host = hostId[r.w]
    BY <1>d, <2>1 DEF Bill
  <2> HIDE DEF r
  <2> QED
    BY <1>b, <1>c, <2>1, <2>2
<1>3. CASE UpsertLineItem(b)
  <2>1. /\ biller[b] \in Bill /\ biller[b].pc = "upsert" /\ UNCHANGED earnings
        /\ \E m : biller' = [biller EXCEPT ![b].todo = @ \ {m}]
    BY <1>3, UpsertType
  <2>2. PICK m : biller' = [biller EXCEPT ![b].todo = @ \ {m}]
    BY <2>1
  <2> DEFINE r == [biller[b] EXCEPT !.todo = @ \ {m}]
  <2>3. biller' = [biller EXCEPT ![b] = r] /\ r.host = hostId[r.w]
    BY <1>d, <2>1, <2>2 DEF Bill
  <2> HIDE DEF r
  <2> QED
    BY <1>b, <1>c, <2>1, <2>3
<1>4. CASE DeleteEarnings(b)
  <2> DEFINE r == [biller[b] EXCEPT !.pc = "insert", !.todo = Used(biller[b].values)]
  <2>1. /\ biller' = [biller EXCEPT ![b] = r] /\ biller[b].pc # "idle"
        /\ earnings' = [earnings EXCEPT ![biller[b].w] = <<>>]
    BY <1>4 DEF DeleteEarnings, At
  <2>2. r.host = hostId[r.w]
    BY <1>d, <2>1 DEF Bill
  <2>3. \A w \in Workload : earnings'[w] = <<>> \/ earnings'[w] = earnings[w]
    BY <2>1 DEF TypeOK
  <2>4. DOMAIN <<>> = {}
    OBVIOUS
  <2>5. \A w \in Workload : \A i \in DOMAIN earnings'[w] : earnings'[w][i].host = hostId[w]
    BY <2>3, <2>4 DEF StaysInv
  <2> HIDE DEF r
  <2> QED
    BY <1>b, <2>1, <2>2, <2>5
<1>5. CASE InsertEarning(b)
  <2>1. biller[b] \in Bill /\ biller[b].pc = "insert"
    BY <1>5, InsertType
  <2>0. PICK w : w = biller[b].w
    OBVIOUS
  <2>2. PICK m \in biller[b].todo, e \in Earning :
           /\ e.host = biller[b].host
           /\ earnings' = [earnings EXCEPT ![w] = Append(@, e)]
           /\ biller' = [biller EXCEPT ![b].todo = @ \ {m}]
    BY <1>5, <2>0, InsertType
  <2> DEFINE r == [biller[b] EXCEPT !.todo = @ \ {m}]
             next == Append(earnings[w], e)
  <2>3. biller' = [biller EXCEPT ![b] = r] /\ r.host = hostId[r.w]
    BY <1>d, <2>1, <2>2 DEF Bill
  <2>4. w \in Workload /\ earnings[w] \in Seq(Earning) /\ e.host = hostId[w]
    BY <1>d, <2>0, <2>1, <2>2 DEF Bill, TypeOK
  <2>5. earnings'[w] = next /\ \A v \in Workload \ {w} : earnings'[v] = earnings[v]
    BY <2>2, <2>4 DEF TypeOK
  <2>6. \A i \in DOMAIN next : next[i] = e \/ (i \in DOMAIN earnings[w] /\ next[i] = earnings[w][i])
    BY <2>4, AppendProperties
  <2> HIDE DEF r, next
  <2>7. \A v \in Workload : \A i \in DOMAIN earnings'[v] : earnings'[v][i].host = hostId[v]
    BY <2>4, <2>5, <2>6 DEF StaysInv
  <2> QED
    BY <1>b, <2>3, <2>7
<1>6. CASE Return(b) \/ Abort(b)
  <2>1. biller' = [biller EXCEPT ![b] = Idle] /\ UNCHANGED earnings
    BY <1>6 DEF Return, Abort
  <2>2. Idle.pc = "idle"
    BY DEF Idle
  <2> QED
    BY <1>b, <1>c, <2>1, <2>2
<1> QED
  BY <1>1, <1>2, <1>3, <1>4, <1>5, <1>6 DEF BillerStep

LEMMA StaysInvariance ==
    Spec => [](moves = 0 => StaysInv)
<1>1. TypeOK /\ (moves = 0 => StaysInv) /\ [Next]_vars => (moves = 0 => StaysInv)'
  <2> SUFFICES ASSUME TypeOK, moves = 0 => StaysInv, [Next]_vars, moves' = 0 PROVE StaysInv'
    OBVIOUS
  <2>3. ASSUME NEW w \in Workload PROVE ~RequeueOnHost(w)
    BY DEF RequeueOnHost, TypeOK
  <2>0. StaysInv
    <3>1. CASE moves' = moves
      BY <3>1
    <3>2. ASSUME NEW b \in Biller, BillerStep(b) PROVE moves' = moves
      BY <3>2 DEF BillerStep, Materialize, ReadUsage, UpsertLineItem, DeleteEarnings,
         InsertEarning, Return, Abort, meterVars
    <3> QED
      BY <2>3, <3>1, <3>2 DEF Next, TimePasses, AssignWorkload, CollectMetering,
         RecordTick, RestartDaemon, vars, meterVars
  <2>1. CASE UNCHANGED <<hostId, moves, sweep, usage, ranOn, billVars>>
    BY <2>0, <2>1 DEF StaysInv, Seconds, billVars
  <2>2. ASSUME NEW w \in Workload, AssignWorkload(w) PROVE StaysInv'
    <3>1. PICK h \in Host : hostId' = [hostId EXCEPT ![w] = h]
      BY <2>2 DEF AssignWorkload
    <3>2. /\ hostId[w] = NoHost
          /\ UNCHANGED <<moves, sweep, usage, ranOn, biller, earnings>>
      BY <2>2 DEF AssignWorkload, billVars
    <3>3. hostId'[w] = h /\ \A v \in Workload \ {w} : hostId'[v] = hostId[v]
      BY <3>1 DEF TypeOK
    <3>4. \A x \in Host : \A v \in sweep[x] : v # w /\ v \in Workload
      BY <2>0, <3>2, HostAssumption DEF TypeOK, StaysInv
    <3>5. Seconds(w) = 0 /\ \A x \in Host : ranOn[w][x] = 0
      BY <2>0, <3>2, HostAssumption DEF StaysInv
    <3>6. \A v \in Workload : Seconds(v)' = Seconds(v)
      BY <3>2 DEF Seconds
    <3>7. \A b \in Biller : biller[b].pc # "idle" => biller[b].w \in Workload /\ biller[b].w # w
      BY <2>0, <3>2, BillerType, HostAssumption DEF Bill, StaysInv
    <3>8. \A i \in DOMAIN earnings[w] : FALSE
      <4> SUFFICES ASSUME NEW i \in DOMAIN earnings[w] PROVE FALSE
        OBVIOUS
      <4>1. earnings[w][i] \in Earning
        BY ElementOfSeq DEF TypeOK
      <4> QED
        BY <2>0, <3>2, <4>1, HostAssumption DEF Earning, StaysInv
    <3> QED
      BY <2>0, <3>2, <3>3, <3>4, <3>5, <3>6, <3>7, <3>8, HostAssumption DEF StaysInv
  <2>4. ASSUME NEW h \in Host, CollectMetering(h) PROVE StaysInv'
    <3>1. \A x \in Host : \A w \in sweep'[x] : hostId[w] = x
      BY <2>0, <2>4 DEF CollectMetering, TypeOK, StaysInv
    <3> QED
      BY <2>0, <2>4, <3>1 DEF CollectMetering, StaysInv, Seconds, billVars
  <2>5. ASSUME NEW h \in Host, RestartDaemon(h) PROVE StaysInv'
    <3>1. \A x \in Host : \A w \in sweep'[x] : hostId[w] = x
      BY <2>0, <2>5 DEF RestartDaemon, TypeOK, StaysInv
    <3> QED
      BY <2>0, <2>5, <3>1 DEF RestartDaemon, StaysInv, Seconds, billVars
  <2> QED
    BY <2>0, <2>1, <2>2, <2>3, <2>4, <2>5, TickStays, BillStays DEF Next, TimePasses, vars, meterVars
<1> QED
  BY <1>1, StaysInit, BillingTypes, PTL DEF Spec

\* Payments that follow the line items do not exceed what the usage costs.
LEMMA EarningsCovered ==
    ASSUME TypeOK, NeverOverbilled, BooksInv, NEW w \in Workload,
           NEW S \in SUBSET DOMAIN earnings[w]
    PROVE  Gross(w, S) <= Cost(w, Seconds(w))
<1> DEFINE f == [i \in DOMAIN earnings[w] |-> earnings[w][i].gross]
           u == [m \in Minute |-> usage[w][m] * Rate[w]]
           at == [i \in DOMAIN earnings[w] |-> earnings[w][i].minute]
<1>1. IsFiniteSet(S)
  <2>1. earnings[w] \in Seq(Earning)
    BY DEF TypeOK
  <2>2. PICK n \in Nat : DOMAIN earnings[w] = 1..n
    BY <2>1
  <2>3. IsFiniteSet(1..n)
    BY FS_Interval
  <2> QED
    BY <2>2, <2>3, FS_Subset
<1>2. Rate[w] \in Nat /\ \A m \in Minute : usage[w][m] \in Nat
  BY RateAssumption DEF TypeOK
<1>3. ASSUME NEW i \in S
      PROVE  /\ f[i] \in Nat /\ at[i] \in Minute
             /\ f[i] <= u[at[i]]
             /\ \A j \in S : at[i] = at[j] => i = j
  <2>1. earnings[w][i] \in Earning
    BY <1>3, ElementOfSeq DEF TypeOK
  <2>2. PICK m : m = earnings[w][i].minute
    OBVIOUS
  <2>3. m \in Minute /\ f[i] = earnings[w][i].gross /\ f[i] \in Nat /\ at[i] = m
    BY <2>1, <2>2 DEF Earning
  <2>4. /\ f[i] <= lineItems[w][m].total
        /\ lineItems[w][m].total = Cost(w, lineItems[w][m].seconds)
        /\ \A j \in S : at[i] = at[j] => i = j
    BY <2>2, <2>3 DEF BooksInv, Paid, Priced
  <2>5. /\ lineItems[w][m].seconds \in Nat /\ usage[w][m] \in Nat
        /\ lineItems[w][m].seconds <= usage[w][m]
    BY <2>3 DEF TypeOK, LineItem, NeverOverbilled
  <2>6. Cost(w, lineItems[w][m].seconds) <= Cost(w, usage[w][m])
    BY <2>5, CostMonotonic
  <2>7. Cost(w, lineItems[w][m].seconds) \in Nat /\ Cost(w, usage[w][m]) \in Nat
    BY <2>5, CostType
  <2>8. u[m] = Cost(w, usage[w][m])
    BY <2>3 DEF Cost
  <2> HIDE DEF f, u, at
  <2> QED
    BY <2>3, <2>4, <2>6, <2>7, <2>8
<1>4. \A m \in Minute : u[m] \in Nat /\ u[m] = usage[w][m] * Rate[w]
  BY <1>2
<1> HIDE DEF f, u, at
<1>5. SumFunctionOnSet(f, S) <= SumFunctionOnSet(u, Minute)
  BY <1>1, <1>3, <1>4, MinutesFinite, SumCovered
<1>6. SumFunctionOnSet(u, Minute) = SumFunctionOnSet(usage[w], Minute) * Rate[w]
  BY <1>2, <1>4, MinutesFinite, SumScaled
<1> QED
  BY <1>5, <1>6 DEF f, Gross, Cost, Seconds

\* The payments for a workload never exceed what its usage costs, wherever it
\* moves; and until workloads move, a host is paid for the usage metered on
\* it, and for no other (billingService.ts:31-108, 140-159).
THEOREM PaymentsFollowUsage ==
    ASSUME Exclusive
    PROVE  Spec => []RevenueFollowsUsage
<1>1. TypeOK /\ NeverOverbilled /\ BooksInv
      => \A w \in Workload : Gross(w, DOMAIN earnings[w]) <= Cost(w, Seconds(w))
  BY EarningsCovered
<1>2. TypeOK /\ NeverOverbilled /\ BooksInv /\ StaysInv => HostReceivesItsRevenue
  <2> SUFFICES ASSUME TypeOK, NeverOverbilled, BooksInv, StaysInv,
                      NEW h \in Host, NEW w \in Workload
               PROVE  HostEarnings(h, w) <= Cost(w, ranOn[w][h])
    BY DEF HostReceivesItsRevenue
  <2> DEFINE S == {i \in DOMAIN earnings[w] : earnings[w][i].host = h}
  <2>1. CASE hostId[w] = h
    <3>1. Gross(w, S) <= Cost(w, Seconds(w))
      BY EarningsCovered
    <3>2. ranOn[w][h] = Seconds(w)
      BY <2>1 DEF StaysInv
    <3> QED
      BY <3>1, <3>2 DEF HostEarnings
  <2>2. CASE hostId[w] # h
    <3>1. S = {} /\ ranOn[w][h] = 0
      BY <2>2 DEF StaysInv
    <3>2. Gross(w, {}) = 0
      BY SumType, FS_EmptySet DEF Gross
    <3>3. Cost(w, 0) \in Nat
      BY CostType
    <3>4. HostEarnings(h, w) = Gross(w, S)
      BY DEF HostEarnings
    <3> HIDE DEF S
    <3> QED
      BY <3>1, <3>2, <3>3, <3>4
  <2> QED
    BY <2>1, <2>2
<1>3. TypeOK /\ NeverOverbilled /\ BooksInv /\ (moves = 0 => StaysInv) => RevenueFollowsUsage
  BY <1>1, <1>2 DEF RevenueFollowsUsage
<1> QED
  BY <1>3, BillingTypes, UsageBoundsBills, BooksInvariance, StaysInvariance, PTL

================================================================================
