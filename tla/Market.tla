-------------------------------- MODULE Market ---------------------------------
(***************************************************************************)
(* Where workloads are placed and at what price: the scheduler and the     *)
(* market price read the tables that owners, daemons and customers write   *)
(* meanwhile.  Extends Registry by the rows of workloads, with the columns *)
(* that capacity and demand are summed over.                               *)
(*                                                                         *)
(* Abstractions: a placement reads everything in one step; scores of       *)
(* placements are integers, in units of 1/100000; a price is rounded down  *)
(* to a millionth after each of its two multipliers; what daemons and      *)
(* callers do to a placed workload is WorkloadMoves.                       *)
(***************************************************************************)
EXTENDS Registry, Functions

CONSTANTS
    Workload, \* ids of the rows a spawn may insert in `workloads`
    Request,  \* what each of them asks for
    Targets   \* what callers of migrate pass as destination, Null if nothing

Requests == [cpu : Nat \ {0}, memoryMb : Nat \ {0}, region : Region,
             tier : Tier \cup {Null}, pool : Pool \cup {Null}, priceCap : Nat \cup {Null}]

ASSUME RequestAssumption == IsFiniteSet(Host) /\ IsFiniteSet(Workload)
                            /\ Request \in [Workload -> Requests]
ASSUME TargetAssumption == Targets \subseteq Host \cup {Null}

RequestedCpu == [w \in Workload |-> Request[w].cpu]
RequestedMemoryMb == [w \in Workload |-> Request[w].memoryMb]

\* Columns status, host_id and assigned_rate; and, not in the table, whether
\* the caller of the last migration named the host.
VARIABLE workloads

vars == <<registryVars, workloads>>

WorkloadStatus ==
    {"absent", "pending", "assigned", "running", "sleeping", "migrating", "failed"}
Row == [status : WorkloadStatus, hostId : Host \cup {Null}, rate : Nat, named : BOOLEAN]
Absent == [status |-> "absent", hostId |-> Null, rate |-> 0, named |-> FALSE]

PlacementCall ==
    [pc : {"place"}, w : Workload]
    \cup [pc : {"assign"}, w : Workload, h : Host, rate : Nat]
    \cup [pc : {"mark", "requeue"}, w : Workload, h : Host, named : BOOLEAN]

Call == RegistryCall \cup PlacementCall \cup {Idle}

TypeOK ==
    /\ RegistryTypeOK
    /\ caller \in [Caller -> Call]
    /\ workloads \in [Workload -> Row]
    /\ \A w \in Workload : workloads[w].hostId \in registered \cup {Null}

--------------------------------------------------------------------------------
(* MarketPricingService *)

RunningHosts == {h \in registered : daemonStatus[h] = "running"}

Supplying(region, tier) ==
    {h \in RunningHosts : settings[h].region = region /\ settings[h].tier = tier}

Supply(region, tier) ==
    SumFunctionOnSet([h \in Host |-> settings[h].cpuTotal], Supplying(region, tier))

\* A pending row counts, whoever still waits for it.
Demanding(region, tier) ==
    {w \in Workload : /\ workloads[w].status \in {"pending", "assigned", "running"}
                      /\ Request[w].region = region
                      /\ Request[w].tier \in {Null, tier}}

Demand(region, tier) == SumFunctionOnSet(RequestedCpu, Demanding(region, tier))

BaseTierRate == [consumer |-> 20000, prosumer |-> 35000, datacenter |-> 50000]

Larger(a, b) == IF a >= b THEN a ELSE b
Smaller(a, b) == IF a <= b THEN a ELSE b

\* The multiplier 0.8 + 0.6 * demand / supply, between 0.7 and 1.8, in units of
\* a tenth of the supply.
\* Mutant: the multiplier has no ceiling.
PressureUnbounded(supply, demand) == Larger(7 * supply, 8 * supply + 6 * demand)

Pressure(supply, demand) == Clamp(8 * supply + 6 * demand, 7 * supply, 18 * supply)

\* The multiplier 1 + (score - 70) / 500, between 0.85 and 1.2, as its excess
\* over 1 in units of 1/50000.
Reliability(points) == Clamp(points - 7000, -7500, 10000)

PriceOf(floor, supply, demand, points) ==
    LET pressed == (floor * Pressure(supply, demand)) \div (10 * supply)
    IN pressed + (pressed * Reliability(points)) \div 50000

Floor(h) == Larger(BaseTierRate[settings[h].tier], settings[h].minPrice)

RegionSupply(h) == Larger(1, Supply(settings[h].region, settings[h].tier))
RegionDemand(h) == Demand(settings[h].region, settings[h].tier)

PriceForHost(h) == PriceOf(Floor(h), RegionSupply(h), RegionDemand(h), score[h])

--------------------------------------------------------------------------------
(* SchedulerService *)

AllocatedTo(h) ==
    {w \in Workload : /\ workloads[w].hostId = h
                      /\ workloads[w].status \in {"assigned", "running", "migrating"}}

AvailableCpu(h) ==
    Larger(0, (settings[h].cpuTotal * settings[h].maxCpuPct) \div 100
              - SumFunctionOnSet(RequestedCpu, AllocatedTo(h)))

\* The cap replaces the total; it may even exceed it.
AvailableMemoryMb(h) ==
    Larger(0, (IF settings[h].ramCapMb = Null THEN settings[h].memoryMbTotal
               ELSE settings[h].ramCapMb)
              - SumFunctionOnSet(RequestedMemoryMb, AllocatedTo(h)))

TierRank == [consumer |-> 1, prosumer |-> 2, datacenter |-> 3]

Admits(w, h) ==
    LET asked == Request[w] IN
    /\ settings[h].region = asked.region
    /\ asked.tier # Null => TierRank[settings[h].tier] >= TierRank[asked.tier]
    /\ asked.pool # Null => h \in HostIdsInPool(asked.pool)

Fits(w, h) ==
    AvailableCpu(h) >= Request[w].cpu /\ AvailableMemoryMb(h) >= Request[w].memoryMb

\* Mutant: the price cap is compared with the host's floor.
CheapEnough(w, h) == Request[w].priceCap # Null => Floor(h) <= Request[w].priceCap

Affordable(w, h) == Request[w].priceCap # Null => PriceForHost(h) <= Request[w].priceCap

Eligible(w, excluded) ==
    {h \in RunningHosts \ {excluded} : Admits(w, h) /\ Fits(w, h) /\ Affordable(w, h)}

\* How many times the request fits, in thousandths, at most four times.
ResourceFit(w, h) ==
    Clamp(Smaller((1000 * AvailableCpu(h)) \div Request[w].cpu,
                  (1000 * AvailableMemoryMb(h)) \div Request[w].memoryMb), 0, 4000)

\* 0.4 reliability + 0.3 fit / 4 + 0.2 / (1 + 40 rate) + 0.1 tier bonus.
\* Mutant: the price is weighed as it is, in thousandths.
RankByPrice(w, h) ==
    4 * score[h] + (15 * ResourceFit(w, h)) \div 2 - 20 * PriceForHost(h)

RankOf(w, h) ==
    4 * score[h]
    + (15 * ResourceFit(w, h)) \div 2
    + 2000000000 \div (100000 + 4 * PriceForHost(h))
    + (IF settings[h].tier = Request[w].tier THEN 10000 ELSE 7000)

\* The decisions a placement may come to: a best host, if any is eligible.
PlaceWorkload(w, excluded) ==
    LET eligible == Eligible(w, excluded)
    IN {h \in eligible : \A g \in eligible : RankOf(w, g) <= RankOf(w, h)}

--------------------------------------------------------------------------------
(* WorkloadService.spawn *)

\* The INSERT precedes the placement.
Spawn(c, w) ==
    /\ Begin(c, "spawn")
    /\ workloads[w].status = "absent"
    /\ workloads' = [workloads EXCEPT ![w].status = "pending"]
    /\ Goto(c, [pc |-> "place", w |-> w])
    /\ UNCHANGED <<hostVars, poolVars, daemon, outcomes>>

Place(c) ==
    LET w == caller[c].w IN
    /\ At(c, "place")
    /\ \E h \in PlaceWorkload(w, Null) :
          Goto(c, [pc |-> "assign", w |-> w, h |-> h, rate |-> PriceForHost(h)])
    /\ UNCHANGED <<hostVars, poolVars, daemon, calls, outcomes, workloads>>

\* No eligible host: the call throws, and the row stays pending for ever.
Refuse(c) ==
    /\ At(c, "place")
    /\ Eligible(caller[c].w, Null) = {}
    /\ Goto(c, Idle)
    /\ UNCHANGED <<hostVars, poolVars, daemon, calls, outcomes, workloads>>

AssignWorkload(c) ==
    LET call == caller[c] IN
    /\ At(c, "assign")
    /\ workloads' = [workloads EXCEPT ![call.w] =
                        [status |-> "assigned", hostId |-> call.h, rate |-> call.rate,
                         named |-> FALSE]]
    /\ Goto(c, Idle)
    /\ UNCHANGED <<hostVars, poolVars, daemon, calls, outcomes>>

--------------------------------------------------------------------------------
(* CheckpointService.migrateWorkload *)

\* A destination the caller names is taken as it is: the scheduler is not
\* asked, and nothing about that host is looked at.  Otherwise the scheduler
\* chooses another than the present one, on which the workload still counts;
\* if there is none, the call throws and the row stays as it was.
Migrate(c, w) ==
    /\ Begin(c, "migrate")
    /\ workloads[w].hostId # Null
    /\ \E to \in Targets :
       \E h \in IF to = Null THEN PlaceWorkload(w, workloads[w].hostId) ELSE {to} :
          Goto(c, [pc |-> "mark", w |-> w, h |-> h, named |-> to # Null])
    /\ UNCHANGED <<hostVars, poolVars, daemon, outcomes, workloads>>

MarkMigrating(c) ==
    LET call == caller[c] IN
    /\ At(c, "mark")
    /\ workloads' = [workloads EXCEPT ![call.w].status = "migrating"]
    /\ Goto(c, [call EXCEPT !.pc = "requeue"])
    /\ UNCHANGED <<hostVars, poolVars, daemon, calls, outcomes>>

\* requeueOnHost; assigned_rate stays what the first host asked.  The foreign
\* key rejects a host that is not registered: the row stays migrating.
RequeueOnHost(c) ==
    LET call == caller[c] IN
    /\ At(c, "requeue")
    /\ IF call.h \in registered
       THEN workloads' = [workloads EXCEPT ![call.w] =
               [@ EXCEPT !.status = "assigned", !.hostId = call.h, !.named = call.named]]
       ELSE UNCHANGED workloads
    /\ Goto(c, Idle)
    /\ UNCHANGED <<hostVars, poolVars, daemon, calls, outcomes>>

--------------------------------------------------------------------------------
(* What becomes of placed workloads: HiveVM models it in detail. *)

\* No write looks at the status it replaces.
WorkloadMoves(w) ==
    /\ workloads[w].hostId # Null
    /\ \E status \in {"assigned", "running", "sleeping", "failed"} :
          workloads' = [workloads EXCEPT ![w].status = status]
    /\ UNCHANGED registryVars

--------------------------------------------------------------------------------

Init == RegistryInit /\ workloads = [w \in Workload |-> Absent]

CallStep(c) ==
    \/ RegistryCallStep(c) /\ UNCHANGED workloads
    \/ \E w \in Workload : Spawn(c, w) \/ Migrate(c, w)
    \/ Place(c) \/ Refuse(c) \/ AssignWorkload(c)
    \/ MarkMigrating(c) \/ RequeueOnHost(c)

Next ==
    \/ \E c \in Caller : CallStep(c)
    \/ \E d \in Daemon : DaemonStep(d) /\ UNCHANGED workloads
    \/ \E w \in Workload : WorkloadMoves(w)

Spec == Init /\ [][Next]_vars

(***************************************************************************)
(* Fairness.  A daemon that is down is eventually started again, and a     *)
(* started one goes on with its loop, which waits for nothing but SQLite   *)
(* and the container engine.  Nothing is assumed of callers.               *)
(***************************************************************************)
Fairness ==
    \A d \in Daemon : /\ WF_vars(StartDaemon(d) /\ UNCHANGED workloads)
                      /\ WF_vars(DaemonWorks(d) /\ UNCHANGED workloads)

FairSpec == Spec /\ Fairness

--------------------------------------------------------------------------------
(* Safety *)

\* A workload is at a rate within its cap; and, unless the caller of its last
\* migration named the host, which no scheduler then judges, it is on a host of
\* the pool it asked for.  Owners register, edit and join pools while it is
\* placed, migrations of one workload overlap, and one may fail half-way and
\* leave the row to the next (schedulerService.ts:67-97,
\* checkpointService.ts:75-119, workloadService.ts:48-58).
PlacedAsRequested ==
    \A w \in Workload : workloads[w].hostId # Null =>
        /\ Request[w].pool # Null /\ ~workloads[w].named =>
              workloads[w].hostId \in HostIdsInPool(Request[w].pool)
        /\ Request[w].priceCap # Null => workloads[w].rate <= Request[w].priceCap

\* However many requests pile up or are refused, and whatever daemons and
\* owners do, no host asks more than 188% of its floor or less than 79%; and
\* it asks at least the floor once the demand is 36% of the supply
\* (marketPricingService.ts:14-43).
PriceRange ==
    \A h \in registered :
        /\ 100 * PriceForHost(h) <= 188 * Floor(h)
        /\ 100 * (PriceForHost(h) + 2) >= 79 * Floor(h)
        /\ 100 * RegionDemand(h) >= 36 * RegionSupply(h) => PriceForHost(h) + 2 >= Floor(h)

\* The metrics of a host move by one outcome at a time, each counted upon the
\* last: owners' edits write the same row from an old copy and registrations
\* insert it anew, and the daemon itself writes all metrics from the row it
\* read (hostService.ts:46-129, 169-183, reputationService.ts:51-83).
Ledger == INSTANCE ReputationLedger
OutcomesCountOnce == Ledger!Spec

\* Two hosts that offer the same and have the same room.
SameOffer(g, h) ==
    /\ settings[g] = settings[h]
    /\ AvailableCpu(g) = AvailableCpu(h) /\ AvailableMemoryMb(g) = AvailableMemoryMb(h)

\* Reliability pays: of eligible hosts with the same offer, one with a lower
\* score is never preferred, although the better one asks a higher price
\* (schedulerService.ts:94-121, marketPricingService.ts:17).
ReliabilityPays ==
    [][\A c \in Caller :
          At(c, "place") /\ caller'[c].pc = "assign" =>
             \A g \in Eligible(caller[c].w, Null) :
                SameOffer(g, caller'[c].h) => score[g] <= score[caller'[c].h]]_vars

--------------------------------------------------------------------------------
(* Liveness *)

Fresh == \A h \in registered : score[h] = ComputeScore(metrics[h])

\* Once no owner's edit is under way, every stored score is soon and for ever
\* that of the stored metrics, though refreshHostScore may write one computed
\* from metrics that the daemon has replaced (reputationService.ts:26-49).
ScoreHeals ==
    <>[](\A c \in Caller : caller[c].pc \notin {"update", "score"}) => <>[]Fresh

================================================================================
