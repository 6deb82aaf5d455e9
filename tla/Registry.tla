------------------------------- MODULE Registry --------------------------------
(***************************************************************************)
(* The tables hosts, pools and pool_members, and who writes them: owners   *)
(* (`hive host init/set/start/stop`, `hive pool ...`, the API server) and  *)
(* the daemons, which adjust a host's metrics in every loop.               *)
(*                                                                         *)
(* A step is one write with the reads that follow it, up to the next       *)
(* write; a call that begins with a read has a step for it.  So an owner's *)
(* UPDATE writes columns read earlier, and so does a daemon's.             *)
(*                                                                         *)
(* Abstractions: memory stands for memory and storage, which the scheduler *)
(* treats alike; quiet_hours and power_mode are stored and never read;     *)
(* money is in millionths, metrics are described in Reputation.            *)
(***************************************************************************)
EXTENDS Reputation, FiniteSets

CONSTANTS
    Host,       \* ids of the rows of `hosts`
    Pool,       \* names of pools
    Region,     \* regions, the default among them
    Null,       \* the NULL of a column, an option that is not given
    Caller,     \* processes that may have a call in progress
    Uses,       \* the operations each of them uses
    Daemon,     \* daemon processes
    Serves,     \* the host of each daemon
    FirstHosts, \* hosts registered before the model begins, with the defaults
    FirstMetrics, \* what their metrics may be by then
    FirstMembers, \* pool memberships there are by then, <<pool, host>>
    Offers,     \* regions and tiers given to `host init`
    Edits,      \* options given to `host set`
    MaxCalls,   \* bound on the number of calls
    MaxOutcomes \* bound on the number of outcomes that count, and of crashes

Operation == {"init", "set", "pool", "host", "spawn", "migrate"}
Tier == {"consumer", "prosumer", "datacenter"}
Column == {"region", "tier", "cpu", "memory", "minPrice", "maxCpuPct", "ramCap"}

\* An amount of memory as typed: tenths of a unit.
UnitsInMb == [mb |-> 1, gb |-> 1024, tb |-> 1048576]
Amount == [tenths : Nat, unit : DOMAIN UnitsInMb]

\* Rounded down; an amount under one megabyte becomes 0 and is accepted.
ParseMemoryToMb(a) == (a.tenths * UnitsInMb[a.unit]) \div 10

Settings == [region : Region, tier : Tier, cpuTotal : Nat, memoryMbTotal : Nat,
             minPrice : Nat, maxCpuPct : Nat, ramCapMb : Nat \cup {Null}]

ASSUME NullAssumption == Null \notin Nat /\ Null \notin Pool /\ Null \notin Tier /\ Null \notin Host
ASSUME FirstAssumption ==
    /\ FirstHosts \subseteq Host
    /\ FirstMetrics \subseteq Metrics /\ FirstMetrics # {}
    /\ FirstMembers \subseteq Pool \X FirstHosts
    /\ "us-east" \in Region
ASSUME ProcessAssumption == Serves \in [Daemon -> Host] /\ Uses \in [Caller -> SUBSET Operation]
ASSUME OfferAssumption == Offers \subseteq [region : Region, tier : Tier]
ASSUME EditAssumption ==
    \A e \in Edits :
        /\ DOMAIN e \subseteq Column
        /\ "region" \in DOMAIN e => e["region"] \in Region
        /\ "tier" \in DOMAIN e => e["tier"] \in Tier
        /\ "cpu" \in DOMAIN e => e["cpu"] \in Nat
        /\ "memory" \in DOMAIN e => e["memory"] \in Amount
        /\ "minPrice" \in DOMAIN e => e["minPrice"] \in Nat
        /\ "maxCpuPct" \in DOMAIN e => e["maxCpuPct"] \in Nat
        /\ "ramCap" \in DOMAIN e => e["ramCap"] \in Amount
ASSUME BoundAssumption == MaxCalls \in Nat /\ MaxOutcomes \in Nat

VARIABLES
    registered,   \* hosts that have a row
    settings,     \* what the owner sets: the columns placement and price read
    metrics,      \* columns uptime_7d and completion_rate
    score,        \* column score
    daemonStatus, \* column daemon_status
    pools,        \* table pools
    members,      \* table pool_members
    caller,       \* where each process is in its call
    daemon,       \* where each daemon is in its loop
    calls, outcomes \* how many there were

hostVars == <<registered, settings, metrics, score, daemonStatus>>
poolVars == <<pools, members>>
registryVars == <<hostVars, poolVars, caller, daemon, calls, outcomes>>

Idle == [pc |-> "idle"]
RegistryCall ==
    [pc : {"insert"}, h : Host, offer : [region : Region, tier : Tier]]
    \cup [pc : {"update"}, h : Host, row : Settings, pool : Pool \cup {Null}]
    \cup [pc : {"score"}, h : Host, score : Scores, pool : Pool \cup {Null}]
    \cup [pc : {"join"}, h : Host, pool : Pool]

At(c, pc) == caller[c].pc = pc
Goto(c, state) == caller' = [caller EXCEPT ![c] = state]

DaemonState == [pc : {"off", "loop", "work"}] \cup [pc : {"write"}, metrics : Metrics]

RegistryTypeOK ==
    /\ registered \subseteq Host
    /\ settings \in [Host -> Settings]
    /\ metrics \in [Host -> Metrics]
    /\ score \in [Host -> Scores]
    /\ daemonStatus \in [Host -> {"running", "stopped"}]
    /\ pools \subseteq Pool
    /\ members \subseteq pools \X registered
    /\ daemon \in [Daemon -> DaemonState]
    /\ calls \in Nat /\ outcomes \in Nat

DefaultHost(offer) ==
    [region |-> offer.region, tier |-> offer.tier, cpuTotal |-> 4, memoryMbTotal |-> 8192,
     minPrice |-> 18000, maxCpuPct |-> 80, ramCapMb |-> Null]

RegistryInit ==
    /\ registered = FirstHosts
    /\ settings = [h \in Host |-> DefaultHost([region |-> "us-east", tier |-> "consumer"])]
    /\ \E m \in FirstMetrics :
          metrics = [h \in Host |-> IF h \in FirstHosts THEN m ELSE NewMetrics]
    /\ score = [h \in Host |-> ComputeScore(metrics[h])]
    /\ daemonStatus = [h \in Host |-> "stopped"]
    /\ pools = {m[1] : m \in FirstMembers} /\ members = FirstMembers
    /\ caller = [c \in Caller |-> Idle]
    /\ daemon = [d \in Daemon |-> [pc |-> "off"]]
    /\ calls = 0 /\ outcomes = 0

Begin(c, op) ==
    /\ op \in Uses[c]
    /\ caller[c] = Idle
    /\ calls < MaxCalls
    /\ calls' = calls + 1

--------------------------------------------------------------------------------
(* HostService.initHost *)

\* The SELECT: a host that has a row is returned as it is.
InitHost(c, h, offer) ==
    /\ Begin(c, "init")
    /\ h \notin registered
    /\ Goto(c, [pc |-> "insert", h |-> h, offer |-> offer])
    /\ UNCHANGED <<hostVars, poolVars, daemon, outcomes>>

\* The INSERT, of a host that has no row yet.
InsertHost(c) ==
    LET call == caller[c] IN
    /\ At(c, "insert")
    /\ call.h \notin registered
    /\ registered' = registered \cup {call.h}
    /\ settings' = [settings EXCEPT ![call.h] = DefaultHost(call.offer)]
    /\ metrics' = [metrics EXCEPT ![call.h] = NewMetrics]
    /\ score' = [score EXCEPT ![call.h] = ComputeScore(NewMetrics)]
    /\ daemonStatus' = [daemonStatus EXCEPT ![call.h] = "stopped"]
    /\ Goto(c, Idle)
    /\ UNCHANGED <<poolVars, daemon, calls, outcomes>>

\* Another process has inserted it in between: the primary key makes it throw.
InsertHostThrows(c) ==
    /\ At(c, "insert")
    /\ caller[c].h \in registered
    /\ Goto(c, Idle)
    /\ UNCHANGED <<hostVars, poolVars, daemon, calls, outcomes>>

--------------------------------------------------------------------------------
(* HostService.setHost, and `host set --pool` *)

\* The row with the columns an edit names: input.x ?? host.x.
Edited(row, e) ==
    LET Given(k, old) == IF k \in DOMAIN e THEN e[k] ELSE old
        Parsed(k, old) == IF k \in DOMAIN e THEN ParseMemoryToMb(e[k]) ELSE old
    IN [region |-> Given("region", row.region),
        tier |-> Given("tier", row.tier),
        cpuTotal |-> Given("cpu", row.cpuTotal),
        memoryMbTotal |-> Parsed("memory", row.memoryMbTotal),
        minPrice |-> Given("minPrice", row.minPrice),
        maxCpuPct |-> Given("maxCpuPct", row.maxCpuPct),
        ramCapMb |-> Parsed("ramCap", row.ramCapMb)]

\* The SELECT; a host without a row throws.
SetHost(c, h, e, p) ==
    /\ Begin(c, "set")
    /\ h \in registered
    /\ Goto(c, [pc |-> "update", h |-> h, row |-> Edited(settings[h], e), pool |-> p])
    /\ UNCHANGED <<hostVars, poolVars, daemon, outcomes>>

\* Mutant: the row is inserted anew, with the defaults in all other columns.
ReplaceHost(c) ==
    LET call == caller[c] IN
    /\ At(c, "update")
    /\ settings' = [settings EXCEPT ![call.h] = call.row]
    /\ metrics' = [metrics EXCEPT ![call.h] = NewMetrics]
    /\ Goto(c, [pc |-> "score", h |-> call.h, pool |-> call.pool,
                score |-> ComputeScore(NewMetrics)])
    /\ UNCHANGED <<registered, score, daemonStatus, poolVars, daemon, calls, outcomes>>

\* The UPDATE of all columns, then the SELECT of refreshHostScore.
UpdateHost(c) ==
    LET call == caller[c] IN
    /\ At(c, "update")
    /\ settings' = [settings EXCEPT ![call.h] = call.row]
    /\ Goto(c, [pc |-> "score", h |-> call.h, pool |-> call.pool,
                score |-> ComputeScore(metrics[call.h])])
    /\ UNCHANGED <<registered, metrics, score, daemonStatus, poolVars, daemon,
                   calls, outcomes>>

\* The UPDATE of refreshHostScore, with the score of the metrics it read.
RefreshHostScore(c) ==
    LET call == caller[c] IN
    /\ At(c, "score")
    /\ score' = [score EXCEPT ![call.h] = call.score]
    /\ Goto(c, IF call.pool = Null THEN Idle
               ELSE [pc |-> "join", h |-> call.h, pool |-> call.pool])
    /\ UNCHANGED <<registered, settings, metrics, daemonStatus, poolVars, daemon,
                   calls, outcomes>>

--------------------------------------------------------------------------------
(* PoolService; neither pools nor hosts are ever deleted. *)

\* createPool returns a pool of that name if there is one.
CreatePool(c, p) ==
    /\ Begin(c, "pool")
    /\ pools' = pools \cup {p}
    /\ UNCHANGED <<hostVars, members, caller, daemon, outcomes>>

\* Mutant: foreign keys are not enforced.
AddAnyToPool(h, p) == members' = IF p \in pools THEN members \cup {<<p, h>>} ELSE members

\* addHostToPool throws if there is no such pool or host.
AddHostToPool(h, p) ==
    members' = IF p \in pools /\ h \in registered THEN members \cup {<<p, h>>} ELSE members

AddHost(c, h, p) ==
    /\ Begin(c, "pool")
    /\ AddHostToPool(h, p)
    /\ UNCHANGED <<hostVars, pools, caller, daemon, outcomes>>

\* The second statement of `host set --pool`.
JoinPool(c) ==
    /\ At(c, "join")
    /\ AddHostToPool(caller[c].h, caller[c].pool)
    /\ Goto(c, Idle)
    /\ UNCHANGED <<hostVars, pools, daemon, calls, outcomes>>

HostIdsInPool(p) == {h \in Host : <<p, h>> \in members}

--------------------------------------------------------------------------------
(* The daemons, and `host start/stop` *)

SetDaemonStatus(h, status) ==
    daemonStatus' = IF h \in registered THEN [daemonStatus EXCEPT ![h] = status]
                    ELSE daemonStatus

HostCommand(c) ==
    /\ Begin(c, "host")
    /\ \E h \in Host, status \in {"running", "stopped"} : SetDaemonStatus(h, status)
    /\ UNCHANGED <<registered, settings, metrics, score, poolVars, caller, daemon,
                   outcomes>>

Is(d, pc) == daemon[d].pc = pc
Turn(d, state) == daemon' = [daemon EXCEPT ![d] = state]

StartDaemon(d) ==
    /\ Is(d, "off")
    /\ SetDaemonStatus(Serves[d], "running")
    /\ Turn(d, [pc |-> "loop"])
    /\ UNCHANGED <<registered, settings, metrics, score, poolVars, caller, calls,
                   outcomes>>

\* The loop begins with adjustUptime, which reads the row; without one it throws.
AdjustUptime(d) ==
    LET h == Serves[d] IN
    /\ Is(d, "loop")
    /\ Turn(d, IF h \in registered THEN [pc |-> "write", metrics |-> Healthy(metrics[h])]
               ELSE [pc |-> "off"])
    /\ UNCHANGED <<hostVars, poolVars, caller, calls, outcomes>>

\* An assignment is concluded or a sweep finds a runtime down: adjustCompletion
\* reads the row.
AdjustCompletion(d, success) ==
    /\ Is(d, "work")
    /\ outcomes < MaxOutcomes
    /\ outcomes' = outcomes + 1
    /\ Turn(d, [pc |-> "write", metrics |-> Concluded(metrics[Serves[d]], success)])
    /\ UNCHANGED <<hostVars, poolVars, caller, calls>>

\* Mutant: an update that moves no metric is skipped.
UpdateMetricsIfMoved(d) ==
    LET h == Serves[d] IN
    /\ Is(d, "write")
    /\ metrics' = [metrics EXCEPT ![h] = daemon[d].metrics]
    /\ score' = IF metrics' = metrics THEN score
                ELSE [score EXCEPT ![h] = ComputeScore(daemon[d].metrics)]
    /\ Turn(d, [pc |-> "work"])
    /\ UNCHANGED <<registered, settings, daemonStatus, poolVars, caller, calls,
                   outcomes>>

\* The UPDATE of updateMetrics: the metrics computed from the row read before,
\* and their score.
UpdateMetrics(d) ==
    LET h == Serves[d] IN
    /\ Is(d, "write")
    /\ metrics' = [metrics EXCEPT ![h] = daemon[d].metrics]
    /\ score' = [score EXCEPT ![h] = ComputeScore(daemon[d].metrics)]
    /\ Turn(d, [pc |-> "work"])
    /\ UNCHANGED <<registered, settings, daemonStatus, poolVars, caller, calls,
                   outcomes>>

EndLoop(d) ==
    /\ Is(d, "work")
    /\ Turn(d, [pc |-> "loop"])
    /\ UNCHANGED <<hostVars, poolVars, caller, calls, outcomes>>

\* SIGTERM: the loop ends, and the status is written last.
StopDaemon(d) ==
    /\ Is(d, "work")
    /\ Turn(d, [pc |-> "off"])
    /\ SetDaemonStatus(Serves[d], "stopped")
    /\ UNCHANGED <<registered, settings, metrics, score, poolVars, caller, calls,
                   outcomes>>

\* The process dies, or a statement throws; only the latter leaves the status
\* `stopped`.
CrashDaemon(d) ==
    /\ ~Is(d, "off")
    /\ outcomes < MaxOutcomes
    /\ outcomes' = outcomes + 1
    /\ Turn(d, [pc |-> "off"])
    /\ SetDaemonStatus(Serves[d], "stopped") \/ UNCHANGED daemonStatus
    /\ UNCHANGED <<registered, settings, metrics, score, poolVars, caller, calls>>

DaemonWorks(d) ==
    \/ AdjustUptime(d) \/ UpdateMetrics(d) \/ EndLoop(d) \/ StopDaemon(d)
    \/ \E success \in BOOLEAN : AdjustCompletion(d, success)

DaemonStep(d) == StartDaemon(d) \/ DaemonWorks(d) \/ CrashDaemon(d)

RegistryCallStep(c) ==
    \/ \E h \in Host, offer \in Offers : InitHost(c, h, offer)
    \/ \E h \in Host, e \in Edits, p \in Pool \cup {Null} : SetHost(c, h, e, p)
    \/ \E p \in Pool : CreatePool(c, p)
    \/ \E h \in Host, p \in Pool : AddHost(c, h, p)
    \/ HostCommand(c)
    \/ InsertHost(c) \/ InsertHostThrows(c)
    \/ UpdateHost(c) \/ RefreshHostScore(c) \/ JoinPool(c)

================================================================================
