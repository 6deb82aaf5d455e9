------------------------------- MODULE HiveState -------------------------------
(***************************************************************************)
(* The state every hive process shares, and the service operations on it.  *)
(*                                                                         *)
(* Each `hive ...` command, the API server and every host daemon opens the *)
(* same SQLite file (src/src/db/client.ts) and drives the same container   *)
(* engine.  The services keep nothing in memory and open no transaction,   *)
(* so a process sees the others' writes between any two of its statements. *)
(*                                                                         *)
(* Abstractions: cpu stands for cpu, memory and storage, which             *)
(* availableCapacity treats alike; the region, tier and pool filters of    *)
(* placeWorkload are the set Admits[w]; prices and scores only rank the    *)
(* eligible hosts, so any of them may be chosen.  Ids of assignments,      *)
(* checkpoints and runtimes are positions; 0 is the NULL of a column.      *)
(***************************************************************************)
EXTENDS Integers, Sequences, FiniteSets, FiniteSetsExt

CONSTANTS
    Workload,   \* ids of the rows a spawn may insert in `workloads`
    Host,       \* ids of the rows of `hosts`
    NoWorkload, \* not a workload
    NoHost,     \* the NULL of workloads.host_id
    Ghost,      \* a host id that has no row in `hosts`
    Cpu,        \* cpu requested by each workload
    Capacity,   \* floor(cpu_total * max_cpu_pct / 100) of each host
    Admits,     \* hosts that pass the region, tier and pool filters
    Capped,     \* workloads with a price cap, which every price may exceed
    BatchLimit, \* LIMIT of nextPendingForHost
    Second,     \* what nowUnix() may return, in whatever order
    Faults      \* kinds of failures the environment may inject

ASSUME WorkloadAssumption == NoWorkload \notin Workload
ASSUME HostAssumption == NoHost \notin Host /\ Ghost \notin Host /\ NoHost # Ghost
ASSUME CapacityAssumption == /\ Cpu \in [Workload -> Nat \ {0}]
                             /\ Capacity \in [Host -> Nat]
                             /\ Admits \in [Workload -> SUBSET Host]
                             /\ Capped \subseteq Workload
ASSUME BatchAssumption == BatchLimit \in Nat \ {0}
ASSUME SecondAssumption == Second \subseteq Nat /\ Second # {}
ASSUME FaultAssumption ==
    Faults \subseteq {"crash", "shutdown", "abort", "db", "launch", "stop", "inspect", "die"}

VARIABLES
    workloads,    \* table workloads, one row per workload id
    assignments,  \* table assignments, in the order of the autoincrement id
    checkpoints,  \* table checkpoints, in the order of insertion
    usageEvents,  \* table usage_events, with the runtime that was measured
    daemonStatus, \* column hosts.daemon_status
    containers    \* the container engine, in the order of creation

dbVars == <<workloads, assignments, checkpoints, usageEvents, daemonStatus>>
sharedVars == <<dbVars, containers>>

WorkloadStatus ==
    {"absent", "pending", "assigned", "running", "sleeping", "migrating", "failed"}
Action == {"start", "wake", "sleep", "restore"}
AssignmentStatus == {"pending", "processing", "completed", "failed"}

Row == [status : WorkloadStatus, hostId : Host \cup {NoHost},
        runtimeId : Nat, checkpointId : Nat]
Assignment == [workload : Workload, host : Host, action : Action,
               status : AssignmentStatus, assignedAt : Second]
Container == [workload : Workload, host : Host, state : {"running", "stopped"}]
Usage == [workload : Workload, host : Host, runtime : Nat]

SharedTypeOK ==
    /\ workloads \in [Workload -> Row]
    /\ assignments \in Seq(Assignment)
    /\ checkpoints \in Seq(Workload)
    /\ usageEvents \subseteq Usage
    /\ daemonStatus \in [Host -> {"running", "stopped"}]
    /\ containers \in Seq(Container)

SharedInit ==
    /\ workloads = [w \in Workload |-> [status |-> "absent", hostId |-> NoHost,
                                        runtimeId |-> 0, checkpointId |-> 0]]
    /\ assignments = <<>>
    /\ checkpoints = <<>>
    /\ usageEvents = {}
    /\ daemonStatus = [h \in Host |-> "stopped"]
    /\ containers = <<>>

--------------------------------------------------------------------------------
(* WorkloadService: one UPDATE each, none of them looks at the current row. *)

\* Mutant: a runtime id once written is kept.
MarkRunningOnce(w, rt) ==
    workloads' = [workloads EXCEPT ![w] =
        [@ EXCEPT !.status = "running",
                  !.runtimeId = IF workloads[w].runtimeId = 0 THEN rt ELSE workloads[w].runtimeId]]

MarkRunning(w, rt) ==
    workloads' = [workloads EXCEPT ![w] = [@ EXCEPT !.status = "running", !.runtimeId = rt]]

MarkSleeping(w) == workloads' = [workloads EXCEPT ![w].status = "sleeping"]

MarkFailed(w) == workloads' = [workloads EXCEPT ![w].status = "failed"]

MarkMigrating(w) == workloads' = [workloads EXCEPT ![w].status = "migrating"]

SetCheckpoint(w, c) == workloads' = [workloads EXCEPT ![w].checkpointId = c]

\* The UPDATE of requeueOnHost; its INSERT is a CreateAssignment.
RequeueOnHost(w, h, c) ==
    workloads' = [workloads EXCEPT ![w] = [status |-> "assigned", hostId |-> h,
                                           runtimeId |-> 0, checkpointId |-> c]]

--------------------------------------------------------------------------------
(* AssignmentService: the queue between the control plane and the daemons. *)

\* assigned_at was read before the INSERT, in seconds, while other processes
\* inserted theirs; and a clock may be set back.
CreateAssignment(w, h, action) ==
    \E t \in Second :
        assignments' = Append(assignments, [workload |-> w, host |-> h, action |-> action,
                                            status |-> "pending", assignedAt |-> t])

SetAssignment(i, status) ==
    assignments' = [assignments EXCEPT ![i].status = status]

\* Mutant: failed assignments are retried.
PendingOrFailed(h) ==
    {i \in DOMAIN assignments : /\ assignments[i].host = h
                                /\ assignments[i].status \in {"pending", "failed"}}

Pending(h) ==
    {i \in DOMAIN assignments : assignments[i].host = h /\ assignments[i].status = "pending"}

\* At most BatchLimit of them: all, if they are no more.
Batches(jobs) ==
    {batch \in SUBSET jobs : /\ Cardinality(batch) <= BatchLimit
                             /\ Cardinality(batch) < BatchLimit => batch = jobs}

\* Mutant: the newest assignments are taken first.
NewestPendingForHost(h) ==
    {batch \in Batches(Pending(h)) :
        \A i \in batch, j \in Pending(h) \ batch :
            assignments[i].assignedAt >= assignments[j].assignedAt}

\* What the SELECT may return: pending assignments of h with the least
\* assigned_at.  It leaves open which come first of those of one second.
NextPendingForHost(h) ==
    {batch \in Batches(Pending(h)) :
        \A i \in batch, j \in Pending(h) \ batch :
            assignments[i].assignedAt <= assignments[j].assignedAt}

--------------------------------------------------------------------------------
(* SchedulerService: what a placement reads. *)

\* Mutant: a workload takes up room only once it runs.
AllocatingOnceRunning == {"running", "migrating"}

Allocating == {"assigned", "running", "migrating"}

AllocatedTo(h) ==
    {w \in Workload : workloads[w].hostId = h /\ workloads[w].status \in Allocating}

Allocated(h) == SumFunctionOnSet(Cpu, AllocatedTo(h))

AvailableCapacity(h) ==
    IF Allocated(h) >= Capacity[h] THEN 0 ELSE Capacity[h] - Allocated(h)

Eligible(w, excluded) ==
    {h \in Admits[w] \ {excluded} :
        daemonStatus[h] = "running" /\ AvailableCapacity(h) >= Cpu[w]}

\* The hosts placeWorkload may return; NoHost stands for the error it throws
\* when no host is eligible, or all are dearer than the price cap.
PlaceWorkload(w, excluded) ==
    LET hosts == Eligible(w, excluded)
    IN  IF hosts = {} \/ w \in Capped THEN hosts \cup {NoHost} ELSE hosts

--------------------------------------------------------------------------------
(* The container engine behind RuntimeAdapter (external). *)

LaunchContainer(w, h) ==
    containers' = Append(containers, [workload |-> w, host |-> h, state |-> "running"])

StopContainer(rt) == containers' = [containers EXCEPT ![rt].state = "stopped"]

\* What `docker inspect` answers: a failed inspection reads as "missing".
StatusAnswers(rt) ==
    {containers[rt].state} \cup (IF "inspect" \in Faults THEN {"missing"} ELSE {})

\* A container exits or is killed behind the control plane's back.
ContainerDies ==
    /\ "die" \in Faults
    /\ \E rt \in DOMAIN containers : containers[rt].state = "running" /\ StopContainer(rt)
    /\ UNCHANGED dbVars

================================================================================
