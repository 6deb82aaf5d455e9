-------------------------------- MODULE HiveVM ---------------------------------
(***************************************************************************)
(* hive-vm as it runs on one machine: clients of the control plane, host   *)
(* daemons and the container engine around one database.                   *)
(***************************************************************************)
EXTENDS ControlPlane, HostDaemon

vars == <<sharedVars, client, calls, daemon>>

Init == SharedInit /\ ClientInit /\ DaemonInit

Next ==
    \/ \E c \in Client : ClientStep(c) /\ UNCHANGED daemon
    \/ HostCommand /\ UNCHANGED daemon
    \/ \E d \in Daemon : DaemonStep(d) /\ UNCHANGED clientVars
    \/ ContainerDies /\ UNCHANGED <<clientVars, daemon>>

Spec == Init /\ [][Next]_vars

(***************************************************************************)
(* Fairness.  A call that has begun goes on by itself, and so does a       *)
(* daemon once started: each waits for nothing but SQLite and the engine.  *)
(* A daemon that is down is eventually started again.  Nobody is obliged   *)
(* to begin a call, and no failure has to happen.                          *)
(***************************************************************************)
Fairness ==
    /\ \A c \in Client : WF_vars(ClientContinues(c) /\ UNCHANGED daemon)
    /\ \A d \in Daemon : WF_vars(StartDaemon(d) /\ UNCHANGED clientVars)
    /\ \A d \in Daemon : WF_vars(DaemonWorks(d) /\ UNCHANGED clientVars)

FairSpec == Spec /\ Fairness

--------------------------------------------------------------------------------
(* Type invariant *)

TypeOK == SharedTypeOK /\ ClientTypeOK /\ DaemonTypeOK

--------------------------------------------------------------------------------
(* Safety *)

\* A daemon has claimed an assignment of w and not yet written its outcome to
\* the row of w.
Working == {"inspect", "launch", "running", "stop", "sleeping", "fail", "failed"}
WorkedOn(w) == \E d \in Daemon : daemon[d].w = w /\ daemon[d].pc \in Working

\* Somebody still has to act on w: a client is about to enqueue its job, the
\* job is pending, or a daemon is executing it.
Attended(w) ==
    \/ \E c \in Client : client[c].pc = "enqueue" /\ client[c].w = w
    \/ \E i \in DOMAIN assignments :
          assignments[i].workload = w /\ assignments[i].status = "pending"
    \/ WorkedOn(w)

\* No workload stays `assigned` with nobody left to act on it: the UPDATE of
\* the row and the INSERT of its job are two statements, daemons overwrite the
\* row with no look at it, and the jobs of several calls may be open at once
\* (workloadService.ts:113-158, hostDaemon.ts:39-67).
NoStrandedWorkload == \A w \in Workload : workloads[w].status = "assigned" => Attended(w)

\* The assignments table is a queue: jobs are handed out once, and one posted
\* before another goes first when its assigned_at is earlier too, although
\* nextPendingForHost reads without claiming, a job posted meanwhile may be
\* stamped with an earlier second than those of the batch, and markProcessing,
\* markCompleted and markFailed update the row whatever its status
\* (assignmentService.ts:15-56).
Queue == INSTANCE AssignmentQueue WITH
    queue <- [i \in DOMAIN assignments |->
                 [host |-> assignments[i].host, status |-> assignments[i].status,
                  at |-> assignments[i].assignedAt]]
HandsOutOnceInOrder == Queue!Spec

\* The live containers of a workload.
Live(w) ==
    {rt \in DOMAIN containers : containers[rt].workload = w /\ containers[rt].state = "running"}

\* A workload never has two live containers, though handleStart and
\* handleRestore launch with no look at the old runtime (hostDaemon.ts:126-143).
SingleLiveRuntime == \A w \in Workload : Cardinality(Live(w)) <= 1

\* The control plane knows every live container: the row of its workload
\* names it, or the daemon that launched it is about to write it there.
LiveIsAccounted ==
    \A w \in Workload : \A rt \in Live(w) :
        \/ workloads[w].runtimeId = rt
        \/ \E d \in Daemon : At(d, "running") /\ daemon[d].w = w /\ daemon[d].rt = rt

\* What a host was told to run never exceeds what its owner allowed
\* (schedulerService.ts:36-56), although each placement reads the
\* allocation and writes its own two statements later.
NoOvercommit == \A h \in Host : Allocated(h) <= Capacity[h]

\* A tick is recorded for the host whose daemon launched the container.
MeteredByLauncher ==
    \A u \in usageEvents : containers[u.runtime].host = u.host

\* After a migration and a run of the destination's daemon the workload is
\* running there (tests/migration.test.ts:45-52): its newest assignment is a
\* completed restore and no call on it is in progress.
MigratedWorkloadRuns ==
    \A i \in DOMAIN assignments :
        LET w == assignments[i].workload IN
        /\ \A j \in DOMAIN assignments : assignments[j].workload = w => j <= i
        /\ assignments[i].action = "restore" /\ assignments[i].status = "completed"
        /\ \A c \in Client : client[c].w # w
        => workloads[w].status = "running" /\ workloads[w].hostId = assignments[i].host

\* Once a workload has a checkpoint, its row names one (spec/progress.md:30).
CheckpointContinuity ==
    [][\A w \in Workload :
          workloads[w].checkpointId # 0 => workloads'[w].checkpointId # 0]_vars

--------------------------------------------------------------------------------
(* Liveness *)

\* Posted assignments are eventually handed out and concluded.
EveryJobHandled == Queue!FairSpec

\* A migration of w is under way to a host that does not exist.
Misdirected(w) == \E c \in Client : client[c].w = w /\ client[c].to = Ghost

\* A workload does not stay assigned; and unless one of its migrations names an
\* unknown host, which leaves the row migrating until a later call when the
\* foreign key rejects it (checkpointService.ts:118-119), it does not stay
\* between two states at all, though its jobs fail and several calls on it are
\* under way (workloadService.ts:100-158, hostDaemon.ts:39-67).
EventuallySettles ==
    \A w \in Workload :
        /\ workloads[w].status = "assigned" ~> workloads[w].status # "assigned"
        /\ \/ <>Misdirected(w)
           \/ workloads[w].status \in {"assigned", "migrating"}
              ~> workloads[w].status \in {"running", "sleeping", "failed"}

\* A row that says running though its container is down does not stay so,
\* though no call looks at the container again: `docker checkpoint create`
\* stopped it, or a migration that was refused after it had stopped the source
\* (hostDaemon.ts:102-112, checkpointService.ts:90-100).
SaysRunning(w) == workloads[w].status = "running" /\ workloads[w].runtimeId \notin Live(w)
DeadRuntimeNoticed == \A w \in Workload : SaysRunning(w) ~> ~SaysRunning(w)

\* A workload that has a checkpoint does not stay assigned to a host whose
\* daemon went down (spec/spec.md:210).
HostLossRecovered ==
    \A w \in Workload :
        (/\ workloads[w].status = "assigned" /\ workloads[w].checkpointId # 0
         /\ \E d \in Daemon : Serves[d] = workloads[w].hostId /\ At(d, "off"))
        ~> workloads[w].status # "assigned"

================================================================================
