------------------------------ MODULE HostDaemon -------------------------------
(***************************************************************************)
(* The host daemon (src/src/daemon/hostDaemon.ts): `hive host daemon`      *)
(* loops over runOnce, which executes the pending assignments of its host  *)
(* one after the other and then meters the workloads running there.        *)
(*                                                                         *)
(* A step is one write or one call of the container engine with the reads  *)
(* that precede the next one.  heartbeat, adjustUptime and adjustCompletion *)
(* write only the reputation columns of `hosts`, which this model leaves   *)
(* out: they rank hosts, and PlaceWorkload already allows every ranking.   *)
(***************************************************************************)
EXTENDS HiveState

CONSTANTS
    Daemon, \* daemon processes
    Serves  \* the --id each of them was started with

ASSUME ServesAssumption == Serves \in [Daemon -> Host]

VARIABLE daemon

DaemonState ==
    [pc : {"off", "idle", "next", "inspect", "launch", "running", "stop", "sleeping",
           "done", "fail", "failed", "sweep", "condemn"},
     batch : SUBSET Nat, job : Nat, w : Workload \cup {NoWorkload}, rt : Nat,
     sweep : SUBSET (Workload \X Nat)]

Off == [pc |-> "off", batch |-> {}, job |-> 0, w |-> NoWorkload, rt |-> 0, sweep |-> {}]

DaemonTypeOK == daemon \in [Daemon -> DaemonState]

DaemonInit == daemon = [d \in Daemon |-> Off]

At(d, pc) == daemon[d].pc = pc
Continue(d, pc) == daemon' = [daemon EXCEPT ![d].pc = pc]

\* The loop over the assignments goes on; what the handler knew is forgotten.
NextAssignment(d) ==
    daemon' = [daemon EXCEPT ![d] =
                  [@ EXCEPT !.pc = "next", !.job = 0, !.w = NoWorkload, !.rt = 0]]

\* A statement of the try block throws SQLITE_BUSY.
StatementThrows(d) == "db" \in Faults /\ Continue(d, "fail") /\ UNCHANGED sharedVars

--------------------------------------------------------------------------------
(* The process *)

StartDaemon(d) ==
    /\ At(d, "off")
    /\ daemonStatus' = [daemonStatus EXCEPT ![Serves[d]] = "running"]
    /\ Continue(d, "idle")
    /\ UNCHANGED <<workloads, assignments, checkpoints, usageEvents, containers>>

\* SIGINT and SIGTERM take effect between two loops.
StopDaemon(d) ==
    /\ "shutdown" \in Faults
    /\ At(d, "idle")
    /\ daemonStatus' = [daemonStatus EXCEPT ![Serves[d]] = "stopped"]
    /\ Continue(d, "off")
    /\ UNCHANGED <<workloads, assignments, checkpoints, usageEvents, containers>>

\* The process dies, or --once returns: daemon_status stays running.  A
\* statement outside the try block throws: runForever writes stopped on its
\* way out.  Either way an open assignment stays processing.
CrashDaemon(d) ==
    /\ "crash" \in Faults
    /\ ~At(d, "off")
    /\ daemon' = [daemon EXCEPT ![d] = Off]
    /\ \/ UNCHANGED daemonStatus
       \/ daemonStatus' = [daemonStatus EXCEPT ![Serves[d]] = "stopped"]
    /\ UNCHANGED <<workloads, assignments, checkpoints, usageEvents, containers>>

--------------------------------------------------------------------------------
(* runOnce: the loop over the assignments *)

RunOnce(d) ==
    /\ At(d, "idle")
    /\ \E batch \in NextPendingForHost(Serves[d]) :
          daemon' = [daemon EXCEPT ![d] = [@ EXCEPT !.pc = "next", !.batch = batch]]
    /\ UNCHANGED sharedVars

\* Where a handler goes from its read of the workload's row; "fail" is the
\* error it throws when the row names another host.
Dispatch(d, action, row) ==
    IF action = "sleep" THEN (IF row.runtimeId = 0 THEN "sleeping" ELSE "stop")
    ELSE IF row.hostId # Serves[d] THEN "fail"
    ELSE IF action = "wake" /\ row.runtimeId # 0 THEN "inspect"
    ELSE "launch"

\* markProcessing for the first of the batch in the order of assigned_at, then
\* the handler's read.
Claim(d) ==
    /\ At(d, "next")
    /\ \E i \in daemon[d].batch :
          LET w == assignments[i].workload IN
          /\ \A j \in daemon[d].batch : assignments[i].assignedAt <= assignments[j].assignedAt
          /\ SetAssignment(i, "processing")
          /\ daemon' = [daemon EXCEPT ![d] =
                 [@ EXCEPT !.pc = Dispatch(d, assignments[i].action, workloads[w]),
                           !.batch = daemon[d].batch \ {i},
                           !.job = i, !.w = w, !.rt = workloads[w].runtimeId]]
    /\ UNCHANGED <<workloads, checkpoints, usageEvents, daemonStatus, containers>>

\* handleWake asks for the status of the old runtime; a missing one sends it
\* to handleStart, which reads the row again.
InspectOld(d) ==
    /\ At(d, "inspect")
    /\ \E answer \in StatusAnswers(daemon[d].rt) :
          Continue(d, CASE answer = "running" -> "running"
                        [] answer = "stopped" -> "launch"
                        [] OTHER -> Dispatch(d, "start", workloads[daemon[d].w]))
    /\ UNCHANGED sharedVars

\* runtime.launch of handleStart, handleWake and handleRestore.
Launch(d) ==
    /\ At(d, "launch")
    /\ \/ /\ LaunchContainer(daemon[d].w, Serves[d])
          /\ daemon' = [daemon EXCEPT ![d] =
                           [@ EXCEPT !.pc = "running", !.rt = Len(containers) + 1]]
       \/ "launch" \in Faults /\ Continue(d, "fail") /\ UNCHANGED containers
    /\ UNCHANGED dbVars

Launched(d) ==
    /\ At(d, "running")
    /\ \/ /\ MarkRunning(daemon[d].w, daemon[d].rt)
          /\ Continue(d, "done")
          /\ UNCHANGED <<assignments, checkpoints, usageEvents, daemonStatus, containers>>
       \/ StatementThrows(d)

\* handleSleep stops the runtime its read found, whatever host it is on.
StopRuntime(d) ==
    /\ At(d, "stop")
    /\ \/ StopContainer(daemon[d].rt) /\ Continue(d, "sleeping")
       \/ "stop" \in Faults /\ Continue(d, "fail") /\ UNCHANGED containers
    /\ UNCHANGED dbVars

Stopped(d) ==
    /\ At(d, "sleeping")
    /\ \/ /\ MarkSleeping(daemon[d].w)
          /\ Continue(d, "done")
          /\ UNCHANGED <<assignments, checkpoints, usageEvents, daemonStatus, containers>>
       \/ StatementThrows(d)

\* markCompleted and, still inside the try block, adjustCompletion.
Complete(d) ==
    /\ At(d, "done")
    /\ UNCHANGED <<workloads, checkpoints, usageEvents, daemonStatus, containers>>
    /\ \/ SetAssignment(daemon[d].job, "completed") /\ NextAssignment(d)
       \/ "db" \in Faults /\ Continue(d, "fail")
          /\ (SetAssignment(daemon[d].job, "completed") \/ UNCHANGED assignments)

\* Mutants: the catch block forgets the assignment, or the workload.
ForgetAssignment(d) ==
    /\ At(d, "fail")
    /\ Continue(d, "failed")
    /\ UNCHANGED sharedVars

ForgetWorkload(d) ==
    /\ At(d, "failed")
    /\ NextAssignment(d)
    /\ UNCHANGED sharedVars

\* The catch block fails the assignment and then the workload.
FailAssignment(d) ==
    /\ At(d, "fail")
    /\ SetAssignment(daemon[d].job, "failed")
    /\ Continue(d, "failed")
    /\ UNCHANGED <<workloads, checkpoints, usageEvents, daemonStatus, containers>>

FailWorkload(d) ==
    /\ At(d, "failed")
    /\ MarkFailed(daemon[d].w)
    /\ NextAssignment(d)
    /\ UNCHANGED <<assignments, checkpoints, usageEvents, daemonStatus, containers>>

--------------------------------------------------------------------------------
(* collectMetering: one SELECT, then one runtime after the other *)

\* Mutant: every running workload is metered, whatever its host.
MeteredAnywhere(h) ==
    {<<w, workloads[w].runtimeId>> : w \in
        {v \in Workload : /\ workloads[v].status = "running"
                          /\ workloads[v].runtimeId # 0}}

Metered(h) ==
    {<<w, workloads[w].runtimeId>> : w \in
        {v \in Workload : /\ workloads[v].hostId = h
                          /\ workloads[v].status = "running"
                          /\ workloads[v].runtimeId # 0}}

CollectMetering(d) ==
    /\ At(d, "next")
    /\ daemon[d].batch = {}
    /\ daemon' = [daemon EXCEPT ![d] = [@ EXCEPT !.pc = "sweep", !.sweep = Metered(Serves[d])]]
    /\ UNCHANGED sharedVars

\* Mutant: a runtime that is not running is skipped.
MeterRunning(d) ==
    /\ At(d, "sweep")
    /\ \E row \in daemon[d].sweep : \E answer \in StatusAnswers(row[2]) :
          /\ daemon' = [daemon EXCEPT ![d].sweep = @ \ {row}]
          /\ usageEvents' = usageEvents \cup
                (IF answer = "running"
                 THEN {[workload |-> row[1], host |-> Serves[d], runtime |-> row[2]]} ELSE {})
    /\ UNCHANGED <<workloads, assignments, checkpoints, daemonStatus, containers>>

\* The next of the rows read above: a tick for a running container, else the
\* workload is condemned.
Meter(d) ==
    /\ At(d, "sweep")
    /\ \E row \in daemon[d].sweep :
          LET w == row[1]
              rt == row[2]
          IN \E answer \in StatusAnswers(rt) :
             /\ daemon' = [daemon EXCEPT ![d] =
                   [@ EXCEPT !.sweep = daemon[d].sweep \ {row},
                             !.pc = IF answer = "running" THEN "sweep" ELSE "condemn",
                             !.w = IF answer = "running" THEN NoWorkload ELSE w]]
             /\ IF answer = "running"
                THEN usageEvents' = usageEvents \cup
                        {[workload |-> w, host |-> Serves[d], runtime |-> rt]}
                ELSE UNCHANGED usageEvents
    /\ UNCHANGED <<workloads, assignments, checkpoints, daemonStatus, containers>>

Condemn(d) ==
    /\ At(d, "condemn")
    /\ MarkFailed(daemon[d].w)
    /\ daemon' = [daemon EXCEPT ![d] = [@ EXCEPT !.pc = "sweep", !.w = NoWorkload]]
    /\ UNCHANGED <<assignments, checkpoints, usageEvents, daemonStatus, containers>>

EndLoop(d) ==
    /\ At(d, "sweep")
    /\ daemon[d].sweep = {}
    /\ Continue(d, "idle")
    /\ UNCHANGED sharedVars

--------------------------------------------------------------------------------

\* What the daemon does by itself once it is started.
DaemonWorks(d) ==
    \/ RunOnce(d) \/ Claim(d) \/ InspectOld(d) \/ Launch(d) \/ Launched(d)
    \/ StopRuntime(d) \/ Stopped(d) \/ Complete(d) \/ FailAssignment(d) \/ FailWorkload(d)
    \/ CollectMetering(d) \/ Meter(d) \/ Condemn(d) \/ EndLoop(d)

DaemonStep(d) == StartDaemon(d) \/ StopDaemon(d) \/ CrashDaemon(d) \/ DaemonWorks(d)

================================================================================
