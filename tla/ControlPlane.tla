----------------------------- MODULE ControlPlane ------------------------------
(***************************************************************************)
(* The callers of the control plane: each `hive spawn/sleep/wake/          *)
(* checkpoint/migrate` command is a process of its own, and so is the API  *)
(* server.  A step is one write to the workloads table or one call of the  *)
(* container engine, with the reads that precede the next such step.       *)
(***************************************************************************)
EXTENDS HiveState

CONSTANTS
    Client,   \* processes that may have a call in progress
    Calls,    \* operations the clients use
    Targets,  \* what callers of migrate pass as destination, NoHost if nothing
    MaxCalls, \* bound on the number of calls
    Patient   \* clients wait until earlier calls on a workload are settled

ASSUME ClientAssumption ==
    /\ Calls \subseteq {"spawn", "sleep", "wake", "checkpoint", "migrate", "host"}
    /\ Targets \subseteq Host \cup {NoHost, Ghost}
    /\ MaxCalls \in Nat
    /\ Patient \in BOOLEAN

VARIABLES client, calls

clientVars == <<client, calls>>

ClientState ==
    [pc : {"idle", "assign", "mark", "enqueue", "snapshot", "save", "stop",
           "place", "migrating", "requeue"},
     op : {"none", "start", "wake", "sleep", "checkpoint", "migrate", "restore"},
     w : Workload \cup {NoWorkload}, src : Host \cup {NoHost},
     to : Host \cup {NoHost, Ghost}, rt : Nat, ckpt : Nat]

Returned == [pc |-> "idle", op |-> "none", w |-> NoWorkload, src |-> NoHost,
             to |-> NoHost, rt |-> 0, ckpt |-> 0]

ClientTypeOK == client \in [Client -> ClientState] /\ calls \in Nat

ClientInit == client = [c \in Client |-> Returned] /\ calls = 0

\* The call of client c goes on at `pc`, or returns.
Goto(c, pc) == client' = [client EXCEPT ![c].pc = pc]
Return(c) == client' = [client EXCEPT ![c] = Returned]

Outstanding(w) ==
    \E i \in DOMAIN assignments :
        assignments[i].workload = w /\ assignments[i].status \in {"pending", "processing"}

\* The last call on w has returned, and the row of w shows its result.
Settled(w) ==
    /\ \A c \in Client : client[c].w # w
    /\ workloads[w].status \notin {"assigned", "migrating"} /\ ~Outstanding(w)

\* Client c begins a call of operation op on workload w.
Begin(c, op, w, state) ==
    /\ op \in Calls
    /\ calls < MaxCalls
    /\ client[c].pc = "idle"
    /\ Patient => Settled(w)
    /\ calls' = calls + 1
    /\ client' = [client EXCEPT ![c] = state]

--------------------------------------------------------------------------------
(* WorkloadService.spawn *)

\* The row is inserted before the scheduler is asked; if that throws, the row
\* stays behind as pending.
Spawn(c, w) ==
    /\ workloads[w].status = "absent"
    /\ workloads' = [workloads EXCEPT ![w].status = "pending"]
    /\ \E h \in PlaceWorkload(w, NoHost) :
          Begin(c, "spawn", w, IF h = NoHost THEN Returned
                               ELSE [Returned EXCEPT !.pc = "assign", !.op = "start",
                                                     !.w = w, !.to = h])
    /\ UNCHANGED <<assignments, checkpoints, usageEvents, daemonStatus, containers>>

AssignWorkload(c) ==
    /\ client[c].pc = "assign"
    /\ workloads' = [workloads EXCEPT ![client[c].w] =
                        [@ EXCEPT !.status = "assigned", !.hostId = client[c].to]]
    /\ Goto(c, "enqueue")
    /\ UNCHANGED <<calls, assignments, checkpoints, usageEvents, daemonStatus, containers>>

\* The INSERT that ends spawn, sleep, wake and migrate.
Enqueue(c) ==
    /\ client[c].pc = "enqueue"
    /\ CreateAssignment(client[c].w, client[c].to, client[c].op)
    /\ Return(c)
    /\ UNCHANGED <<calls, workloads, checkpoints, usageEvents, daemonStatus, containers>>

--------------------------------------------------------------------------------
(* WorkloadService.sleep and wake *)

Sleep(c, w) ==
    /\ workloads[w].hostId # NoHost
    /\ workloads[w].status = "running"
    /\ Begin(c, "sleep", w, [Returned EXCEPT !.pc = "mark", !.op = "sleep", !.w = w,
                                             !.to = workloads[w].hostId])
    /\ UNCHANGED sharedVars

Wake(c, w) ==
    /\ workloads[w].hostId # NoHost
    /\ Begin(c, "wake", w, [Returned EXCEPT !.pc = "mark", !.op = "wake", !.w = w,
                                            !.to = workloads[w].hostId])
    /\ UNCHANGED sharedVars

\* The UPDATE of sleep and wake: the host of the enqueued job was read before.
MarkAssigned(c) ==
    /\ client[c].pc = "mark"
    /\ workloads' = [workloads EXCEPT ![client[c].w].status = "assigned"]
    /\ Goto(c, "enqueue")
    /\ UNCHANGED <<calls, assignments, checkpoints, usageEvents, daemonStatus, containers>>

--------------------------------------------------------------------------------
(* CheckpointService.createCheckpoint, also the first phase of migrateWorkload *)

Checkpoint(c, w) ==
    /\ workloads[w].hostId # NoHost
    /\ workloads[w].runtimeId # 0
    /\ Begin(c, "checkpoint", w, [Returned EXCEPT !.pc = "snapshot", !.op = "checkpoint",
                                                  !.w = w, !.rt = workloads[w].runtimeId])
    /\ UNCHANGED sharedVars

\* `docker checkpoint create` leaves the container stopped; when it fails the
\* adapter still answers, with supported = false.
Snapshot(c) ==
    /\ client[c].pc = "snapshot"
    /\ Goto(c, "save")
    /\ StopContainer(client[c].rt) \/ UNCHANGED containers
    /\ UNCHANGED <<calls, dbVars>>

SaveCheckpoint(c) ==
    /\ client[c].pc = "save"
    /\ checkpoints' = Append(checkpoints, client[c].w)
    /\ SetCheckpoint(client[c].w, Len(checkpoints) + 1)
    /\ IF client[c].op = "migrate"
       THEN client' = [client EXCEPT ![c] =
                          [@ EXCEPT !.pc = "stop", !.ckpt = Len(checkpoints) + 1]]
       ELSE Return(c)
    /\ UNCHANGED <<calls, assignments, usageEvents, daemonStatus, containers>>

\* createCheckpoint throws at the INSERT, at the UPDATE of the workload's row,
\* or when it reads back what it wrote; migrateWorkload then goes on without a
\* checkpoint.
SaveCheckpointFails(c) ==
    /\ "db" \in Faults
    /\ client[c].pc = "save"
    /\ \/ UNCHANGED <<checkpoints, workloads>>
       \/ /\ checkpoints' = Append(checkpoints, client[c].w)
          /\ \/ UNCHANGED workloads
             \/ SetCheckpoint(client[c].w, Len(checkpoints) + 1)
    /\ IF client[c].op = "migrate" THEN Goto(c, "stop") ELSE Return(c)
    /\ UNCHANGED <<calls, assignments, usageEvents, daemonStatus, containers>>

--------------------------------------------------------------------------------
(* CheckpointService.migrateWorkload *)

AfterStop(to) == IF to = NoHost THEN "place" ELSE "migrating"

Migrate(c, w) ==
    LET row == workloads[w] IN
    /\ row.hostId # NoHost
    /\ \E to \in Targets :
          Begin(c, "migrate", w,
                [Returned EXCEPT !.op = "migrate", !.w = w, !.src = row.hostId,
                                 !.to = to, !.rt = row.runtimeId,
                                 !.pc = IF row.runtimeId = 0 THEN AfterStop(to)
                                        ELSE IF row.status \in {"running", "sleeping"}
                                        THEN "snapshot" ELSE "stop"])
    /\ UNCHANGED sharedVars

\* Mutant: the source runtime is left running.
MigrateWithoutStop(c) ==
    /\ client[c].pc = "stop"
    /\ Goto(c, AfterStop(client[c].to))
    /\ UNCHANGED <<calls, sharedVars>>

\* A failure to stop the source runtime is swallowed.
MigrateStop(c) ==
    /\ client[c].pc = "stop"
    /\ \/ StopContainer(client[c].rt)
       \/ "stop" \in Faults /\ UNCHANGED containers
    /\ Goto(c, AfterStop(client[c].to))
    /\ UNCHANGED <<calls, dbVars>>

\* The source is already stopped when the placement throws.
MigratePlace(c) ==
    /\ client[c].pc = "place"
    /\ \E h \in PlaceWorkload(client[c].w, client[c].src) :
          IF h = NoHost THEN Return(c)
          ELSE client' = [client EXCEPT ![c] = [@ EXCEPT !.pc = "migrating", !.to = h]]
    /\ UNCHANGED <<calls, sharedVars>>

MigrateMark(c) ==
    /\ client[c].pc = "migrating"
    /\ MarkMigrating(client[c].w)
    /\ Goto(c, "requeue")
    /\ UNCHANGED <<calls, assignments, checkpoints, usageEvents, daemonStatus, containers>>

\* Mutant: foreign keys are not enforced.
MigrateRequeueUnchecked(c) ==
    /\ client[c].pc = "requeue"
    /\ RequeueOnHost(client[c].w, client[c].to, client[c].ckpt)
    /\ client' = [client EXCEPT ![c] =
                     [@ EXCEPT !.pc = "enqueue",
                               !.op = IF client[c].ckpt = 0 THEN "start" ELSE "restore"]]
    /\ UNCHANGED <<calls, assignments, checkpoints, usageEvents, daemonStatus, containers>>

\* The foreign key rejects a host without a row; the row stays migrating.
MigrateRequeue(c) ==
    /\ client[c].pc = "requeue"
    /\ IF client[c].to \in Host
       THEN /\ RequeueOnHost(client[c].w, client[c].to, client[c].ckpt)
            /\ client' = [client EXCEPT ![c] =
                             [@ EXCEPT !.pc = "enqueue",
                                       !.op = IF client[c].ckpt = 0 THEN "start" ELSE "restore"]]
       ELSE UNCHANGED workloads /\ Return(c)
    /\ UNCHANGED <<calls, assignments, checkpoints, usageEvents, daemonStatus, containers>>

--------------------------------------------------------------------------------
(* `hive host start` and `hive host stop`: they write the column and touch no *)
(* daemon process.                                                            *)

SetDaemonStatus(h, status) ==
    /\ "host" \in Calls
    /\ calls < MaxCalls
    /\ calls' = calls + 1
    /\ daemonStatus' = [daemonStatus EXCEPT ![h] = status]
    /\ UNCHANGED <<client, workloads, assignments, checkpoints, usageEvents, containers>>

--------------------------------------------------------------------------------

\* The process ends, or a statement throws, between two steps of a call.
ClientAborts(c) ==
    /\ "abort" \in Faults
    /\ client[c].pc # "idle"
    /\ Return(c)
    /\ UNCHANGED <<calls, sharedVars>>

ClientBegins(c) ==
    \E w \in Workload : Spawn(c, w) \/ Sleep(c, w) \/ Wake(c, w)
                        \/ Checkpoint(c, w) \/ Migrate(c, w)

ClientContinues(c) ==
    \/ AssignWorkload(c) \/ MarkAssigned(c) \/ Enqueue(c)
    \/ Snapshot(c) \/ SaveCheckpoint(c) \/ SaveCheckpointFails(c)
    \/ MigrateStop(c) \/ MigratePlace(c) \/ MigrateMark(c) \/ MigrateRequeue(c)

HostCommand == \E h \in Host, status \in {"running", "stopped"} : SetDaemonStatus(h, status)

ClientStep(c) == ClientBegins(c) \/ ClientContinues(c) \/ ClientAborts(c)

================================================================================
