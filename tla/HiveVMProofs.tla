----------------------------- MODULE HiveVMProofs ------------------------------
(***************************************************************************)
(* Theorems about HiveVM, for every number of workloads, hosts, clients    *)
(* and daemons and every bound on the calls.                               *)
(***************************************************************************)
EXTENDS HiveVM, TLAPS, SequenceTheorems, FiniteSetTheorems

--------------------------------------------------------------------------------
(* What the writes to the tables do to the types. *)

\* Updating one status keeps everything else of the assignments table.
LEMMA SetAssignmentEffect ==
    ASSUME assignments \in Seq(Assignment),
           NEW i, NEW s \in AssignmentStatus, SetAssignment(i, s)
    PROVE  /\ assignments' \in Seq(Assignment)
           /\ Len(assignments') = Len(assignments)
           /\ DOMAIN assignments' = DOMAIN assignments
           /\ \A j \in DOMAIN assignments :
                 /\ assignments[j] \in Assignment
                 /\ assignments'[j].workload = assignments[j].workload
                 /\ assignments'[j].host = assignments[j].host
                 /\ assignments'[j].action = assignments[j].action
                 /\ assignments'[j].assignedAt = assignments[j].assignedAt
                 /\ assignments'[j].status = IF j = i THEN s ELSE assignments[j].status
<1>1. CASE i \in DOMAIN assignments
  <2>1. i \in 1..Len(assignments)
    BY <1>1
  <2>2. assignments[i] \in Assignment
    BY <2>1, ElementOfSeq
  <2> DEFINE e == [assignments[i] EXCEPT !.status = s]
  <2>3. e \in Assignment
    BY <2>2 DEF Assignment
  <2>4. assignments' = [assignments EXCEPT ![i] = e]
    BY DEF SetAssignment
  <2>5. \A j \in 1..Len(assignments) : assignments[j] \in Assignment
    BY ElementOfSeq
  <2> HIDE DEF e
  <2>6. /\ assignments' \in Seq(Assignment)
        /\ Len(assignments') = Len(assignments)
        /\ \A j \in 1..Len(assignments) :
              assignments'[j] = IF j = i THEN e ELSE assignments[j]
    BY <2>1, <2>3, <2>4, ExceptSeq
  <2>7. /\ e.workload = assignments[i].workload /\ e.host = assignments[i].host
        /\ e.action = assignments[i].action /\ e.status = s
        /\ e.assignedAt = assignments[i].assignedAt
    BY <2>2 DEF e, Assignment
  <2> QED
    BY <2>5, <2>6, <2>7
<1>2. CASE i \notin DOMAIN assignments
  <2>1. assignments' = assignments
    BY <1>2 DEF SetAssignment
  <2> QED
    BY <1>2, <2>1, ElementOfSeq
<1> QED
  BY <1>1, <1>2

\* Posting an assignment keeps the ones there are.
LEMMA CreateAssignmentEffect ==
    ASSUME assignments \in Seq(Assignment),
           NEW w \in Workload, NEW h \in Host, NEW a \in Action, CreateAssignment(w, h, a)
    PROVE  /\ assignments' \in Seq(Assignment)
           /\ Len(assignments') = Len(assignments) + 1
           /\ \A j \in DOMAIN assignments :
                 j \in DOMAIN assignments' /\ assignments'[j] = assignments[j]
           /\ \E t \in Second :
                 assignments'[Len(assignments')] =
                    [workload |-> w, host |-> h, action |-> a, status |-> "pending",
                     assignedAt |-> t]
<1>0. PICK t \in Second :
         assignments' = Append(assignments, [workload |-> w, host |-> h, action |-> a,
                                             status |-> "pending", assignedAt |-> t])
  BY DEF CreateAssignment
<1> DEFINE e == [workload |-> w, host |-> h, action |-> a, status |-> "pending",
                 assignedAt |-> t]
<1>1. e \in Assignment
  BY DEF Assignment, AssignmentStatus
<1>2. assignments' = Append(assignments, e)
  BY <1>0
<1> HIDE DEF e
<1>3. /\ assignments' \in Seq(Assignment)
      /\ Len(assignments') = Len(assignments) + 1
      /\ \A j \in 1..Len(assignments) : assignments'[j] = assignments[j]
      /\ assignments'[Len(assignments) + 1] = e
  BY <1>1, <1>2, AppendProperties
<1> QED
  BY <1>3 DEF e

LEMMA StopContainerType ==
    ASSUME containers \in Seq(Container), NEW rt, StopContainer(rt)
    PROVE  containers' \in Seq(Container)
<1>1. CASE rt \in DOMAIN containers
  <2>1. rt \in 1..Len(containers)
    BY <1>1
  <2>2. containers[rt] \in Container
    BY <2>1, ElementOfSeq
  <2> DEFINE e == [containers[rt] EXCEPT !.state = "stopped"]
  <2>3. e \in Container
    BY <2>2 DEF Container
  <2>4. containers' = [containers EXCEPT ![rt] = e]
    BY DEF StopContainer
  <2> HIDE DEF e
  <2> QED
    BY <2>1, <2>3, <2>4, ExceptSeq
<1>2. CASE rt \notin DOMAIN containers
  <2>1. containers' = containers
    BY <1>2 DEF StopContainer
  <2> QED
    BY <2>1
<1> QED
  BY <1>1, <1>2

LEMMA LaunchContainerType ==
    ASSUME containers \in Seq(Container), NEW w \in Workload, NEW h \in Host,
           LaunchContainer(w, h)
    PROVE  containers' \in Seq(Container)
<1> DEFINE e == [workload |-> w, host |-> h, state |-> "running"]
<1>1. e \in Container
  BY DEF Container
<1>2. containers' = Append(containers, e)
  BY DEF LaunchContainer
<1> HIDE DEF e
<1> QED
  BY <1>1, <1>2, AppendProperties

LEMMA CheckpointType ==
    ASSUME checkpoints \in Seq(Workload), NEW w \in Workload,
           checkpoints' = Append(checkpoints, w)
    PROVE  checkpoints' \in Seq(Workload)
  BY AppendProperties

\* The UPDATEs of WorkloadService keep every row a row.
LEMMA RowType ==
    ASSUME workloads \in [Workload -> Row], NEW w \in Workload
    PROVE  /\ \A rt \in Nat : MarkRunning(w, rt) => workloads' \in [Workload -> Row]
           /\ MarkSleeping(w) => workloads' \in [Workload -> Row]
           /\ MarkFailed(w) => workloads' \in [Workload -> Row]
           /\ MarkMigrating(w) => workloads' \in [Workload -> Row]
           /\ \A c \in Nat : SetCheckpoint(w, c) => workloads' \in [Workload -> Row]
           /\ \A h \in Host, c \in Nat :
                 RequeueOnHost(w, h, c) => workloads' \in [Workload -> Row]
<1> USE DEF Row, WorkloadStatus
<1>1. \A rt \in Nat : MarkRunning(w, rt) => workloads' \in [Workload -> Row]
  BY DEF MarkRunning
<1>2. MarkSleeping(w) => workloads' \in [Workload -> Row]
  BY DEF MarkSleeping
<1>3. MarkFailed(w) => workloads' \in [Workload -> Row]
  BY DEF MarkFailed
<1>4. MarkMigrating(w) => workloads' \in [Workload -> Row]
  BY DEF MarkMigrating
<1>5. \A c \in Nat : SetCheckpoint(w, c) => workloads' \in [Workload -> Row]
  BY DEF SetCheckpoint
<1>6. \A h \in Host, c \in Nat :
         RequeueOnHost(w, h, c) => workloads' \in [Workload -> Row]
  BY DEF RequeueOnHost
<1> QED
  BY <1>1, <1>2, <1>3, <1>4, <1>5, <1>6

\* A placement names a host or nobody.
LEMMA PlaceWorkloadType ==
    ASSUME NEW w \in Workload, NEW x
    PROVE  PlaceWorkload(w, x) \subseteq Host \cup {NoHost}
  BY CapacityAssumption DEF PlaceWorkload, Eligible

--------------------------------------------------------------------------------
(* Type correctness *)

\* A call in progress knows its workload, and what it is about to enqueue is
\* an action for a host.
KnowsCall(r) ==
    /\ r.pc # "idle" => r.w \in Workload
    /\ r.pc \in {"assign", "mark", "enqueue"} => r.to \in Host /\ r.op \in Action

ClientKnows == \A c \in Client : KnowsCall(client[c])

\* A daemon's batch and job are rows of the table, and it knows the workload
\* of the job it works on.
KnowsJob(r) ==
    /\ r.batch \subseteq DOMAIN assignments
    /\ r.pc \in Working \cup {"done"} =>
          r.job \in DOMAIN assignments /\ r.w = assignments[r.job].workload
    /\ r.pc = "condemn" => r.w \in Workload

DaemonKnows == \A d \in Daemon : KnowsJob(daemon[d])

TypeInv == TypeOK /\ ClientKnows /\ DaemonKnows

LEMMA ClientUpdate ==
    ASSUME ClientTypeOK, ClientKnows, calls' \in Nat, NEW c \in Client,
           NEW r \in ClientState, KnowsCall(r), client' = [client EXCEPT ![c] = r]
    PROVE  ClientTypeOK' /\ ClientKnows'
  BY DEF ClientTypeOK, ClientKnows

\* The three shapes of an update of client c.
LEMMA ReturnedType == Returned \in ClientState /\ KnowsCall(Returned)
  BY DEF Returned, ClientState, KnowsCall

LEMMA GotoType ==
    ASSUME NEW r \in ClientState, KnowsCall(r), r.pc # "idle",
           NEW pc \in {"enqueue", "snapshot", "save", "stop", "place", "migrating", "requeue"},
           pc = "enqueue" => r.to \in Host /\ r.op \in Action
    PROVE  [r EXCEPT !.pc = pc] \in ClientState /\ KnowsCall([r EXCEPT !.pc = pc])
  BY DEF ClientState, KnowsCall

\* The rows of the assignments table stay where they are.
JobsStay ==
    \A j \in DOMAIN assignments :
        j \in DOMAIN assignments' /\ assignments'[j].workload = assignments[j].workload

LEMMA DaemonKnowsStable ==
    ASSUME DaemonKnows, UNCHANGED daemon, JobsStay
    PROVE  DaemonKnows'
  BY DEF DaemonKnows, KnowsJob, JobsStay

LEMMA DaemonUpdate ==
    ASSUME DaemonTypeOK, DaemonKnows, JobsStay, NEW d \in Daemon,
           NEW r \in DaemonState, KnowsJob(r), daemon' = [daemon EXCEPT ![d] = r]
    PROVE  DaemonTypeOK' /\ DaemonKnows'
<1>1. DaemonTypeOK'
  BY DEF DaemonTypeOK
<1>2. \A x \in Daemon : KnowsJob(daemon'[x])
  BY DEF DaemonTypeOK, DaemonKnows
<1>3. \A x \in Daemon : KnowsJob(daemon[x])'
  BY <1>2 DEF KnowsJob, JobsStay
<1> QED
  BY <1>1, <1>3 DEF DaemonKnows

LEMMA ClientPreservesTypes ==
    ASSUME TypeInv, NEW c \in Client, ClientStep(c), UNCHANGED daemon
    PROVE  TypeInv'
<1> USE DEF TypeInv, TypeOK
<1>a. UNCHANGED assignments => DaemonKnows'
  BY DaemonKnowsStable DEF JobsStay
<1>b. DaemonTypeOK'
  BY DEF DaemonTypeOK
<1>c. client[c] \in ClientState /\ KnowsCall(client[c])
  BY DEF ClientTypeOK, ClientKnows
<1>d. ASSUME Return(c), UNCHANGED calls
      PROVE  ClientTypeOK' /\ ClientKnows'
  BY <1>d, ReturnedType, ClientUpdate DEF Return, ClientTypeOK
<1>e. ASSUME NEW pc \in {"enqueue", "snapshot", "save", "stop", "place", "migrating", "requeue"},
             Goto(c, pc), UNCHANGED calls, client[c].pc # "idle",
             pc = "enqueue" => client[c].to \in Host /\ client[c].op \in Action
      PROVE  ClientTypeOK' /\ ClientKnows'
  <2>1. client' = [client EXCEPT ![c] = [client[c] EXCEPT !.pc = pc]]
    BY <1>e DEF Goto
  <2> QED
    BY <2>1, <1>c, <1>e, GotoType, ClientUpdate DEF ClientTypeOK
<1>f. ASSUME NEW op, NEW w \in Workload, NEW r \in ClientState, KnowsCall(r), Begin(c, op, w, r)
      PROVE  ClientTypeOK' /\ ClientKnows'
  <2>1. calls' \in Nat
    BY <1>f DEF Begin, ClientTypeOK
  <2>2. client' = [client EXCEPT ![c] = r]
    BY <1>f DEF Begin
  <2> QED
    BY <1>f, <2>1, <2>2, ClientUpdate
<1>1. ASSUME NEW w \in Workload, Spawn(c, w)
      PROVE  TypeInv'
  <2>1. PICK h \in PlaceWorkload(w, NoHost) :
           Begin(c, "spawn", w, IF h = NoHost THEN Returned
                                ELSE [Returned EXCEPT !.pc = "assign", !.op = "start",
                                                      !.w = w, !.to = h])
    BY <1>1 DEF Spawn
  <2> DEFINE r == [Returned EXCEPT !.pc = "assign", !.op = "start", !.w = w, !.to = h]
  <2>0. h \in Host \cup {NoHost}
    BY PlaceWorkloadType
  <2>2. h # NoHost => r \in ClientState /\ KnowsCall(r)
    BY <2>0 DEF Returned, ClientState, KnowsCall, Action
  <2>3. ClientTypeOK' /\ ClientKnows'
    BY <2>1, <2>2, <1>f, ReturnedType
  <2>4. SharedTypeOK'
    BY <1>1 DEF Spawn, SharedTypeOK, Row, WorkloadStatus
  <2> QED
    BY <1>1, <1>a, <1>b, <2>3, <2>4 DEF Spawn
<1>2. ASSUME NEW w \in Workload, Sleep(c, w) \/ Wake(c, w)
      PROVE  TypeInv'
  <2>1. workloads[w].hostId \in Host
    BY <1>2 DEF Sleep, Wake, SharedTypeOK, Row
  <2> DEFINE r(op) == [Returned EXCEPT !.pc = "mark", !.op = op, !.w = w,
                                       !.to = workloads[w].hostId]
  <2>2. \A op \in {"sleep", "wake"} : r(op) \in ClientState /\ KnowsCall(r(op))
    BY <2>1 DEF Returned, ClientState, KnowsCall, Action
  <2>3. \E op \in {"sleep", "wake"} : Begin(c, op, w, r(op))
    BY <1>2 DEF Sleep, Wake
  <2> HIDE DEF r
  <2>4. ClientTypeOK' /\ ClientKnows'
    BY <2>2, <2>3, <1>f
  <2> QED
    BY <1>2, <1>a, <1>b, <2>4 DEF Sleep, Wake, SharedTypeOK, sharedVars, dbVars
<1>3. ASSUME NEW w \in Workload, Checkpoint(c, w)
      PROVE  TypeInv'
  <2> DEFINE r == [Returned EXCEPT !.pc = "snapshot", !.op = "checkpoint",
                                   !.w = w, !.rt = workloads[w].runtimeId]
  <2>1. r \in ClientState /\ KnowsCall(r)
    BY DEF Returned, ClientState, KnowsCall, SharedTypeOK, Row
  <2>2. Begin(c, "checkpoint", w, r)
    BY <1>3 DEF Checkpoint
  <2> HIDE DEF r
  <2>3. ClientTypeOK' /\ ClientKnows'
    BY <2>1, <2>2, <1>f
  <2> QED
    BY <1>3, <1>a, <1>b, <2>3 DEF Checkpoint, SharedTypeOK, sharedVars, dbVars
<1>4. ASSUME NEW w \in Workload, Migrate(c, w)
      PROVE  TypeInv'
  <2> DEFINE row == workloads[w]
             r(to) == [Returned EXCEPT !.op = "migrate", !.w = w, !.src = row.hostId,
                                       !.to = to, !.rt = row.runtimeId,
                                       !.pc = IF row.runtimeId = 0 THEN AfterStop(to)
                                              ELSE IF row.status \in {"running", "sleeping"}
                                              THEN "snapshot" ELSE "stop"]
  <2>0. row \in Row
    BY DEF SharedTypeOK
  <2>1. \A to \in Targets : r(to) \in ClientState /\ KnowsCall(r(to))
    BY <2>0, ClientAssumption DEF Returned, ClientState, KnowsCall, Row, AfterStop
  <2>2. \E to \in Targets : Begin(c, "migrate", w, r(to))
    BY <1>4 DEF Migrate
  <2> HIDE DEF r
  <2>3. ClientTypeOK' /\ ClientKnows'
    BY <2>1, <2>2, <1>f
  <2> QED
    BY <1>4, <1>a, <1>b, <2>3 DEF Migrate, SharedTypeOK, sharedVars, dbVars
<1>5. ASSUME AssignWorkload(c)
      PROVE  TypeInv'
  <2>1. client[c].w \in Workload /\ client[c].to \in Host /\ client[c].op \in Action
    BY <1>5, <1>c DEF AssignWorkload, KnowsCall
  <2>2. ClientTypeOK' /\ ClientKnows'
    BY <1>5, <1>e, <2>1 DEF AssignWorkload
  <2>3. workloads' \in [Workload -> Row]
    BY <1>5, <2>1 DEF AssignWorkload, SharedTypeOK, Row, WorkloadStatus
  <2> QED
    BY <1>5, <1>a, <1>b, <2>2, <2>3 DEF AssignWorkload, SharedTypeOK
<1>6. ASSUME MarkAssigned(c)
      PROVE  TypeInv'
  <2>1. client[c].w \in Workload /\ client[c].to \in Host /\ client[c].op \in Action
    BY <1>6, <1>c DEF MarkAssigned, KnowsCall
  <2>2. ClientTypeOK' /\ ClientKnows'
    BY <1>6, <1>e, <2>1 DEF MarkAssigned
  <2>3. workloads' \in [Workload -> Row]
    BY <1>6, <2>1 DEF MarkAssigned, SharedTypeOK, Row, WorkloadStatus
  <2> QED
    BY <1>6, <1>a, <1>b, <2>2, <2>3 DEF MarkAssigned, SharedTypeOK
<1>7. ASSUME Enqueue(c)
      PROVE  TypeInv'
  <2>1. client[c].w \in Workload /\ client[c].to \in Host /\ client[c].op \in Action
    BY <1>7, <1>c DEF Enqueue, KnowsCall
  <2>2. /\ assignments' \in Seq(Assignment)
        /\ \A j \in DOMAIN assignments :
              j \in DOMAIN assignments' /\ assignments'[j] = assignments[j]
    BY <1>7, <2>1, CreateAssignmentEffect DEF Enqueue, SharedTypeOK
  <2>3. DaemonKnows'
    BY <2>2, DaemonKnowsStable DEF JobsStay
  <2>4. ClientTypeOK' /\ ClientKnows'
    BY <1>7, <1>d DEF Enqueue
  <2> QED
    BY <1>7, <1>b, <2>2, <2>3, <2>4 DEF Enqueue, SharedTypeOK
<1>8. ASSUME Snapshot(c)
      PROVE  TypeInv'
  <2>1. containers' \in Seq(Container)
    BY <1>8, StopContainerType DEF Snapshot, SharedTypeOK
  <2>2. ClientTypeOK' /\ ClientKnows'
    BY <1>8, <1>e DEF Snapshot
  <2> QED
    BY <1>8, <1>a, <1>b, <2>1, <2>2 DEF Snapshot, SharedTypeOK, dbVars
<1>9. ASSUME SaveCheckpoint(c)
      PROVE  TypeInv'
  <2>1. client[c].w \in Workload
    BY <1>9, <1>c DEF SaveCheckpoint, KnowsCall
  <2>2. checkpoints' \in Seq(Workload) /\ Len(checkpoints) + 1 \in Nat
    BY <1>9, <2>1, CheckpointType DEF SaveCheckpoint, SharedTypeOK
  <2>3. workloads' \in [Workload -> Row]
    BY <1>9, <2>1, <2>2, RowType DEF SaveCheckpoint, SharedTypeOK
  <2>4. ClientTypeOK' /\ ClientKnows'
    <3>1. CASE client[c].op = "migrate"
      <4> DEFINE r == [client[c] EXCEPT !.pc = "stop", !.ckpt = Len(checkpoints) + 1]
      <4>1. r \in ClientState /\ KnowsCall(r)
        BY <1>c, <2>1, <2>2 DEF ClientState, KnowsCall
      <4>2. client' = [client EXCEPT ![c] = r] /\ calls' \in Nat
        BY <1>9, <3>1 DEF SaveCheckpoint, ClientTypeOK
      <4> HIDE DEF r
      <4> QED
        BY <4>1, <4>2, ClientUpdate
    <3>2. CASE client[c].op # "migrate"
      BY <1>9, <1>d, <3>2 DEF SaveCheckpoint
    <3> QED
      BY <3>1, <3>2
  <2> QED
    BY <1>9, <1>a, <1>b, <2>2, <2>3, <2>4 DEF SaveCheckpoint, SharedTypeOK
<1>10. ASSUME SaveCheckpointFails(c)
       PROVE  TypeInv'
  <2>1. client[c].w \in Workload
    BY <1>10, <1>c DEF SaveCheckpointFails, KnowsCall
  <2>2. checkpoints' \in Seq(Workload)
    BY <1>10, <2>1, CheckpointType DEF SaveCheckpointFails, SharedTypeOK
  <2>3. workloads' \in [Workload -> Row]
    <3>1. Len(checkpoints) + 1 \in Nat
      BY <2>1, CheckpointType DEF SharedTypeOK
    <3>2. UNCHANGED workloads \/ SetCheckpoint(client[c].w, Len(checkpoints) + 1)
      BY <1>10 DEF SaveCheckpointFails
    <3> QED
      BY <2>1, <3>1, <3>2, RowType DEF SharedTypeOK
  <2>4. ClientTypeOK' /\ ClientKnows'
    BY <1>10, <1>d, <1>e DEF SaveCheckpointFails
  <2> QED
    BY <1>10, <1>a, <1>b, <2>2, <2>3, <2>4 DEF SaveCheckpointFails, SharedTypeOK
<1>11. ASSUME MigrateStop(c)
       PROVE  TypeInv'
  <2>1. containers' \in Seq(Container)
    BY <1>11, StopContainerType DEF MigrateStop, SharedTypeOK
  <2>2. ClientTypeOK' /\ ClientKnows'
    BY <1>11, <1>e DEF MigrateStop, AfterStop
  <2> QED
    BY <1>11, <1>a, <1>b, <2>1, <2>2 DEF MigrateStop, SharedTypeOK, dbVars
<1>12. ASSUME MigratePlace(c)
       PROVE  TypeInv'
  <2>1. PICK h \in PlaceWorkload(client[c].w, client[c].src) :
           IF h = NoHost THEN Return(c)
           ELSE client' = [client EXCEPT ![c] = [@ EXCEPT !.pc = "migrating", !.to = h]]
    BY <1>12 DEF MigratePlace
  <2>2. client[c].w \in Workload
    BY <1>12, <1>c DEF MigratePlace, KnowsCall
  <2>3. h \in Host \cup {NoHost}
    BY <2>2, PlaceWorkloadType
  <2> DEFINE r == [client[c] EXCEPT !.pc = "migrating", !.to = h]
  <2>4. r \in ClientState /\ KnowsCall(r)
    BY <1>c, <2>2, <2>3 DEF ClientState, KnowsCall
  <2>5. h # NoHost => client' = [client EXCEPT ![c] = r]
    BY <2>1
  <2> HIDE DEF r
  <2>6. UNCHANGED calls /\ calls' \in Nat
    BY <1>12 DEF MigratePlace, ClientTypeOK
  <2>7. ClientTypeOK' /\ ClientKnows'
    BY <2>1, <2>4, <2>5, <2>6, <1>d, ClientUpdate
  <2> QED
    BY <1>12, <1>a, <1>b, <2>7 DEF MigratePlace, SharedTypeOK, sharedVars, dbVars
<1>13. ASSUME MigrateMark(c)
       PROVE  TypeInv'
  <2>1. client[c].w \in Workload
    BY <1>13, <1>c DEF MigrateMark, KnowsCall
  <2>2. workloads' \in [Workload -> Row]
    BY <1>13, <2>1, RowType DEF MigrateMark, SharedTypeOK
  <2>3. ClientTypeOK' /\ ClientKnows'
    BY <1>13, <1>e DEF MigrateMark
  <2> QED
    BY <1>13, <1>a, <1>b, <2>2, <2>3 DEF MigrateMark, SharedTypeOK
<1>14. ASSUME MigrateRequeue(c)
       PROVE  TypeInv'
  <2>1. client[c].w \in Workload /\ client[c].ckpt \in Nat
    BY <1>14, <1>c DEF MigrateRequeue, KnowsCall, ClientState
  <2>2. workloads' \in [Workload -> Row]
    BY <1>14, <2>1, RowType DEF MigrateRequeue, SharedTypeOK
  <2>3. ClientTypeOK' /\ ClientKnows'
    <3>1. CASE client[c].to \in Host
      <4> DEFINE r == [client[c] EXCEPT !.pc = "enqueue",
                          !.op = IF client[c].ckpt = 0 THEN "start" ELSE "restore"]
      <4>1. r \in ClientState /\ KnowsCall(r)
        BY <1>c, <2>1, <3>1 DEF ClientState, KnowsCall, Action
      <4>2. client' = [client EXCEPT ![c] = r] /\ calls' \in Nat
        BY <1>14, <3>1 DEF MigrateRequeue, ClientTypeOK
      <4> HIDE DEF r
      <4> QED
        BY <4>1, <4>2, ClientUpdate
    <3>2. CASE client[c].to \notin Host
      BY <1>14, <1>d, <3>2 DEF MigrateRequeue
    <3> QED
      BY <3>1, <3>2
  <2> QED
    BY <1>14, <1>a, <1>b, <2>2, <2>3 DEF MigrateRequeue, SharedTypeOK
<1>15. ASSUME ClientAborts(c)
       PROVE  TypeInv'
  BY <1>15, <1>a, <1>b, <1>d DEF ClientAborts, SharedTypeOK, sharedVars, dbVars
<1> QED
  BY <1>1, <1>2, <1>3, <1>4, <1>5, <1>6, <1>7, <1>8, <1>9, <1>10, <1>11, <1>12, <1>13,
     <1>14, <1>15 DEF ClientStep, ClientBegins, ClientContinues

LEMMA DispatchType ==
    ASSUME NEW d \in Daemon, NEW action, NEW row
    PROVE  Dispatch(d, action, row) \in {"sleeping", "stop", "fail", "inspect", "launch"}
  BY DEF Dispatch

\* A batch holds rows of the table.
LEMMA BatchType ==
    ASSUME assignments \in Seq(Assignment), NEW h
    PROVE  /\ \A batch \in NextPendingForHost(h) : batch \subseteq Pending(h)
           /\ Pending(h) \subseteq DOMAIN assignments /\ DOMAIN assignments \subseteq Nat
  BY DEF NextPendingForHost, Batches, Pending

LEMMA DaemonPreservesTypes ==
    ASSUME TypeInv, NEW d \in Daemon, DaemonStep(d), UNCHANGED clientVars
    PROVE  TypeInv'
<1> USE DEF TypeInv, TypeOK
<1> DEFINE Handling == Working \cup {"done"}
<1>a. UNCHANGED assignments => JobsStay
  BY DEF JobsStay
<1>b. ClientTypeOK' /\ ClientKnows'
  BY DEF ClientTypeOK, ClientKnows, clientVars
<1>c. daemon[d] \in DaemonState /\ KnowsJob(daemon[d])
  BY DEF DaemonTypeOK, DaemonKnows
<1>d. ASSUME NEW pc \in {"off", "idle", "next", "inspect", "launch", "running", "stop",
                        "sleeping", "done", "fail", "failed", "sweep"},
             Continue(d, pc), JobsStay, pc \in Handling => daemon[d].pc \in Handling
      PROVE  DaemonTypeOK' /\ DaemonKnows'
  <2> DEFINE r == [daemon[d] EXCEPT !.pc = pc]
  <2>1. r \in DaemonState
    BY <1>c DEF DaemonState
  <2>2. KnowsJob(r)
    BY <1>c, <1>d DEF DaemonState, KnowsJob
  <2>3. daemon' = [daemon EXCEPT ![d] = r]
    BY <1>d DEF Continue
  <2> HIDE DEF r
  <2> QED
    BY <1>d, <2>1, <2>2, <2>3, DaemonUpdate
<1>e. ASSUME NextAssignment(d), JobsStay
      PROVE  DaemonTypeOK' /\ DaemonKnows'
  <2> DEFINE r == [daemon[d] EXCEPT !.pc = "next", !.job = 0, !.w = NoWorkload, !.rt = 0]
  <2>1. r \in DaemonState
    BY <1>c DEF DaemonState
  <2>2. KnowsJob(r)
    BY <1>c DEF DaemonState, KnowsJob, Working
  <2>3. daemon' = [daemon EXCEPT ![d] = r]
    BY <1>e DEF NextAssignment
  <2> HIDE DEF r
  <2> QED
    BY <1>e, <2>1, <2>2, <2>3, DaemonUpdate
<1>f. daemon[d].pc \in Working \cup {"condemn"} => daemon[d].w \in Workload
  <2>1. \A i \in DOMAIN assignments : assignments[i] \in Assignment
    BY ElementOfSeq DEF SharedTypeOK
  <2>2. \A i \in DOMAIN assignments : assignments[i].workload \in Workload
    BY <2>1 DEF Assignment
  <2> QED
    BY <1>c, <2>2 DEF KnowsJob
<1>g. ASSUME NEW s \in AssignmentStatus, SetAssignment(daemon[d].job, s)
      PROVE  assignments' \in Seq(Assignment) /\ JobsStay
  BY <1>g, SetAssignmentEffect DEF SharedTypeOK, JobsStay
<1>h. Serves[d] \in Host
  BY ServesAssumption
<1>i. StatementThrows(d) /\ daemon[d].pc \in Handling => TypeInv'
  BY <1>a, <1>b, <1>d DEF StatementThrows, SharedTypeOK, sharedVars, dbVars, Working
<1>1. ASSUME StartDaemon(d) \/ StopDaemon(d)
      PROVE  TypeInv'
  <2>1. SharedTypeOK'
    BY <1>1, <1>h DEF StartDaemon, StopDaemon, SharedTypeOK
  <2>2. DaemonTypeOK' /\ DaemonKnows'
    BY <1>1, <1>a, <1>d DEF StartDaemon, StopDaemon, Working
  <2> QED
    BY <1>b, <2>1, <2>2
<1>2. ASSUME CrashDaemon(d)
      PROVE  TypeInv'
  <2>1. Off \in DaemonState /\ KnowsJob(Off)
    BY DEF Off, DaemonState, KnowsJob, Working
  <2>2. DaemonTypeOK' /\ DaemonKnows'
    BY <1>2, <1>a, <2>1, DaemonUpdate DEF CrashDaemon
  <2> QED
    BY <1>2, <1>b, <1>h, <2>2 DEF CrashDaemon, SharedTypeOK
<1>3. ASSUME RunOnce(d)
      PROVE  TypeInv'
  <2>0. PICK batch \in NextPendingForHost(Serves[d]) :
           daemon' = [daemon EXCEPT ![d] = [daemon[d] EXCEPT !.pc = "next", !.batch = batch]]
    BY <1>3 DEF RunOnce
  <2> DEFINE r == [daemon[d] EXCEPT !.pc = "next", !.batch = batch]
  <2>1. batch \subseteq DOMAIN assignments /\ batch \subseteq Nat
    BY BatchType DEF SharedTypeOK
  <2>2. r \in DaemonState /\ KnowsJob(r)
    BY <1>c, <2>1 DEF DaemonState, KnowsJob, Working
  <2>3. daemon' = [daemon EXCEPT ![d] = r]
    BY <2>0
  <2> HIDE DEF r
  <2>4. DaemonTypeOK' /\ DaemonKnows'
    BY <1>3, <1>a, <2>2, <2>3, DaemonUpdate DEF RunOnce, sharedVars, dbVars
  <2> QED
    BY <1>3, <1>b, <2>4 DEF RunOnce, SharedTypeOK, sharedVars, dbVars
<1>4. ASSUME Claim(d)
      PROVE  TypeInv'
  <2>1. PICK i \in daemon[d].batch :
           /\ SetAssignment(i, "processing")
           /\ daemon' = [daemon EXCEPT ![d] =
                 [daemon[d] EXCEPT !.pc = Dispatch(d, assignments[i].action,
                                                   workloads[assignments[i].workload]),
                                   !.batch = daemon[d].batch \ {i}, !.job = i,
                                   !.w = assignments[i].workload,
                                   !.rt = workloads[assignments[i].workload].runtimeId]]
    BY <1>4 DEF Claim
  <2>2. i \in DOMAIN assignments /\ i \in Nat
    BY <1>c DEF KnowsJob, DaemonState
  <2>3. assignments[i] \in Assignment
    BY <2>2, ElementOfSeq DEF SharedTypeOK
  <2> DEFINE w == assignments[i].workload
             pc == Dispatch(d, assignments[i].action, workloads[w])
             rt == workloads[w].runtimeId
             r == [daemon[d] EXCEPT !.pc = pc, !.batch = daemon[d].batch \ {i},
                                     !.job = i, !.w = w, !.rt = rt]
  <2>4. w \in Workload /\ rt \in Nat
    BY <2>3 DEF Assignment, SharedTypeOK, Row
  <2>5. pc \in {"sleeping", "stop", "fail", "inspect", "launch"}
    BY DispatchType
  <2>6. daemon' = [daemon EXCEPT ![d] = r]
    BY <2>1
  <2>7. w = assignments[i].workload
    OBVIOUS
  <2> HIDE DEF w, pc, rt
  <2>8. r \in DaemonState
    BY <1>c, <2>2, <2>4, <2>5 DEF DaemonState
  <2>9. KnowsJob(r)
    BY <1>c, <2>2, <2>5, <2>7 DEF DaemonState, KnowsJob
  <2> HIDE DEF r
  <2>10. assignments' \in Seq(Assignment) /\ JobsStay
    BY <2>1, SetAssignmentEffect DEF SharedTypeOK, JobsStay, AssignmentStatus
  <2>11. DaemonTypeOK' /\ DaemonKnows'
    BY <2>6, <2>8, <2>9, <2>10, DaemonUpdate
  <2> QED
    BY <1>4, <1>b, <2>10, <2>11 DEF Claim, SharedTypeOK
<1>5. ASSUME InspectOld(d)
      PROVE  TypeInv'
  <2>1. \E pc \in {"running", "launch", "sleeping", "stop", "fail", "inspect"} : Continue(d, pc)
    BY <1>5, DispatchType DEF InspectOld
  <2>2. DaemonTypeOK' /\ DaemonKnows'
    BY <1>5, <1>a, <1>d, <2>1 DEF InspectOld, At, Working, sharedVars, dbVars
  <2> QED
    BY <1>5, <1>b, <2>2 DEF InspectOld, SharedTypeOK, sharedVars, dbVars
<1>6. ASSUME Launch(d)
      PROVE  TypeInv'
  <2>1. daemon[d].w \in Workload
    BY <1>6, <1>f DEF Launch, At, Working
  <2>2. containers' \in Seq(Container)
    BY <1>6, <1>h, <2>1, LaunchContainerType DEF Launch, SharedTypeOK
  <2>3. DaemonTypeOK' /\ DaemonKnows'
    <3>1. CASE Continue(d, "fail")
      BY <1>6, <1>a, <1>d, <3>1 DEF Launch, At, Working, dbVars
    <3>2. CASE ~Continue(d, "fail")
      <4> DEFINE r == [daemon[d] EXCEPT !.pc = "running", !.rt = Len(containers) + 1]
      <4>1. daemon' = [daemon EXCEPT ![d] = r]
        BY <1>6, <3>2 DEF Launch
      <4>2. Len(containers) + 1 \in Nat
        BY DEF SharedTypeOK
      <4>3. r \in DaemonState
        BY <1>c, <4>2 DEF DaemonState
      <4>4. KnowsJob(r)
        BY <1>6, <1>c DEF DaemonState, KnowsJob, Launch, At, Working
      <4> HIDE DEF r
      <4> QED
        BY <1>6, <1>a, <4>1, <4>3, <4>4, DaemonUpdate DEF Launch, dbVars
    <3> QED
      BY <3>1, <3>2
  <2> QED
    BY <1>6, <1>b, <2>2, <2>3 DEF Launch, SharedTypeOK, dbVars
<1>7. ASSUME Launched(d)
      PROVE  TypeInv'
  <2>1. CASE StatementThrows(d)
    BY <1>7, <1>i, <2>1 DEF Launched, At, Working
  <2>2. CASE ~StatementThrows(d)
    <3>1. daemon[d].w \in Workload /\ daemon[d].rt \in Nat
      BY <1>7, <1>c, <1>f DEF Launched, At, Working, DaemonState
    <3>2. workloads' \in [Workload -> Row]
      BY <1>7, <2>2, <3>1, RowType DEF Launched, SharedTypeOK
    <3>3. DaemonTypeOK' /\ DaemonKnows'
      BY <1>7, <2>2, <1>a, <1>d DEF Launched, At, Working
    <3> QED
      BY <1>7, <2>2, <1>b, <3>2, <3>3 DEF Launched, SharedTypeOK
  <2> QED
    BY <2>1, <2>2
<1>8. ASSUME StopRuntime(d)
      PROVE  TypeInv'
  <2>1. containers' \in Seq(Container)
    BY <1>8, StopContainerType DEF StopRuntime, SharedTypeOK
  <2>2. DaemonTypeOK' /\ DaemonKnows'
    BY <1>8, <1>a, <1>d DEF StopRuntime, At, Working, dbVars
  <2> QED
    BY <1>8, <1>b, <2>1, <2>2 DEF StopRuntime, SharedTypeOK, dbVars
<1>9. ASSUME Stopped(d)
      PROVE  TypeInv'
  <2>1. CASE StatementThrows(d)
    BY <1>9, <1>i, <2>1 DEF Stopped, At, Working
  <2>2. CASE ~StatementThrows(d)
    <3>1. daemon[d].w \in Workload
      BY <1>9, <1>f DEF Stopped, At, Working
    <3>2. workloads' \in [Workload -> Row]
      BY <1>9, <2>2, <3>1, RowType DEF Stopped, SharedTypeOK
    <3>3. DaemonTypeOK' /\ DaemonKnows'
      BY <1>9, <2>2, <1>a, <1>d DEF Stopped, At, Working
    <3> QED
      BY <1>9, <2>2, <1>b, <3>2, <3>3 DEF Stopped, SharedTypeOK
  <2> QED
    BY <2>1, <2>2
<1>10. ASSUME Complete(d)
       PROVE  TypeInv'
  <2>1. assignments' \in Seq(Assignment) /\ JobsStay
    BY <1>10, <1>a, <1>g DEF Complete, AssignmentStatus, SharedTypeOK
  <2>2. DaemonTypeOK' /\ DaemonKnows'
    BY <1>10, <1>d, <1>e, <2>1 DEF Complete, At
  <2> QED
    BY <1>10, <1>b, <2>1, <2>2 DEF Complete, SharedTypeOK
<1>11. ASSUME FailAssignment(d)
       PROVE  TypeInv'
  <2>1. assignments' \in Seq(Assignment) /\ JobsStay
    BY <1>11, <1>g DEF FailAssignment, AssignmentStatus
  <2>2. DaemonTypeOK' /\ DaemonKnows'
    BY <1>11, <1>d, <2>1 DEF FailAssignment, At, Working
  <2> QED
    BY <1>11, <1>b, <2>1, <2>2 DEF FailAssignment, SharedTypeOK
<1>12. ASSUME FailWorkload(d)
       PROVE  TypeInv'
  <2>1. daemon[d].w \in Workload
    BY <1>12, <1>f DEF FailWorkload, At, Working
  <2>2. workloads' \in [Workload -> Row]
    BY <1>12, <2>1, RowType DEF FailWorkload, SharedTypeOK
  <2>3. DaemonTypeOK' /\ DaemonKnows'
    BY <1>12, <1>a, <1>e DEF FailWorkload
  <2> QED
    BY <1>12, <1>b, <2>2, <2>3 DEF FailWorkload, SharedTypeOK
<1>13. ASSUME CollectMetering(d)
       PROVE  TypeInv'
  <2> DEFINE sweep == Metered(Serves[d])
             r == [daemon[d] EXCEPT !.pc = "sweep", !.sweep = sweep]
  <2>1. sweep \in SUBSET (Workload \X Nat)
    BY DEF Metered, SharedTypeOK, Row
  <2>2. daemon' = [daemon EXCEPT ![d] = r]
    BY <1>13 DEF CollectMetering
  <2> HIDE DEF sweep
  <2>3. r \in DaemonState
    BY <1>c, <2>1 DEF DaemonState
  <2>4. KnowsJob(r)
    BY <1>c DEF DaemonState, KnowsJob, Working
  <2> HIDE DEF r
  <2>5. DaemonTypeOK' /\ DaemonKnows'
    BY <1>13, <1>a, <2>2, <2>3, <2>4, DaemonUpdate DEF CollectMetering, sharedVars, dbVars
  <2> QED
    BY <1>13, <1>b, <2>5 DEF CollectMetering, SharedTypeOK, sharedVars, dbVars
<1>14. ASSUME Meter(d)
       PROVE  TypeInv'
  <2> DEFINE Answered(row, answer) ==
           /\ daemon' = [daemon EXCEPT ![d] =
                 [daemon[d] EXCEPT !.sweep = daemon[d].sweep \ {row},
                                   !.pc = IF answer = "running" THEN "sweep" ELSE "condemn",
                                   !.w = IF answer = "running" THEN NoWorkload ELSE row[1]]]
           /\ IF answer = "running"
              THEN usageEvents' = usageEvents \cup
                      {[workload |-> row[1], host |-> Serves[d], runtime |-> row[2]]}
              ELSE UNCHANGED usageEvents
  <2>0. PICK row \in daemon[d].sweep : \E answer \in StatusAnswers(row[2]) : Answered(row, answer)
    BY <1>14 DEF Meter
  <2>1. PICK answer \in StatusAnswers(row[2]) : Answered(row, answer)
    BY <2>0
  <2>2. row[1] \in Workload /\ row[2] \in Nat
    <3>1. daemon[d].sweep \in SUBSET (Workload \X Nat)
      BY <1>c DEF DaemonState
    <3>2. row \in Workload \X Nat
      BY <3>1
    <3> QED
      BY <3>2
  <2>3. usageEvents' \subseteq Usage
    BY <1>h, <2>1, <2>2 DEF SharedTypeOK, Usage
  <2> DEFINE pc == IF answer = "running" THEN "sweep" ELSE "condemn"
             w == IF answer = "running" THEN NoWorkload ELSE row[1]
             r == [daemon[d] EXCEPT !.sweep = daemon[d].sweep \ {row}, !.pc = pc, !.w = w]
  <2>4. /\ pc \in {"sweep", "condemn"}
        /\ w \in Workload \cup {NoWorkload}
        /\ pc = "condemn" => w \in Workload
    BY <1>c, <2>2 DEF DaemonState
  <2>5. daemon' = [daemon EXCEPT ![d] = r]
    BY <2>1
  <2> HIDE DEF pc, w
  <2>6. r \in DaemonState
    BY <1>c, <2>4 DEF DaemonState
  <2>7. KnowsJob(r)
    BY <1>c, <2>4 DEF DaemonState, KnowsJob, Working
  <2> HIDE DEF r
  <2>8. DaemonTypeOK' /\ DaemonKnows'
    BY <1>14, <1>a, <2>5, <2>6, <2>7, DaemonUpdate DEF Meter
  <2> QED
    BY <1>14, <1>b, <2>3, <2>8 DEF Meter, SharedTypeOK
<1>15. ASSUME Condemn(d)
       PROVE  TypeInv'
  <2>1. daemon[d].w \in Workload
    BY <1>15, <1>f DEF Condemn, At
  <2>2. workloads' \in [Workload -> Row]
    BY <1>15, <2>1, RowType DEF Condemn, SharedTypeOK
  <2> DEFINE r == [daemon[d] EXCEPT !.pc = "sweep", !.w = NoWorkload]
  <2>3. r \in DaemonState /\ KnowsJob(r)
    BY <1>c DEF DaemonState, KnowsJob, Working
  <2>4. daemon' = [daemon EXCEPT ![d] = r]
    BY <1>15 DEF Condemn
  <2> HIDE DEF r
  <2>5. DaemonTypeOK' /\ DaemonKnows'
    BY <1>15, <1>a, <2>3, <2>4, DaemonUpdate DEF Condemn
  <2> QED
    BY <1>15, <1>b, <2>2, <2>5 DEF Condemn, SharedTypeOK
<1>16. ASSUME EndLoop(d)
       PROVE  TypeInv'
  BY <1>16, <1>a, <1>b, <1>d DEF EndLoop, SharedTypeOK, sharedVars, dbVars, Working
<1> QED
  BY <1>1, <1>2, <1>3, <1>4, <1>5, <1>6, <1>7, <1>8, <1>9, <1>10, <1>11, <1>12, <1>13,
     <1>14, <1>15, <1>16 DEF DaemonStep, DaemonWorks

\* The inductive invariant behind TypeCorrect.
LEMMA TypeInvariance == Spec => []TypeInv
<1>1. Init => TypeInv
  <2> SUFFICES ASSUME Init PROVE TypeInv
    OBVIOUS
  <2> USE DEF Init, TypeInv, TypeOK
  <2>1. SharedTypeOK
    BY DEF SharedInit, SharedTypeOK, Row, WorkloadStatus
  <2>2. ClientTypeOK /\ ClientKnows
    BY ReturnedType DEF ClientInit, ClientTypeOK, ClientKnows
  <2>3. Off \in DaemonState /\ KnowsJob(Off)
    BY DEF Off, DaemonState, KnowsJob, Working
  <2>4. DaemonTypeOK /\ DaemonKnows
    BY <2>3 DEF DaemonInit, DaemonTypeOK, DaemonKnows
  <2> QED
    BY <2>1, <2>2, <2>4
<1>2. TypeInv /\ [Next]_vars => TypeInv'
  <2> SUFFICES ASSUME TypeInv, [Next]_vars PROVE TypeInv'
    OBVIOUS
  <2>1. CASE \E c \in Client : ClientStep(c) /\ UNCHANGED daemon
    BY <2>1, ClientPreservesTypes
  <2>2. CASE HostCommand /\ UNCHANGED daemon
    BY <2>2, DaemonKnowsStable DEF HostCommand, SetDaemonStatus, TypeInv, TypeOK, JobsStay,
         SharedTypeOK, ClientTypeOK, ClientKnows, DaemonTypeOK
  <2>3. CASE \E d \in Daemon : DaemonStep(d) /\ UNCHANGED clientVars
    BY <2>3, DaemonPreservesTypes
  <2>4. CASE ContainerDies /\ UNCHANGED <<clientVars, daemon>>
    BY <2>4, DaemonKnowsStable, StopContainerType DEF ContainerDies, TypeInv, TypeOK, JobsStay,
         SharedTypeOK, ClientTypeOK, ClientKnows, DaemonTypeOK, clientVars, dbVars
  <2>5. CASE UNCHANGED vars
    BY <2>5, DaemonKnowsStable DEF vars, TypeInv, TypeOK, JobsStay, SharedTypeOK,
         ClientTypeOK, ClientKnows, DaemonTypeOK, sharedVars, dbVars
  <2> QED
    BY <2>1, <2>2, <2>3, <2>4, <2>5 DEF Next
<1> QED
  BY <1>1, <1>2, PTL DEF Spec

\* The types hold in every reachable state: no table, client or daemon ever
\* holds a value of the wrong kind, and a host id in a workload's row always
\* names a row of hosts.
THEOREM TypeCorrect == Spec => []TypeOK
<1>1. TypeInv => TypeOK
  BY DEF TypeInv
<1> QED
  BY <1>1, TypeInvariance, PTL

================================================================================
