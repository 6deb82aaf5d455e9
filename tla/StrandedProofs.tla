----------------------------- MODULE StrandedProofs -----------------------------
(***************************************************************************)
(* No workload is stranded, provided that callers finish their calls and   *)
(* daemons do not die, for every number of callers, daemons, hosts and     *)
(* workloads, whatever else fails and however the calls interleave.        *)
(***************************************************************************)
EXTENDS HiveVMProofs

\* A job a daemon holds has left the queue, so that concluding it takes
\* nobody's pending job away.
JobHeld(r) == r.pc \in Working \cup {"done"} => assignments[r.job].status # "pending"
JobsHeld == \A d \in Daemon : JobHeld(daemon[d])

AttendedInv == JobsHeld /\ NoStrandedWorkload

--------------------------------------------------------------------------------
(* Steps of the clients *)

\* A row becomes assigned only by a client that is about to enqueue its job.
AssignsOnlyToEnqueue(c) ==
    \A w \in Workload :
        workloads'[w].status = "assigned" =>
            \/ workloads[w].status = "assigned"
            \/ client'[c].pc = "enqueue" /\ client'[c].w = w

OthersWait(c) == \A x \in Client \ {c} : client'[x] = client[x]

\* Client c writes no assignment.
ClientWorks(c) ==
    /\ \E w \in Workload : Spawn(c, w) \/ Sleep(c, w) \/ Wake(c, w)
                           \/ Checkpoint(c, w) \/ Migrate(c, w)
    \/ AssignWorkload(c) \/ MarkAssigned(c)
    \/ Snapshot(c) \/ SaveCheckpoint(c) \/ SaveCheckpointFails(c)
    \/ MigrateStop(c) \/ MigratePlace(c) \/ MigrateMark(c) \/ MigrateRequeue(c)

LEMMA BeginEffect ==
    ASSUME ClientTypeOK, NEW c \in Client, NEW op, NEW w, NEW r, Begin(c, op, w, r)
    PROVE  client[c].pc = "idle" /\ OthersWait(c)
  BY DEF Begin, OthersWait, ClientTypeOK

LEMMA ClientWorksEffect ==
    ASSUME TypeInv, NEW c \in Client, ClientWorks(c)
    PROVE  /\ client[c].pc # "enqueue"
           /\ OthersWait(c)
           /\ UNCHANGED assignments
           /\ AssignsOnlyToEnqueue(c)
<1> USE DEF TypeInv, TypeOK
<1>a. workloads \in [Workload -> Row]
  BY DEF SharedTypeOK
<1>b. client \in [Client -> ClientState]
  BY DEF ClientTypeOK
<1>c. client[c].pc # "idle" => client[c].w \in Workload
  BY DEF ClientKnows, KnowsCall
<1>d. UNCHANGED workloads => AssignsOnlyToEnqueue(c)
  BY DEF AssignsOnlyToEnqueue
<1>e. \A pc : Goto(c, pc) \/ Return(c) => OthersWait(c)
  BY <1>b DEF Goto, Return, OthersWait
<1>1. ASSUME NEW w \in Workload, Spawn(c, w)
      PROVE  client[c].pc # "enqueue" /\ OthersWait(c) /\ AssignsOnlyToEnqueue(c)
  <2>1. client[c].pc = "idle" /\ OthersWait(c)
    BY <1>1, BeginEffect DEF Spawn
  <2>2. \A v \in Workload : workloads'[v].status = "assigned" => workloads[v].status = "assigned"
    BY <1>1, <1>a DEF Spawn, Row
  <2> QED
    BY <2>1, <2>2 DEF AssignsOnlyToEnqueue
<1>2. ASSUME NEW w \in Workload, Sleep(c, w) \/ Wake(c, w) \/ Checkpoint(c, w) \/ Migrate(c, w)
      PROVE  client[c].pc # "enqueue" /\ OthersWait(c) /\ UNCHANGED sharedVars
  <2>1. \E op, r : Begin(c, op, w, r)
    BY <1>2 DEF Sleep, Wake, Checkpoint, Migrate
  <2> QED
    BY <1>2, <2>1, BeginEffect DEF Sleep, Wake, Checkpoint, Migrate
<1>3. ASSUME AssignWorkload(c) \/ MarkAssigned(c)
      PROVE  client[c].pc # "enqueue" /\ OthersWait(c) /\ AssignsOnlyToEnqueue(c)
  <2>1. client[c].pc # "enqueue" /\ Goto(c, "enqueue")
    BY <1>3 DEF AssignWorkload, MarkAssigned
  <2>2. client'[c].pc = "enqueue" /\ client'[c].w = client[c].w
    BY <2>1, <1>b DEF Goto, ClientState
  <2>3. \A v \in Workload : v # client[c].w => workloads'[v] = workloads[v]
    BY <1>3, <1>a DEF AssignWorkload, MarkAssigned
  <2> QED
    BY <2>1, <2>2, <2>3, <1>e DEF AssignsOnlyToEnqueue
<1>4. ASSUME Snapshot(c) \/ MigrateStop(c)
      PROVE  client[c].pc # "enqueue" /\ OthersWait(c) /\ UNCHANGED dbVars
  BY <1>4, <1>e DEF Snapshot, MigrateStop
<1>5. ASSUME SaveCheckpoint(c) \/ SaveCheckpointFails(c)
      PROVE  client[c].pc # "enqueue" /\ OthersWait(c) /\ AssignsOnlyToEnqueue(c)
  <2>1. client[c].pc # "enqueue" /\ OthersWait(c)
    BY <1>5, <1>b, <1>e DEF SaveCheckpoint, SaveCheckpointFails, OthersWait
  <2>2. \A v \in Workload : workloads'[v].status = workloads[v].status
    BY <1>5, <1>a DEF SaveCheckpoint, SaveCheckpointFails, SetCheckpoint, Row
  <2> QED
    BY <2>1, <2>2 DEF AssignsOnlyToEnqueue
<1>6. ASSUME MigratePlace(c)
      PROVE  client[c].pc # "enqueue" /\ OthersWait(c) /\ UNCHANGED sharedVars
  BY <1>6, <1>b, <1>e DEF MigratePlace, OthersWait
<1>7. ASSUME MigrateMark(c)
      PROVE  client[c].pc # "enqueue" /\ OthersWait(c) /\ AssignsOnlyToEnqueue(c)
  <2>1. \A v \in Workload : workloads'[v].status = "assigned" => workloads[v].status = "assigned"
    BY <1>7, <1>a DEF MigrateMark, MarkMigrating, Row
  <2> QED
    BY <1>7, <2>1, <1>e DEF MigrateMark, AssignsOnlyToEnqueue
<1>8. ASSUME MigrateRequeue(c)
      PROVE  client[c].pc # "enqueue" /\ OthersWait(c) /\ AssignsOnlyToEnqueue(c)
  <2>1. CASE client[c].to \in Host
    <3> DEFINE op == IF client[c].ckpt = 0 THEN "start" ELSE "restore"
               r == [client[c] EXCEPT !.pc = "enqueue", !.op = op]
    <3>0. client' = [client EXCEPT ![c] = r]
      BY <1>8, <2>1 DEF MigrateRequeue
    <3> HIDE DEF op
    <3>1. client'[c].pc = "enqueue" /\ client'[c].w = client[c].w /\ OthersWait(c)
      BY <1>b, <3>0 DEF ClientState, OthersWait
    <3>2. \A v \in Workload : v # client[c].w => workloads'[v] = workloads[v]
      BY <1>8, <1>a, <2>1 DEF MigrateRequeue, RequeueOnHost
    <3> QED
      BY <1>8, <3>1, <3>2 DEF MigrateRequeue, AssignsOnlyToEnqueue
  <2>2. CASE client[c].to \notin Host
    BY <1>8, <1>d, <1>e, <2>2 DEF MigrateRequeue
  <2> QED
    BY <2>1, <2>2
<1>9. UNCHANGED assignments
  BY DEF ClientWorks, Spawn, Sleep, Wake, Checkpoint, Migrate, AssignWorkload, MarkAssigned,
         Snapshot, SaveCheckpoint, SaveCheckpointFails, MigrateStop, MigratePlace,
         MigrateMark, MigrateRequeue, sharedVars, dbVars
<1> QED
  BY <1>d, <1>1, <1>2, <1>3, <1>4, <1>5, <1>6, <1>7, <1>8, <1>9
     DEF ClientWorks, sharedVars, dbVars

LEMMA ClientKeepsAttended ==
    ASSUME TypeInv, AttendedInv, "abort" \notin Faults,
           NEW c \in Client, ClientStep(c), UNCHANGED daemon
    PROVE  AttendedInv'
<1> USE DEF TypeInv, TypeOK
<1>1. CASE ClientWorks(c)
  <2>1. /\ client[c].pc # "enqueue"
        /\ OthersWait(c)
        /\ UNCHANGED assignments
        /\ AssignsOnlyToEnqueue(c)
    BY <1>1, ClientWorksEffect
  <2>2. JobsHeld'
    BY <2>1 DEF AttendedInv, JobsHeld, JobHeld
  <2>3. ASSUME NEW w \in Workload, workloads'[w].status = "assigned"
        PROVE  Attended(w)'
    <3>1. CASE client'[c].pc = "enqueue" /\ client'[c].w = w
      BY <3>1 DEF Attended
    <3>2. CASE workloads[w].status = "assigned"
      <4>1. Attended(w)
        BY <3>2 DEF AttendedInv, NoStrandedWorkload
      <4> QED
        BY <2>1, <4>1 DEF Attended, WorkedOn, OthersWait
    <3> QED
      BY <2>1, <2>3, <3>1, <3>2 DEF AssignsOnlyToEnqueue
  <2> QED
    BY <2>2, <2>3 DEF AttendedInv, NoStrandedWorkload
<1>2. CASE Enqueue(c)
  <2>1. client[c].w \in Workload /\ client[c].to \in Host /\ client[c].op \in Action
    BY <1>2 DEF Enqueue, ClientKnows, KnowsCall
  <2> DEFINE last == Len(assignments')
  <2>2a. /\ \A j \in DOMAIN assignments :
               j \in DOMAIN assignments' /\ assignments'[j] = assignments[j]
         /\ assignments' \in Seq(Assignment) /\ last = Len(assignments) + 1
         /\ \E t \in Second :
               assignments'[last] = [workload |-> client[c].w, host |-> client[c].to,
                                     action |-> client[c].op, status |-> "pending",
                                     assignedAt |-> t]
    BY <1>2, <2>1, CreateAssignmentEffect DEF Enqueue, SharedTypeOK
  <2>2b. last \in DOMAIN assignments'
    BY <2>2a DEF SharedTypeOK
  <2> HIDE DEF last
  <2>2. /\ \A j \in DOMAIN assignments :
              j \in DOMAIN assignments' /\ assignments'[j] = assignments[j]
        /\ last \in DOMAIN assignments'
        /\ assignments'[last].workload = client[c].w
        /\ assignments'[last].status = "pending"
    BY <2>2a, <2>2b
  <2>3. JobsHeld'
    BY <2>2 DEF AttendedInv, JobsHeld, JobHeld, DaemonKnows, KnowsJob
  <2>4. OthersWait(c) /\ UNCHANGED workloads
    BY <1>2 DEF Enqueue, Return, OthersWait, ClientTypeOK
  <2>5. ASSUME NEW w \in Workload, workloads'[w].status = "assigned"
        PROVE  Attended(w)'
    <3>1. Attended(w)
      BY <2>4, <2>5 DEF AttendedInv, NoStrandedWorkload
    <3>2. CASE client[c].w = w
      BY <2>2, <3>2 DEF Attended
    <3>3. CASE \E i \in DOMAIN assignments :
                  assignments[i].workload = w /\ assignments[i].status = "pending"
      BY <2>2, <3>3 DEF Attended
    <3>4. CASE WorkedOn(w)
      BY <3>4 DEF Attended, WorkedOn
    <3>5. CASE \E x \in Client \ {c} : client[x].pc = "enqueue" /\ client[x].w = w
      BY <2>4, <3>5 DEF Attended, OthersWait
    <3> QED
      BY <3>1, <3>2, <3>3, <3>4, <3>5 DEF Attended
  <2> QED
    BY <2>3, <2>5 DEF AttendedInv, NoStrandedWorkload
<1>3. ~ClientAborts(c)
  BY DEF ClientAborts
<1> QED
  BY <1>1, <1>2, <1>3 DEF ClientStep, ClientBegins, ClientContinues, ClientWorks

--------------------------------------------------------------------------------
(* Steps of the daemons *)

\* No row becomes assigned.
AssignsNothing ==
    \A w \in Workload : workloads'[w].status = "assigned" => workloads[w].status = "assigned"

\* Daemon d goes on with its workload, or has written that it is no longer
\* assigned.
FinishesWork(d) ==
    daemon[d].pc \in Working =>
        \/ daemon'[d].pc \in Working /\ daemon'[d].w = daemon[d].w
        \/ workloads'[daemon[d].w].status # "assigned"

\* The pending jobs remain, but for one that daemon d takes.
TakesToWork(d) ==
    \A i \in DOMAIN assignments :
        assignments[i].status = "pending" =>
            \/ /\ i \in DOMAIN assignments'
               /\ assignments'[i].workload = assignments[i].workload
               /\ assignments'[i].status = "pending"
            \/ daemon'[d].pc \in Working /\ daemon'[d].w = assignments[i].workload

NothingPosted ==
    \A i \in DOMAIN assignments :
        i \in DOMAIN assignments' /\ (assignments'[i].status = "pending" =>
                                        assignments[i].status = "pending")

Handles(d) ==
    /\ AssignsNothing
    /\ FinishesWork(d)
    /\ TakesToWork(d)
    /\ NothingPosted
    /\ JobHeld(daemon[d])'
    /\ \A x \in Daemon \ {d} : daemon'[x] = daemon[x]

\* A step that leaves the assignments alone and stays with its job.
LEMMA KeepsJob ==
    ASSUME TypeInv, JobsHeld, NEW d \in Daemon, UNCHANGED assignments, AssignsNothing,
           NEW r \in DaemonState, daemon' = [daemon EXCEPT ![d] = r],
           r.pc \in Working \cup {"done"} =>
               daemon[d].pc \in Working \cup {"done"} /\ r.job = daemon[d].job,
           daemon[d].pc \in Working =>
               \/ r.pc \in Working /\ r.w = daemon[d].w
               \/ workloads'[daemon[d].w].status # "assigned"
    PROVE  Handles(d)
<1>1. daemon'[d] = r /\ \A x \in Daemon \ {d} : daemon'[x] = daemon[x]
  BY DEF TypeInv, TypeOK, DaemonTypeOK
<1>2. JobHeld(daemon[d])'
  BY <1>1 DEF JobsHeld, JobHeld
<1>3. TakesToWork(d) /\ NothingPosted
  BY DEF TakesToWork, NothingPosted
<1> QED
  BY <1>1, <1>2, <1>3 DEF Handles, FinishesWork

\* What marking a workload running, sleeping or failed does to the statuses.
LEMMA OutcomeEffect ==
    ASSUME workloads \in [Workload -> Row], NEW w \in Workload, NEW rt \in Nat,
           MarkRunning(w, rt) \/ MarkSleeping(w) \/ MarkFailed(w)
    PROVE  AssignsNothing /\ workloads'[w].status # "assigned"
<1>1. CASE MarkRunning(w, rt)
  BY <1>1 DEF MarkRunning, AssignsNothing, Row
<1>2. CASE MarkSleeping(w)
  BY <1>2 DEF MarkSleeping, AssignsNothing, Row
<1>3. CASE MarkFailed(w)
  BY <1>3 DEF MarkFailed, AssignsNothing, Row
<1> QED
  BY <1>1, <1>2, <1>3

LEMMA DaemonHandles ==
    ASSUME TypeInv, JobsHeld, "crash" \notin Faults, NEW d \in Daemon, DaemonStep(d)
    PROVE  Handles(d)
<1> USE DEF TypeInv, TypeOK
<1>a. workloads \in [Workload -> Row] /\ assignments \in Seq(Assignment)
  BY DEF SharedTypeOK
<1>b. daemon[d] \in DaemonState /\ KnowsJob(daemon[d]) /\ JobHeld(daemon[d])
  BY DEF DaemonTypeOK, DaemonKnows, JobsHeld
<1>c. \A i \in DOMAIN assignments : assignments[i] \in Assignment
  BY <1>a, ElementOfSeq
<1>d. daemon[d].pc \in Working \cup {"condemn"} => daemon[d].w \in Workload
  BY <1>b, <1>c DEF KnowsJob, Assignment
<1>e. UNCHANGED workloads => AssignsNothing
  BY DEF AssignsNothing
<1>f. ASSUME NEW pc \in {"off", "idle", "next", "inspect", "launch", "running", "stop",
                        "sleeping", "done", "fail", "failed", "sweep"},
             Continue(d, pc), UNCHANGED assignments, AssignsNothing,
             pc \in Working \cup {"done"} => daemon[d].pc \in Working \cup {"done"},
             daemon[d].pc \in Working =>
                 pc \in Working \/ workloads'[daemon[d].w].status # "assigned"
      PROVE  Handles(d)
  <2> DEFINE r == [daemon[d] EXCEPT !.pc = pc]
  <2>1. r \in DaemonState /\ r.pc = pc /\ r.job = daemon[d].job /\ r.w = daemon[d].w
    BY <1>b DEF DaemonState
  <2>2. daemon' = [daemon EXCEPT ![d] = r]
    BY <1>f DEF Continue
  <2> HIDE DEF r
  <2> QED
    BY <1>f, <2>1, <2>2, KeepsJob
<1>g. ASSUME NextAssignment(d), UNCHANGED assignments, AssignsNothing,
             daemon[d].pc \in Working => workloads'[daemon[d].w].status # "assigned"
      PROVE  Handles(d)
  <2> DEFINE r == [daemon[d] EXCEPT !.pc = "next", !.job = 0, !.w = NoWorkload, !.rt = 0]
  <2>1. r \in DaemonState /\ r.pc \notin Working \cup {"done"}
    BY <1>b DEF DaemonState, Working
  <2>2. daemon' = [daemon EXCEPT ![d] = r]
    BY <1>g DEF NextAssignment
  <2> HIDE DEF r
  <2> QED
    BY <1>g, <2>1, <2>2, KeepsJob
<1>h. StatementThrows(d) /\ daemon[d].pc \in Working => Handles(d)
  BY <1>e, <1>f DEF StatementThrows, Working, sharedVars, dbVars
<1>1. ASSUME StartDaemon(d) \/ StopDaemon(d) \/ EndLoop(d)
      PROVE  Handles(d)
  BY <1>1, <1>e, <1>f DEF StartDaemon, StopDaemon, EndLoop, At, Working, sharedVars, dbVars
<1>2. ASSUME RunOnce(d)
      PROVE  Handles(d)
  <2>0. PICK batch \in NextPendingForHost(Serves[d]) :
           daemon' = [daemon EXCEPT ![d] = [daemon[d] EXCEPT !.pc = "next", !.batch = batch]]
    BY <1>2 DEF RunOnce
  <2> DEFINE r == [daemon[d] EXCEPT !.pc = "next", !.batch = batch]
  <2>1. batch \subseteq Nat
    BY <1>a, BatchType
  <2>2. daemon' = [daemon EXCEPT ![d] = r]
    BY <2>0
  <2>3. r \in DaemonState /\ r.pc \notin Working \cup {"done"}
    BY <1>b, <2>1 DEF DaemonState, Working
  <2>4. daemon[d].pc \notin Working
    BY <1>2 DEF RunOnce, At, Working
  <2> HIDE DEF r
  <2> QED
    BY <1>2, <1>e, <2>2, <2>3, <2>4, KeepsJob DEF RunOnce, sharedVars, dbVars
<1>3. ASSUME Claim(d)
      PROVE  Handles(d)
  <2>1. PICK i \in daemon[d].batch :
           /\ SetAssignment(i, "processing")
           /\ daemon' = [daemon EXCEPT ![d] =
                 [daemon[d] EXCEPT !.pc = Dispatch(d, assignments[i].action,
                                                   workloads[assignments[i].workload]),
                                   !.batch = daemon[d].batch \ {i}, !.job = i,
                                   !.w = assignments[i].workload,
                                   !.rt = workloads[assignments[i].workload].runtimeId]]
    BY <1>3 DEF Claim
  <2>2. i \in DOMAIN assignments
    BY <1>b DEF KnowsJob
  <2> DEFINE w == assignments[i].workload
             pc == Dispatch(d, assignments[i].action, workloads[w])
             rt == workloads[w].runtimeId
             r == [daemon[d] EXCEPT !.pc = pc, !.batch = daemon[d].batch \ {i},
                                     !.job = i, !.w = w, !.rt = rt]
  <2>3. pc \in Working
    BY DispatchType DEF Working
  <2>4. daemon' = [daemon EXCEPT ![d] = r]
    BY <2>1
  <2> HIDE DEF pc, rt
  <2>5. r.pc = pc /\ r.w = w /\ r.job = i
    BY <1>b DEF DaemonState
  <2> HIDE DEF r
  <2>6. daemon'[d] = r /\ \A x \in Daemon \ {d} : daemon'[x] = daemon[x]
    BY <2>4 DEF DaemonTypeOK
  <2>7. /\ DOMAIN assignments' = DOMAIN assignments
        /\ \A j \in DOMAIN assignments :
              /\ assignments'[j].workload = assignments[j].workload
              /\ assignments'[j].status = IF j = i THEN "processing" ELSE assignments[j].status
    BY <1>a, <2>1, SetAssignmentEffect DEF AssignmentStatus
  <2>8. TakesToWork(d) /\ NothingPosted
    BY <2>3, <2>5, <2>6, <2>7 DEF TakesToWork, NothingPosted
  <2>9. JobHeld(daemon[d])'
    BY <2>2, <2>5, <2>6, <2>7 DEF JobHeld
  <2>10. FinishesWork(d) /\ AssignsNothing
    BY <1>3, <1>e DEF FinishesWork, Claim, At, Working
  <2> QED
    BY <2>6, <2>8, <2>9, <2>10 DEF Handles
<1>4. ASSUME InspectOld(d)
      PROVE  Handles(d)
  <2>1. \E pc \in {"running", "launch", "sleeping", "stop", "fail", "inspect"} : Continue(d, pc)
    BY <1>4, DispatchType DEF InspectOld
  <2> QED
    BY <1>4, <1>e, <1>f, <2>1 DEF InspectOld, At, Working, sharedVars, dbVars
<1>5. ASSUME Launch(d)
      PROVE  Handles(d)
  <2>1. CASE Continue(d, "fail")
    BY <1>5, <1>e, <1>f, <2>1 DEF Launch, At, Working, dbVars
  <2>2. CASE ~Continue(d, "fail")
    <3> DEFINE r == [daemon[d] EXCEPT !.pc = "running", !.rt = Len(containers) + 1]
    <3>1. daemon' = [daemon EXCEPT ![d] = r]
      BY <1>5, <2>2 DEF Launch
    <3>2. Len(containers) + 1 \in Nat
      BY DEF SharedTypeOK
    <3>3. r \in DaemonState /\ r.pc = "running" /\ r.job = daemon[d].job /\ r.w = daemon[d].w
      BY <1>b, <3>2 DEF DaemonState
    <3> HIDE DEF r
    <3> QED
      BY <1>5, <1>e, <3>1, <3>3, KeepsJob DEF Launch, At, Working, dbVars
  <2> QED
    BY <2>1, <2>2
<1>6. ASSUME Launched(d)
      PROVE  Handles(d)
  <2>1. CASE StatementThrows(d)
    BY <1>6, <1>h, <2>1 DEF Launched, At, Working
  <2>2. CASE ~StatementThrows(d)
    <3>1. daemon[d].w \in Workload /\ daemon[d].rt \in Nat
      BY <1>6, <1>b, <1>d DEF Launched, At, Working, DaemonState
    <3>2. AssignsNothing /\ workloads'[daemon[d].w].status # "assigned"
      BY <1>6, <1>a, <2>2, <3>1, OutcomeEffect DEF Launched
    <3> QED
      BY <1>6, <1>f, <2>2, <3>2 DEF Launched, At, Working
  <2> QED
    BY <2>1, <2>2
<1>7. ASSUME StopRuntime(d)
      PROVE  Handles(d)
  BY <1>7, <1>e, <1>f DEF StopRuntime, At, Working, dbVars
<1>8. ASSUME Stopped(d)
      PROVE  Handles(d)
  <2>1. CASE StatementThrows(d)
    BY <1>8, <1>h, <2>1 DEF Stopped, At, Working
  <2>2. CASE ~StatementThrows(d)
    <3>1. daemon[d].w \in Workload /\ daemon[d].rt \in Nat
      BY <1>8, <1>b, <1>d DEF Stopped, At, Working, DaemonState
    <3>2. AssignsNothing /\ workloads'[daemon[d].w].status # "assigned"
      BY <1>8, <1>a, <2>2, <3>1, OutcomeEffect DEF Stopped
    <3> QED
      BY <1>8, <1>f, <2>2, <3>2 DEF Stopped, At, Working
  <2> QED
    BY <2>1, <2>2
<1>i. ASSUME NEW s \in AssignmentStatus \ {"pending"}, SetAssignment(daemon[d].job, s),
             daemon[d].pc \in Working \cup {"done"}
      PROVE  /\ TakesToWork(d)
             /\ NothingPosted
             /\ assignments'[daemon[d].job].status # "pending"
  <2>1. /\ DOMAIN assignments' = DOMAIN assignments
        /\ \A j \in DOMAIN assignments :
              /\ assignments'[j].workload = assignments[j].workload
              /\ assignments'[j].status = IF j = daemon[d].job THEN s ELSE assignments[j].status
    BY <1>a, <1>i, SetAssignmentEffect
  <2>2. daemon[d].job \in DOMAIN assignments /\ assignments[daemon[d].job].status # "pending"
    BY <1>b, <1>i DEF KnowsJob, JobHeld
  <2> QED
    BY <1>i, <2>1, <2>2 DEF TakesToWork, NothingPosted
<1>9. ASSUME Complete(d)
      PROVE  Handles(d)
  <2>1. CASE UNCHANGED assignments /\ Continue(d, "fail")
    BY <1>9, <1>e, <1>f, <2>1 DEF Complete, At, Working
  <2>2. CASE SetAssignment(daemon[d].job, "completed")
    <3>1. /\ TakesToWork(d)
          /\ NothingPosted
          /\ assignments'[daemon[d].job].status # "pending"
      BY <1>9, <1>i, <2>2 DEF Complete, At, AssignmentStatus
    <3>2. \A x \in Daemon \ {d} : daemon'[x] = daemon[x]
      BY <1>9 DEF Complete, NextAssignment, Continue, DaemonTypeOK
    <3>3. \/ daemon'[d].pc = "next"
          \/ daemon'[d].job = daemon[d].job
      BY <1>9, <1>b DEF Complete, NextAssignment, Continue, DaemonTypeOK, DaemonState
    <3>4. JobHeld(daemon[d])'
      BY <3>1, <3>3 DEF JobHeld, Working
    <3> QED
      BY <1>9, <1>e, <3>1, <3>2, <3>4 DEF Complete, At, Handles, FinishesWork, Working
  <2> QED
    BY <1>9, <2>1, <2>2 DEF Complete
<1>10. ASSUME FailAssignment(d)
       PROVE  Handles(d)
  <2>1. /\ TakesToWork(d)
        /\ NothingPosted
        /\ assignments'[daemon[d].job].status # "pending"
    BY <1>10, <1>i DEF FailAssignment, At, Working, AssignmentStatus
  <2>2. /\ \A x \in Daemon \ {d} : daemon'[x] = daemon[x]
        /\ daemon'[d].pc = "failed" /\ daemon'[d].w = daemon[d].w
        /\ daemon'[d].job = daemon[d].job
    BY <1>10, <1>b DEF FailAssignment, Continue, DaemonTypeOK, DaemonState
  <2> QED
    BY <1>10, <1>e, <2>1, <2>2 DEF FailAssignment, Handles, FinishesWork, JobHeld, Working
<1>11. ASSUME FailWorkload(d)
       PROVE  Handles(d)
  <2>1. daemon[d].w \in Workload
    BY <1>11, <1>d DEF FailWorkload, At, Working
  <2>2. AssignsNothing /\ workloads'[daemon[d].w].status # "assigned"
    BY <1>11, <1>a, <2>1, OutcomeEffect DEF FailWorkload
  <2> QED
    BY <1>11, <1>g, <2>2 DEF FailWorkload
<1>12. ASSUME CollectMetering(d)
       PROVE  Handles(d)
  <2> DEFINE sweep == Metered(Serves[d])
             r == [daemon[d] EXCEPT !.pc = "sweep", !.sweep = sweep]
  <2>1. sweep \in SUBSET (Workload \X Nat)
    BY <1>a DEF Metered, Row
  <2>2. daemon' = [daemon EXCEPT ![d] = r]
    BY <1>12 DEF CollectMetering
  <2> HIDE DEF sweep
  <2>3. r \in DaemonState /\ r.pc \notin Working \cup {"done"}
    BY <1>b, <2>1 DEF DaemonState, Working
  <2>4. daemon[d].pc \notin Working
    BY <1>12 DEF CollectMetering, At, Working
  <2> HIDE DEF r
  <2> QED
    BY <1>12, <1>e, <2>2, <2>3, <2>4, KeepsJob DEF CollectMetering, sharedVars, dbVars
<1>13. ASSUME Meter(d)
       PROVE  Handles(d)
  <2>1. daemon[d].pc = "sweep" /\ UNCHANGED <<workloads, assignments>>
    BY <1>13 DEF Meter, At
  <2>2. /\ daemon'[d].pc \in {"sweep", "condemn"}
        /\ \A x \in Daemon \ {d} : daemon'[x] = daemon[x]
    <3> DEFINE Answered(row, answer) ==
                 [daemon[d] EXCEPT !.sweep = daemon[d].sweep \ {row},
                                   !.pc = IF answer = "running" THEN "sweep" ELSE "condemn",
                                   !.w = IF answer = "running" THEN NoWorkload ELSE row[1]]
    <3>1. \E row, answer : daemon' = [daemon EXCEPT ![d] = Answered(row, answer)]
      BY <1>13 DEF Meter
    <3>2. \A row, answer : Answered(row, answer).pc \in {"sweep", "condemn"}
      BY <1>b DEF DaemonState
    <3> HIDE DEF Answered
    <3> QED
      BY <3>1, <3>2 DEF DaemonTypeOK
  <2>3. TakesToWork(d) /\ NothingPosted
    BY <2>1 DEF TakesToWork, NothingPosted
  <2> QED
    BY <1>e, <2>1, <2>2, <2>3 DEF Handles, FinishesWork, JobHeld, Working
<1>14. ASSUME Condemn(d)
       PROVE  Handles(d)
  <2>1. daemon[d].w \in Workload
    BY <1>14, <1>d DEF Condemn, At
  <2>2. AssignsNothing
    BY <1>14, <1>a, <2>1, OutcomeEffect DEF Condemn
  <2> DEFINE r == [daemon[d] EXCEPT !.pc = "sweep", !.w = NoWorkload]
  <2>3. r \in DaemonState /\ r.pc \notin Working \cup {"done"}
    BY <1>b DEF DaemonState, Working
  <2>4. daemon' = [daemon EXCEPT ![d] = r]
    BY <1>14 DEF Condemn
  <2> HIDE DEF r
  <2> QED
    BY <1>14, <2>2, <2>3, <2>4, KeepsJob DEF Condemn, At, Working
<1>15. ~CrashDaemon(d)
  BY DEF CrashDaemon
<1> QED
  BY <1>1, <1>2, <1>3, <1>4, <1>5, <1>6, <1>7, <1>8, <1>9, <1>10, <1>11, <1>12, <1>13,
     <1>14, <1>15 DEF DaemonStep, DaemonWorks

LEMMA DaemonKeepsAttended ==
    ASSUME TypeInv, AttendedInv, "crash" \notin Faults,
           NEW d \in Daemon, DaemonStep(d), UNCHANGED clientVars
    PROVE  AttendedInv'
<1>1. Handles(d)
  BY DaemonHandles DEF AttendedInv
<1>2. JobsHeld'
  <2>1. ASSUME NEW x \in Daemon \ {d}
        PROVE  JobHeld(daemon[x])'
    BY <1>1, <2>1 DEF AttendedInv, Handles, NothingPosted, JobsHeld, JobHeld,
         TypeInv, DaemonKnows, KnowsJob
  <2> QED
    BY <1>1, <2>1 DEF Handles, JobsHeld
<1>3. ASSUME NEW w \in Workload, workloads'[w].status = "assigned"
      PROVE  Attended(w)'
  <2>1. Attended(w)
    BY <1>1, <1>3 DEF Handles, AssignsNothing, AttendedInv, NoStrandedWorkload
  <2>2. CASE \E c \in Client : client[c].pc = "enqueue" /\ client[c].w = w
    BY <2>2 DEF Attended, clientVars
  <2>3. CASE \E i \in DOMAIN assignments :
                assignments[i].workload = w /\ assignments[i].status = "pending"
    BY <1>1, <2>3 DEF Handles, TakesToWork, Attended, WorkedOn
  <2>4. CASE \E x \in Daemon : daemon[x].w = w /\ daemon[x].pc \in Working
    BY <1>1, <1>3, <2>4 DEF Handles, FinishesWork, Attended, WorkedOn
  <2> QED
    BY <2>1, <2>2, <2>3, <2>4 DEF Attended, WorkedOn
<1> QED
  BY <1>2, <1>3 DEF AttendedInv, NoStrandedWorkload

--------------------------------------------------------------------------------

\* Whatever else fails and however calls and daemons interleave, a workload
\* that is assigned has a job on its way: the statements of spawn, sleep, wake
\* and requeueOnHost, the batch and the catch block of runOnce lose none.
THEOREM NoStranded ==
    ASSUME "abort" \notin Faults, "crash" \notin Faults
    PROVE  Spec => []NoStrandedWorkload
<1>1. Init => AttendedInv
  BY DEF Init, SharedInit, DaemonInit, Off, Working, AttendedInv, JobsHeld, JobHeld,
         NoStrandedWorkload
<1>2. TypeInv /\ AttendedInv /\ [Next]_vars => AttendedInv'
  <2> SUFFICES ASSUME TypeInv, AttendedInv, [Next]_vars PROVE AttendedInv'
    OBVIOUS
  <2>0. ASSUME UNCHANGED <<workloads, assignments, client, daemon>>
        PROVE  AttendedInv'
    BY <2>0 DEF AttendedInv, JobsHeld, JobHeld, NoStrandedWorkload, Attended, WorkedOn
  <2>1. CASE \E c \in Client : ClientStep(c) /\ UNCHANGED daemon
    BY <2>1, ClientKeepsAttended
  <2>2. CASE HostCommand /\ UNCHANGED daemon
    BY <2>0, <2>2 DEF HostCommand, SetDaemonStatus
  <2>3. CASE \E d \in Daemon : DaemonStep(d) /\ UNCHANGED clientVars
    BY <2>3, DaemonKeepsAttended
  <2>4. CASE ContainerDies /\ UNCHANGED <<clientVars, daemon>>
    BY <2>0, <2>4 DEF ContainerDies, clientVars, dbVars
  <2>5. CASE UNCHANGED vars
    BY <2>0, <2>5 DEF vars, sharedVars, dbVars
  <2> QED
    BY <2>1, <2>2, <2>3, <2>4, <2>5 DEF Next
<1>3. AttendedInv => NoStrandedWorkload
  BY DEF AttendedInv
<1> QED
  BY <1>1, <1>2, <1>3, TypeInvariance, PTL DEF Spec

================================================================================
