------------------------------ MODULE QueueProofs -------------------------------
(***************************************************************************)
(* The assignments table implements AssignmentQueue when no two daemons    *)
(* serve the same host, whatever fails, for every number of clients,       *)
(* daemons and assignments and every limit of the batch.                   *)
(***************************************************************************)
EXTENDS HiveVMProofs

\* What the refinement mapping of HiveVM makes of the table.
JobQueue == [i \in DOMAIN assignments |->
                [host |-> assignments[i].host, status |-> assignments[i].status,
                 at |-> assignments[i].assignedAt]]

\* The statuses at which a daemon's job is not concluded yet, or may be failed.
Executing == (Working \cup {"done"}) \ {"failed"}

WaitsFor(h, i) == assignments[i].host = h /\ assignments[i].status = "pending"

\* Job j was posted before job i, and the clock showed it an earlier second.
Older(j, i) == j < i /\ assignments[j].assignedAt < assignments[i].assignedAt

\* The batch holds pending jobs of the daemon's host, and all that are older
\* than one of them.
BatchOf(d, r) ==
    \A i \in r.batch :
        /\ WaitsFor(Serves[d], i)
        /\ \A j \in DOMAIN assignments : Older(j, i) /\ WaitsFor(Serves[d], j) => j \in r.batch

\* A job being executed is one of the daemon's host, claimed and not concluded;
\* at "fail" it may be completed, if it was the bookkeeping that threw.
JobOf(d, r) ==
    r.pc \in Executing =>
        /\ assignments[r.job].host = Serves[d]
        /\ \/ assignments[r.job].status = "processing"
           \/ r.pc = "fail" /\ assignments[r.job].status = "completed"

QueueInv == \A d \in Daemon : BatchOf(d, daemon[d]) /\ JobOf(d, daemon[d])

--------------------------------------------------------------------------------
(* The writes to the table, seen through the mapping *)

QueueJob == [host : Host, status : AssignmentStatus, at : Second]

LEMMA JobQueueType ==
    ASSUME assignments \in Seq(Assignment)
    PROVE  /\ JobQueue \in Seq(QueueJob)
           /\ Len(JobQueue) = Len(assignments)
           /\ DOMAIN JobQueue = DOMAIN assignments
<1>1. \A i \in 1..Len(assignments) : assignments[i] \in Assignment
  BY ElementOfSeq
<1>2. JobQueue \in [1..Len(assignments) -> QueueJob]
  BY <1>1 DEF JobQueue, Assignment, QueueJob
<1> QED
  BY <1>2

LEMMA SetAssignmentMapped ==
    ASSUME assignments \in Seq(Assignment), NEW i \in DOMAIN assignments,
           NEW s \in AssignmentStatus, SetAssignment(i, s)
    PROVE  JobQueue' = [JobQueue EXCEPT ![i].status = s]
<1>1. /\ DOMAIN assignments' = DOMAIN assignments
      /\ \A j \in DOMAIN assignments :
            /\ assignments'[j].host = assignments[j].host
            /\ assignments'[j].assignedAt = assignments[j].assignedAt
            /\ assignments'[j].status = IF j = i THEN s ELSE assignments[j].status
  BY SetAssignmentEffect
<1>2. JobQueue' = [j \in DOMAIN assignments |->
                      [host |-> assignments[j].host,
                       status |-> IF j = i THEN s ELSE assignments[j].status,
                       at |-> assignments[j].assignedAt]]
  BY <1>1 DEF JobQueue
<1> DEFINE e == [host |-> assignments[i].host, status |-> s, at |-> assignments[i].assignedAt]
<1>3. [JobQueue[i] EXCEPT !.status = s] = e
  BY DEF JobQueue
<1>4. [JobQueue EXCEPT ![i].status = s] = [JobQueue EXCEPT ![i] = e]
  BY <1>3
<1> QED
  BY <1>2, <1>4 DEF JobQueue

LEMMA CreateAssignmentMapped ==
    ASSUME assignments \in Seq(Assignment),
           NEW w \in Workload, NEW h \in Host, NEW a \in Action, CreateAssignment(w, h, a)
    PROVE  \E t \in Second :
               JobQueue' = Append(JobQueue, [host |-> h, status |-> "pending", at |-> t])
<1> DEFINE n == Len(assignments)
<1>0. PICK t \in Second :
         assignments'[Len(assignments')] =
            [workload |-> w, host |-> h, action |-> a, status |-> "pending", assignedAt |-> t]
  BY CreateAssignmentEffect
<1> DEFINE e == [host |-> h, status |-> "pending", at |-> t]
<1>1. /\ assignments' \in Seq(Assignment) /\ Len(assignments') = n + 1
      /\ \A j \in 1..n : assignments'[j] = assignments[j]
      /\ assignments'[n + 1].host = h /\ assignments'[n + 1].status = "pending"
      /\ assignments'[n + 1].assignedAt = t
  <2>1. /\ assignments' \in Seq(Assignment) /\ Len(assignments') = n + 1
        /\ \A j \in DOMAIN assignments : assignments'[j] = assignments[j]
    BY CreateAssignmentEffect
  <2>2. assignments'[n + 1] = [workload |-> w, host |-> h, action |-> a, status |-> "pending",
                               assignedAt |-> t]
    BY <1>0, <2>1
  <2> QED
    BY <2>1, <2>2
<1>2. JobQueue \in Seq(QueueJob) /\ Len(JobQueue) = n /\ e \in QueueJob /\ n \in Nat
  BY JobQueueType DEF QueueJob, AssignmentStatus
<1>3. /\ Append(JobQueue, e) \in Seq(QueueJob)
      /\ Len(Append(JobQueue, e)) = n + 1
      /\ \A j \in 1..n : Append(JobQueue, e)[j] = JobQueue[j]
      /\ Append(JobQueue, e)[n + 1] = e
  BY <1>2, AppendProperties
<1>4. JobQueue' \in Seq(QueueJob) /\ Len(JobQueue') = n + 1
  <2>1. \A i \in 1..(n + 1) : assignments'[i] \in Assignment
    BY <1>1, ElementOfSeq
  <2>2. JobQueue' \in [1..(n + 1) -> QueueJob]
    BY <1>1, <2>1 DEF JobQueue, Assignment, QueueJob
  <2> QED
    BY <1>2, <2>2
<1>5. \A j \in 1..n : JobQueue'[j] = JobQueue[j]
  BY <1>1, <1>2 DEF JobQueue
<1>6. JobQueue'[n + 1] = e
  BY <1>1, <1>2 DEF JobQueue
<1> HIDE DEF e
<1>7. \A j \in 1..(n + 1) : JobQueue'[j] = Append(JobQueue, e)[j]
  BY <1>2, <1>3, <1>5, <1>6
<1>8. JobQueue' = Append(JobQueue, e)
  BY <1>3, <1>4, <1>7, SeqEqual
<1> QED
  BY <1>8 DEF e

\* The seconds of two jobs can be compared.
LEMMA SecondsAreNumbers ==
    ASSUME assignments \in Seq(Assignment), NEW i \in DOMAIN assignments
    PROVE  assignments[i].assignedAt \in Nat
<1>1. assignments[i] \in Assignment
  BY ElementOfSeq
<1> QED
  BY <1>1, SecondAssumption DEF Assignment

\* nextPendingForHost reads pending jobs of the host, and with a job all that
\* are older.
LEMMA BatchIsOldest ==
    ASSUME assignments \in Seq(Assignment), NEW h, NEW batch \in NextPendingForHost(h),
           NEW i \in batch, NEW j \in DOMAIN assignments, Older(j, i), WaitsFor(h, j)
    PROVE  j \in batch
<1>1. i \in DOMAIN assignments
  BY BatchType
<1>2. j \in Pending(h)
  BY DEF Pending, WaitsFor
<1>3. j \notin batch => assignments[i].assignedAt <= assignments[j].assignedAt
  BY <1>2 DEF NextPendingForHost
<1>4. assignments[i].assignedAt \in Nat /\ assignments[j].assignedAt \in Nat
  BY <1>1, SecondsAreNumbers
<1> QED
  BY <1>3, <1>4 DEF Older

--------------------------------------------------------------------------------
(* The invariant, step by step *)

\* A client's step leaves the jobs there are alone.
LEMMA ClientKeepsQueueInv ==
    ASSUME TypeInv, QueueInv, UNCHANGED daemon, assignments' \in Seq(Assignment),
           Len(assignments') \in {Len(assignments), Len(assignments) + 1},
           \A j \in DOMAIN assignments : assignments'[j] = assignments[j]
    PROVE  QueueInv'
<1>1. assignments \in Seq(Assignment)
  BY DEF TypeInv, TypeOK, SharedTypeOK
<1>2. \A d \in Daemon : KnowsJob(daemon[d])
  BY DEF TypeInv, DaemonKnows
<1>3. ASSUME NEW d \in Daemon
      PROVE  BatchOf(d, daemon[d])'
  <2> SUFFICES ASSUME NEW i \in daemon[d].batch
               PROVE  /\ WaitsFor(Serves[d], i)'
                      /\ \A j \in DOMAIN assignments' :
                            Older(j, i)' /\ WaitsFor(Serves[d], j)' => j \in daemon[d].batch
    BY DEF BatchOf
  <2>1. i \in 1..Len(assignments) /\ WaitsFor(Serves[d], i)
    BY <1>1, <1>2 DEF KnowsJob, QueueInv, BatchOf
  <2>2. ASSUME NEW j \in DOMAIN assignments', Older(j, i)', WaitsFor(Serves[d], j)'
        PROVE  j \in daemon[d].batch
    <3>1. j \in 1..Len(assignments)
      BY <1>1, <2>1, <2>2 DEF Older
    <3>2. WaitsFor(Serves[d], j) /\ Older(j, i)
      BY <2>1, <2>2, <3>1 DEF WaitsFor, Older
    <3> QED
      BY <3>1, <3>2 DEF QueueInv, BatchOf
  <2> QED
    BY <2>1, <2>2 DEF WaitsFor
<1>4. ASSUME NEW d \in Daemon
      PROVE  JobOf(d, daemon[d])'
  BY <1>2 DEF QueueInv, JobOf, KnowsJob, Executing
<1> QED
  BY <1>3, <1>4 DEF QueueInv

\* A step of daemon d that writes no assignment.
LEMMA DaemonReads ==
    ASSUME TypeInv, QueueInv, UNCHANGED assignments, NEW d \in Daemon, NEW r,
           daemon' = [daemon EXCEPT ![d] = r],
           BatchOf(d, r),
           r.pc \in Executing => /\ r.job = daemon[d].job
                                 /\ daemon[d].pc \in Executing
                                 /\ daemon[d].pc = "fail" => r.pc = "fail"
    PROVE  QueueInv'
<1>1. daemon'[d] = r /\ \A x \in Daemon \ {d} : daemon'[x] = daemon[x]
  BY DEF TypeInv, TypeOK, DaemonTypeOK
<1>2. \A x \in Daemon : BatchOf(x, daemon'[x])
  BY <1>1 DEF QueueInv
<1>3. \A x \in Daemon : JobOf(x, daemon'[x])
  <2>1. JobOf(d, r)
    BY DEF QueueInv, JobOf
  <2> QED
    BY <1>1, <2>1 DEF QueueInv
<1>4. \A x \in Daemon : BatchOf(x, daemon[x])' /\ JobOf(x, daemon[x])'
  BY <1>2, <1>3 DEF BatchOf, JobOf, WaitsFor, Older
<1> QED
  BY <1>4 DEF QueueInv

\* A step of daemon d that takes or concludes a job of its host.
LEMMA DaemonWrites ==
    ASSUME TypeInv, QueueInv, \A x, y \in Daemon : Serves[x] = Serves[y] => x = y,
           NEW d \in Daemon, NEW r, daemon' = [daemon EXCEPT ![d] = r],
           NEW i \in DOMAIN assignments, NEW s \in AssignmentStatus \ {"pending"},
           SetAssignment(i, s), assignments[i].host = Serves[d],
           r.batch = daemon[d].batch \ {i},
           r.pc \in Executing => /\ r.job = i
                                 /\ \/ s = "processing"
                                    \/ r.pc = "fail" /\ s = "completed"
    PROVE  QueueInv'
<1>1. daemon'[d] = r /\ \A x \in Daemon \ {d} : daemon'[x] = daemon[x]
  BY DEF TypeInv, TypeOK, DaemonTypeOK
<1>2. /\ DOMAIN assignments' = DOMAIN assignments
      /\ \A j \in DOMAIN assignments :
            /\ assignments'[j].host = assignments[j].host
            /\ assignments'[j].assignedAt = assignments[j].assignedAt
            /\ assignments'[j].status = IF j = i THEN s ELSE assignments[j].status
  BY SetAssignmentEffect DEF TypeInv, TypeOK, SharedTypeOK
<1>3. \A x \in Daemon : KnowsJob(daemon[x]) /\ BatchOf(x, daemon[x]) /\ JobOf(x, daemon[x])
  BY DEF TypeInv, DaemonKnows, QueueInv
<1>4. /\ \A h : \A j \in DOMAIN assignments : WaitsFor(h, j)' <=> WaitsFor(h, j) /\ j # i
      /\ \A j, k \in DOMAIN assignments : Older(j, k)' <=> Older(j, k)
  BY <1>2 DEF WaitsFor, Older
<1>5. ASSUME NEW x \in Daemon \ {d}
      PROVE  BatchOf(x, daemon[x])' /\ JobOf(x, daemon[x])'
  <2>1. Serves[x] # Serves[d]
    OBVIOUS
  <2>2. i \notin daemon[x].batch /\ (daemon[x].pc \in Executing => daemon[x].job # i)
    BY <1>3, <2>1 DEF BatchOf, WaitsFor, JobOf
  <2>3. BatchOf(x, daemon[x])'
    BY <1>1, <1>2, <1>3, <1>4, <2>2 DEF BatchOf, KnowsJob
  <2>4. JobOf(x, daemon[x])'
    BY <1>1, <1>2, <1>3, <2>2 DEF JobOf, KnowsJob, Executing
  <2> QED
    BY <2>3, <2>4
<1>6. BatchOf(d, daemon[d])'
  BY <1>1, <1>2, <1>3, <1>4 DEF BatchOf, KnowsJob
<1>7. JobOf(d, daemon[d])'
  BY <1>1, <1>2 DEF JobOf
<1> QED
  BY <1>5, <1>6, <1>7 DEF QueueInv

--------------------------------------------------------------------------------
(* Every step is one of the queue *)

QueueStep == Queue!Next \/ UNCHANGED JobQueue

LEMMA Unwritten ==
    UNCHANGED assignments => QueueStep
  BY DEF QueueStep, JobQueue

LEMMA ClientImplementsQueue ==
    ASSUME TypeInv, QueueInv, NEW c \in Client, ClientStep(c), UNCHANGED daemon
    PROVE  QueueInv' /\ QueueStep
<1>0. assignments \in Seq(Assignment)
  BY DEF TypeInv, TypeOK, SharedTypeOK
<1>1. CASE Enqueue(c)
  <2> DEFINE w == client[c].w
             h == client[c].to
             a == client[c].op
  <2>1. w \in Workload /\ h \in Host /\ a \in Action
    BY <1>1 DEF Enqueue, TypeInv, ClientKnows, KnowsCall
  <2>2. CreateAssignment(w, h, a)
    BY <1>1 DEF Enqueue
  <2> HIDE DEF w, h, a
  <2>3. /\ assignments' \in Seq(Assignment)
        /\ Len(assignments') = Len(assignments) + 1
        /\ \A j \in DOMAIN assignments : assignments'[j] = assignments[j]
    BY <1>0, <2>1, <2>2, CreateAssignmentEffect
  <2>4. QueueInv'
    BY <2>3, ClientKeepsQueueInv
  <2>5. \E t \in Second :
            JobQueue' = Append(JobQueue, [host |-> h, status |-> "pending", at |-> t])
    BY <1>0, <2>1, <2>2, CreateAssignmentMapped
  <2>6. \E host \in Host : Queue!Post(host)
    BY <2>1, <2>5 DEF Queue!Post, JobQueue
  <2> QED
    BY <2>4, <2>6 DEF QueueStep, Queue!Next
<1>2. CASE ~Enqueue(c)
  <2>1. UNCHANGED assignments
    BY <1>2 DEF ClientStep, ClientBegins, ClientContinues, ClientAborts, Spawn, Sleep, Wake,
         Checkpoint, Migrate, AssignWorkload, MarkAssigned, Snapshot, SaveCheckpoint,
         SaveCheckpointFails, MigrateStop, MigratePlace, MigrateMark, MigrateRequeue,
         sharedVars, dbVars
  <2> QED
    BY <1>0, <2>1, ClientKeepsQueueInv, Unwritten
<1> QED
  BY <1>1, <1>2

LEMMA DaemonImplementsQueue ==
    ASSUME TypeInv, QueueInv, \A x, y \in Daemon : Serves[x] = Serves[y] => x = y,
           NEW d \in Daemon, DaemonStep(d)
    PROVE  QueueInv' /\ QueueStep
<1> DEFINE b == daemon[d].batch
           job == daemon[d].job
<1>a. assignments \in Seq(Assignment) /\ daemon[d] \in DaemonState
  BY DEF TypeInv, TypeOK, SharedTypeOK, DaemonTypeOK
<1>b. KnowsJob(daemon[d]) /\ BatchOf(d, daemon[d]) /\ JobOf(d, daemon[d])
  BY DEF TypeInv, DaemonKnows, QueueInv
<1>c. ASSUME NEW r \in DaemonState, daemon' = [daemon EXCEPT ![d] = r], UNCHANGED assignments,
             r.batch = {} \/ r.batch = b,
             r.pc \in Executing => /\ r.job = job
                                   /\ daemon[d].pc \in Executing
                                   /\ daemon[d].pc = "fail" => r.pc = "fail"
      PROVE  QueueInv' /\ QueueStep
  <2>1. BatchOf(d, r)
    BY <1>b, <1>c DEF BatchOf
  <2> QED
    BY <1>c, <2>1, DaemonReads, Unwritten
<1>d. ASSUME NEW pc \in {"off", "idle", "next", "inspect", "launch", "running", "stop",
                        "sleeping", "done", "fail", "failed", "sweep"},
             Continue(d, pc), UNCHANGED assignments,
             pc \in Executing => /\ daemon[d].pc \in Executing
                                 /\ daemon[d].pc = "fail" => pc = "fail"
      PROVE  QueueInv' /\ QueueStep
  <2> DEFINE r == [daemon[d] EXCEPT !.pc = pc]
  <2>1. r \in DaemonState /\ r.pc = pc /\ r.job = job /\ r.batch = b
    BY <1>a DEF DaemonState
  <2>2. daemon' = [daemon EXCEPT ![d] = r]
    BY <1>d DEF Continue
  <2> HIDE DEF r
  <2> QED
    BY <1>c, <1>d, <2>1, <2>2
<1>e. ASSUME NEW s \in AssignmentStatus \ {"pending"}, SetAssignment(job, s),
             daemon[d].pc \in Executing, NEW r, daemon' = [daemon EXCEPT ![d] = r],
             r.batch = b,
             r.pc \in Executing => r.job = job /\ r.pc = "fail" /\ s = "completed"
      PROVE  QueueInv' /\ JobQueue' = [JobQueue EXCEPT ![job].status = s]
  <2>1. job \in DOMAIN assignments /\ assignments[job].host = Serves[d]
    BY <1>b, <1>e DEF KnowsJob, JobOf, Executing
  <2>2. job \notin b
    BY <1>b, <1>e DEF BatchOf, WaitsFor, JobOf
  <2>3. r.batch = daemon[d].batch \ {job}
    BY <1>e, <2>2
  <2> QED
    BY <1>a, <1>e, <2>1, <2>3, DaemonWrites, SetAssignmentMapped
<1>f. daemon[d].pc \in Executing =>
          /\ job \in DOMAIN JobQueue
          /\ \/ JobQueue[job].status = "processing"
             \/ daemon[d].pc = "fail" /\ JobQueue[job].status = "completed"
  BY <1>b DEF KnowsJob, JobOf, Executing, JobQueue
<1>1. ASSUME StartDaemon(d) \/ StopDaemon(d) \/ EndLoop(d) \/ StopRuntime(d)
      PROVE  QueueInv' /\ QueueStep
  BY <1>1, <1>d DEF StartDaemon, StopDaemon, EndLoop, StopRuntime, At, Executing, Working,
     sharedVars, dbVars
<1>2. ASSUME CrashDaemon(d)
      PROVE  QueueInv' /\ QueueStep
  <2>1. Off \in DaemonState /\ Off.batch = {} /\ Off.pc \notin Executing
    BY DEF Off, DaemonState, Executing, Working
  <2> QED
    BY <1>2, <1>c, <2>1 DEF CrashDaemon
<1>3. ASSUME RunOnce(d)
      PROVE  QueueInv' /\ QueueStep
  <2>0. PICK oldest \in NextPendingForHost(Serves[d]) :
           daemon' = [daemon EXCEPT ![d] = [daemon[d] EXCEPT !.pc = "next", !.batch = oldest]]
    BY <1>3 DEF RunOnce
  <2> DEFINE r == [daemon[d] EXCEPT !.pc = "next", !.batch = oldest]
  <2>1. \A i \in oldest : WaitsFor(Serves[d], i)
    BY <1>a, BatchType DEF Pending, WaitsFor
  <2>2. \A i \in oldest : \A j \in DOMAIN assignments :
            Older(j, i) /\ WaitsFor(Serves[d], j) => j \in oldest
    BY <1>a, BatchIsOldest
  <2>3. daemon' = [daemon EXCEPT ![d] = r]
    BY <2>0
  <2>4. r.batch = oldest /\ r.pc \notin Executing
    BY <1>a DEF DaemonState, Executing, Working
  <2> HIDE DEF r
  <2>5. BatchOf(d, r)
    BY <2>1, <2>2, <2>4 DEF BatchOf
  <2> QED
    BY <1>3, <2>3, <2>4, <2>5, DaemonReads, Unwritten DEF RunOnce, sharedVars, dbVars
<1>4. ASSUME Claim(d)
      PROVE  QueueInv' /\ QueueStep
  <2>1. PICK i \in daemon[d].batch :
           /\ \A j \in daemon[d].batch : assignments[i].assignedAt <= assignments[j].assignedAt
           /\ SetAssignment(i, "processing")
           /\ daemon' = [daemon EXCEPT ![d] =
                 [daemon[d] EXCEPT !.pc = Dispatch(d, assignments[i].action,
                                                   workloads[assignments[i].workload]),
                                   !.batch = daemon[d].batch \ {i}, !.job = i,
                                   !.w = assignments[i].workload,
                                   !.rt = workloads[assignments[i].workload].runtimeId]]
    BY <1>4 DEF Claim
  <2>2. i \in DOMAIN assignments /\ WaitsFor(Serves[d], i)
    BY <1>b DEF KnowsJob, BatchOf
  <2> DEFINE w == assignments[i].workload
             pc == Dispatch(d, assignments[i].action, workloads[w])
             rt == workloads[w].runtimeId
             r == [daemon[d] EXCEPT !.pc = pc, !.batch = daemon[d].batch \ {i},
                                     !.job = i, !.w = w, !.rt = rt]
  <2>3. daemon' = [daemon EXCEPT ![d] = r]
    BY <2>1
  <2> HIDE DEF pc, rt, w
  <2>4. r.job = i /\ r.batch = daemon[d].batch \ {i}
    BY <1>a DEF DaemonState
  <2> HIDE DEF r
  <2>5. QueueInv'
    BY <2>1, <2>2, <2>3, <2>4, DaemonWrites DEF AssignmentStatus, WaitsFor
  <2>6. JobQueue' = [JobQueue EXCEPT ![i].status = "processing"]
    BY <1>a, <2>1, <2>2, SetAssignmentMapped DEF AssignmentStatus
  <2>7. \A j \in DOMAIN JobQueue : JobQueue[j].status = "pending" => ~Queue!Precedes(j, i)
    <3> SUFFICES ASSUME NEW j \in DOMAIN assignments, WaitsFor(Serves[d], j)
                 PROVE  ~Older(j, i)
      BY <2>2 DEF JobQueue, WaitsFor, Older, Queue!Precedes
    <3>1. Older(j, i) => j \in daemon[d].batch
      BY <1>b DEF BatchOf
    <3>2. assignments[i].assignedAt \in Nat /\ assignments[j].assignedAt \in Nat
      BY <1>a, <2>2, SecondsAreNumbers
    <3> QED
      BY <2>1, <3>1, <3>2 DEF Older
  <2>8. i \in DOMAIN JobQueue /\ JobQueue[i].status = "pending"
    BY <2>2 DEF JobQueue, WaitsFor
  <2>9. Queue!Claim(i)
    BY <2>6, <2>7, <2>8 DEF Queue!Claim, JobQueue
  <2>10. Queue!HandOut
    BY <2>8, <2>9 DEF Queue!HandOut, JobQueue
  <2> QED
    BY <2>5, <2>10 DEF QueueStep, Queue!Next
<1>5. ASSUME InspectOld(d)
      PROVE  QueueInv' /\ QueueStep
  <2>1. \E pc \in {"running", "launch", "sleeping", "stop", "fail", "inspect"} : Continue(d, pc)
    BY <1>5, DispatchType DEF InspectOld
  <2> QED
    BY <1>5, <1>d, <2>1 DEF InspectOld, At, Executing, Working, sharedVars, dbVars
<1>6. ASSUME Launch(d)
      PROVE  QueueInv' /\ QueueStep
  <2>1. CASE Continue(d, "fail")
    BY <1>6, <1>d, <2>1 DEF Launch, At, Executing, Working, dbVars
  <2>2. CASE ~Continue(d, "fail")
    <3> DEFINE r == [daemon[d] EXCEPT !.pc = "running", !.rt = Len(containers) + 1]
    <3>1. daemon' = [daemon EXCEPT ![d] = r]
      BY <1>6, <2>2 DEF Launch
    <3>2. Len(containers) + 1 \in Nat
      BY DEF TypeInv, TypeOK, SharedTypeOK
    <3>3. r \in DaemonState /\ r.pc = "running" /\ r.job = job /\ r.batch = b
      BY <1>a, <3>2 DEF DaemonState
    <3> HIDE DEF r
    <3> QED
      BY <1>6, <1>c, <3>1, <3>3 DEF Launch, At, Executing, Working, dbVars
  <2> QED
    BY <2>1, <2>2
<1>7. ASSUME Launched(d) \/ Stopped(d)
      PROVE  QueueInv' /\ QueueStep
  BY <1>7, <1>d DEF Launched, Stopped, StatementThrows, At, Executing, Working,
     sharedVars, dbVars
<1>8. ASSUME Complete(d)
      PROVE  QueueInv' /\ QueueStep
  <2>1. CASE UNCHANGED assignments /\ Continue(d, "fail")
    BY <1>8, <1>d, <2>1 DEF Complete, At, Executing, Working
  <2>2. CASE SetAssignment(job, "completed")
    <3>1. PICK r : /\ daemon' = [daemon EXCEPT ![d] = r]
                   /\ r.batch = b
                   /\ r.pc \in {"next", "fail"}
                   /\ r.pc = "fail" => r.job = job
      <4> DEFINE r1 == [daemon[d] EXCEPT !.pc = "next", !.job = 0, !.w = NoWorkload, !.rt = 0]
                 r2 == [daemon[d] EXCEPT !.pc = "fail"]
      <4>1. \/ daemon' = [daemon EXCEPT ![d] = r1]
            \/ daemon' = [daemon EXCEPT ![d] = r2]
        BY <1>8 DEF Complete, NextAssignment, Continue
      <4>2. /\ r1.batch = b /\ r1.pc = "next"
            /\ r2.batch = b /\ r2.pc = "fail" /\ r2.job = job
        BY <1>a DEF DaemonState
      <4> HIDE DEF r1, r2
      <4> QED
        BY <4>1, <4>2
    <3>2. daemon[d].pc = "done" /\ daemon[d].pc \in Executing
      BY <1>8 DEF Complete, At, Executing
    <3>3. QueueInv' /\ JobQueue' = [JobQueue EXCEPT ![job].status = "completed"]
      BY <1>e, <2>2, <3>1, <3>2 DEF AssignmentStatus, Executing, Working
    <3>4. job \in DOMAIN JobQueue /\ JobQueue[job].status = "processing"
      BY <1>f, <3>2
    <3>5. Queue!Finish(job, "completed")
      BY <3>3, <3>4 DEF Queue!Finish, JobQueue
    <3>6. Queue!Conclude
      BY <3>4, <3>5 DEF Queue!Conclude, JobQueue
    <3> QED
      BY <3>3, <3>6 DEF QueueStep, Queue!Next
  <2> QED
    BY <1>8, <2>1, <2>2 DEF Complete
<1>9. ASSUME FailAssignment(d)
      PROVE  QueueInv' /\ QueueStep
  <2> DEFINE r == [daemon[d] EXCEPT !.pc = "failed"]
  <2>1. daemon' = [daemon EXCEPT ![d] = r]
    BY <1>9 DEF FailAssignment, Continue
  <2>2. r.batch = b /\ r.pc \notin Executing
    BY <1>a DEF DaemonState, Executing
  <2> HIDE DEF r
  <2>3. daemon[d].pc = "fail" /\ daemon[d].pc \in Executing
    BY <1>9 DEF FailAssignment, At, Executing, Working
  <2>4. QueueInv' /\ JobQueue' = [JobQueue EXCEPT ![job].status = "failed"]
    BY <1>9, <1>e, <2>1, <2>2, <2>3 DEF FailAssignment, AssignmentStatus
  <2>5. job \in DOMAIN JobQueue /\ JobQueue[job].status \in {"processing", "completed"}
    BY <1>f, <2>3
  <2>6. CASE JobQueue[job].status = "processing"
    <3>1. Queue!Conclude
      BY <2>4, <2>5, <2>6 DEF Queue!Conclude, Queue!Finish, JobQueue
    <3> QED
      BY <2>4, <3>1 DEF QueueStep, Queue!Next
  <2>7. CASE JobQueue[job].status = "completed"
    <3>1. \E i \in DOMAIN JobQueue : Queue!Revoke(i)
      BY <2>4, <2>5, <2>7 DEF Queue!Revoke, JobQueue
    <3> QED
      BY <2>4, <3>1 DEF QueueStep, Queue!Next, JobQueue
  <2> QED
    BY <2>5, <2>6, <2>7
<1>10. ASSUME FailWorkload(d)
       PROVE  QueueInv' /\ QueueStep
  <2> DEFINE r == [daemon[d] EXCEPT !.pc = "next", !.job = 0, !.w = NoWorkload, !.rt = 0]
  <2>1. r \in DaemonState /\ r.batch = b /\ r.pc \notin Executing
    BY <1>a DEF DaemonState, Executing, Working
  <2>2. daemon' = [daemon EXCEPT ![d] = r]
    BY <1>10 DEF FailWorkload, NextAssignment
  <2> HIDE DEF r
  <2> QED
    BY <1>10, <1>c, <2>1, <2>2 DEF FailWorkload
<1>11. ASSUME CollectMetering(d) \/ Meter(d) \/ Condemn(d)
       PROVE  QueueInv' /\ QueueStep
  <2>1. PICK r : /\ daemon' = [daemon EXCEPT ![d] = r]
                 /\ r.batch = b
                 /\ r.pc \in {"sweep", "condemn"}
    <3> DEFINE r1 == [daemon[d] EXCEPT !.pc = "sweep", !.sweep = Metered(Serves[d])]
               r2(row, answer) ==
                  [daemon[d] EXCEPT !.sweep = daemon[d].sweep \ {row},
                                    !.pc = IF answer = "running" THEN "sweep" ELSE "condemn",
                                    !.w = IF answer = "running" THEN NoWorkload ELSE row[1]]
               r3 == [daemon[d] EXCEPT !.pc = "sweep", !.w = NoWorkload]
    <3>1. \/ daemon' = [daemon EXCEPT ![d] = r1]
          \/ \E row, answer : daemon' = [daemon EXCEPT ![d] = r2(row, answer)]
          \/ daemon' = [daemon EXCEPT ![d] = r3]
      BY <1>11 DEF CollectMetering, Meter, Condemn
    <3>2. /\ r1.batch = b /\ r1.pc = "sweep"
          /\ r3.batch = b /\ r3.pc = "sweep"
      BY <1>a DEF DaemonState
    <3>3. \A row, answer : /\ r2(row, answer).batch = b
                           /\ r2(row, answer).pc \in {"sweep", "condemn"}
      BY <1>a DEF DaemonState
    <3> HIDE DEF r1, r2, r3
    <3> QED
      BY <3>1, <3>2, <3>3
  <2>2. BatchOf(d, r) /\ r.pc \notin Executing
    BY <1>b, <2>1 DEF BatchOf, Executing, Working
  <2>3. UNCHANGED assignments
    BY <1>11 DEF CollectMetering, Meter, Condemn, sharedVars, dbVars
  <2> QED
    BY <2>1, <2>2, <2>3, DaemonReads, Unwritten
<1> QED
  BY <1>1, <1>2, <1>3, <1>4, <1>5, <1>6, <1>7, <1>8, <1>9, <1>10, <1>11
     DEF DaemonStep, DaemonWorks

--------------------------------------------------------------------------------

\* What every step does, and what holds in every state.
LEMMA QueueSteps ==
    ASSUME \A x, y \in Daemon : Serves[x] = Serves[y] => x = y
    PROVE  TypeInv /\ QueueInv /\ [Next]_vars => QueueInv' /\ QueueStep
<1> SUFFICES ASSUME TypeInv, QueueInv, [Next]_vars PROVE QueueInv' /\ QueueStep
  OBVIOUS
<1>0. ASSUME UNCHANGED <<assignments, daemon>>
      PROVE  QueueInv' /\ QueueStep
  BY <1>0, ClientKeepsQueueInv, Unwritten DEF TypeInv, TypeOK, SharedTypeOK
<1>1. CASE \E c \in Client : ClientStep(c) /\ UNCHANGED daemon
  BY <1>1, ClientImplementsQueue
<1>2. CASE HostCommand /\ UNCHANGED daemon
  BY <1>0, <1>2 DEF HostCommand, SetDaemonStatus
<1>3. CASE \E d \in Daemon : DaemonStep(d) /\ UNCHANGED clientVars
  BY <1>3, DaemonImplementsQueue
<1>4. CASE ContainerDies /\ UNCHANGED <<clientVars, daemon>>
  BY <1>0, <1>4 DEF ContainerDies, clientVars, dbVars
<1>5. CASE UNCHANGED vars
  BY <1>0, <1>5 DEF vars, sharedVars, dbVars
<1> QED
  BY <1>1, <1>2, <1>3, <1>4, <1>5 DEF Next

LEMMA QueueInvariance ==
    ASSUME \A x, y \in Daemon : Serves[x] = Serves[y] => x = y
    PROVE  Spec => [](TypeInv /\ QueueInv)
<1>1. Init => QueueInv
  BY DEF Init, DaemonInit, Off, QueueInv, BatchOf, JobOf, Executing, Working
<1> QED
  BY <1>1, QueueSteps, TypeInvariance, PTL DEF Spec

\* With one daemon per host, whatever crashes, aborts or throws and whatever
\* the clocks show, the table of assignments is a queue: each job is handed out
\* at most once, not before one of its host that was posted earlier and in an
\* earlier second, and a job that failed stays failed.
THEOREM TableIsQueue ==
    ASSUME \A x, y \in Daemon : Serves[x] = Serves[y] => x = y
    PROVE  Spec => HandsOutOnceInOrder
<1>1. Init => QueueInv /\ Queue!Init
  <2> SUFFICES ASSUME Init PROVE QueueInv /\ Queue!Init
    OBVIOUS
  <2>1. QueueInv
    BY DEF Init, DaemonInit, Off, QueueInv, BatchOf, JobOf, Executing, Working
  <2>2. assignments = <<>>
    BY DEF Init, SharedInit
  <2>3. JobQueue = <<>>
    <3>1. DOMAIN assignments = {}
      BY <2>2
    <3> QED
      BY <3>1 DEF JobQueue
  <2> QED
    BY <2>1, <2>3 DEF Queue!Init, JobQueue
<1>2. TypeInv /\ QueueInv /\ [Next]_vars => QueueInv' /\ QueueStep
  BY QueueSteps
<1>3. QueueStep <=> [Queue!Next]_JobQueue
  BY DEF QueueStep
<1>4. Spec => Queue!Init /\ [][Queue!Next]_JobQueue
  BY <1>1, <1>2, <1>3, TypeInvariance, PTL DEF Spec
<1> QED
  BY <1>4, PTL DEF HandsOutOnceInOrder, Queue!Spec, JobQueue

================================================================================
