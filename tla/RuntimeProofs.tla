----------------------------- MODULE RuntimeProofs -----------------------------
(***************************************************************************)
(* What the control plane knows of the containers, when callers wait for   *)
(* the earlier calls on a workload and one daemon serves each host: a      *)
(* workload has at most one live container, its row names it, and a tick   *)
(* is recorded for the host the container is on.  For every number of      *)
(* workloads, hosts, callers, calls and assignments.                       *)
(***************************************************************************)
EXTENDS QueueProofs

\* The callers and daemons the theorems are about.
Orderly == Patient /\ \A x, y \in Daemon : Serves[x] = Serves[y] => x = y

\* The faults under which a container may be lost from sight.
Faultless == "db" \notin Faults /\ "stop" \notin Faults /\ "inspect" \notin Faults

\* Assignment i is of w and not concluded.
Open(i, w) ==
    assignments[i].workload = w /\ assignments[i].status \in {"pending", "processing"}

\* At most one call or job is about w.
OneAtATime(w) ==
    /\ \A b, c \in Client : client[b].w = w /\ client[c].w = w => b = c
    /\ \A c \in Client : client[c].w = w => \A i \in DOMAIN assignments : ~Open(i, w)
    /\ \A i, j \in DOMAIN assignments : Open(i, w) /\ Open(j, w) => i = j

\* The runtime a row names was launched for its workload on its host.
RuntimeOfRow(w) ==
    LET row == workloads[w]
        rt == row.runtimeId
    IN /\ row.status = "absent" => rt = 0
       /\ rt # 0 => /\ rt \in DOMAIN containers
                    /\ containers[rt].workload = w /\ containers[rt].host = row.hostId

\* What is known of the live containers unless such a fault is injected.
OnlyLive(w, rt) == Faultless => \A x \in Live(w) : x = rt
Down(w) == Faultless => Live(w) = {}

\* What a call knows of the runtime of its workload.
CallFits(r) ==
    /\ r.pc = "assign" => workloads[r.w].runtimeId = 0
    /\ r.pc = "mark" => r.op \in {"sleep", "wake"}
    /\ r.pc \in {"snapshot", "save", "stop"} => r.rt = workloads[r.w].runtimeId
    /\ r.pc \in {"place", "migrating", "requeue"} => Down(r.w)
    /\ r.pc = "enqueue" /\ r.op \in {"start", "restore"} => Down(r.w)

\* Who is to launch without a look at the old runtime will find it down.
JobFits(i) ==
    assignments[i].status = "pending" /\ assignments[i].action \in {"start", "restore"}
    => Down(assignments[i].workload)

\* What a daemon knows of the workload it is about to start.
DaemonFits(d, r) ==
    /\ r.pc \in {"inspect", "launch", "running"} => workloads[r.w].hostId = Serves[d]
    /\ r.pc = "inspect" => r.rt = workloads[r.w].runtimeId /\ r.rt # 0
    /\ r.pc = "launch" => Down(r.w)
    /\ r.pc = "running" =>
          /\ OnlyLive(r.w, r.rt) /\ r.rt \in DOMAIN containers
          /\ containers[r.rt].workload = r.w /\ containers[r.rt].host = Serves[d]

\* A sweep holds runtimes of the daemon's host.
SweepFits(d, r) ==
    \A row \in r.sweep : row[2] \in DOMAIN containers /\ containers[row[2]].host = Serves[d]

UsageFits(u) == u.runtime \in DOMAIN containers /\ containers[u.runtime].host = u.host

\* A crash has left job i processing, which no daemon will take again.
Abandoned(i) ==
    /\ "crash" \in Faults
    /\ assignments[i].status = "processing"
    /\ \A d \in Daemon : daemon[d].pc \in Executing => daemon[d].job # i

\* The row names the live container of w, or the daemon that launched it is
\* about to, or that daemon has died and its job holds off all calls on w.
Accounted(w) ==
    \/ OnlyLive(w, workloads[w].runtimeId)
    \/ \E d \in Daemon : daemon[d].pc = "running" /\ daemon[d].w = w
    \/ /\ \E i \in DOMAIN assignments : assignments[i].workload = w /\ Abandoned(i)
       /\ \E rt \in Nat : OnlyLive(w, rt)

RuntimeInv ==
    /\ \A w \in Workload : OneAtATime(w) /\ RuntimeOfRow(w) /\ Accounted(w)
    /\ \A c \in Client : CallFits(client[c])
    /\ \A i \in DOMAIN assignments : JobFits(i)
    /\ \A d \in Daemon : DaemonFits(d, daemon[d]) /\ SweepFits(d, daemon[d])
    /\ \A u \in usageEvents : UsageFits(u)

--------------------------------------------------------------------------------
(* What a step does to the containers and to the row of a workload *)

ContainersStay ==
    \A rt \in DOMAIN containers :
        /\ rt \in DOMAIN containers'
        /\ containers'[rt].workload = containers[rt].workload
        /\ containers'[rt].host = containers[rt].host

\* The row of w names the same runtime and host, and no container of w starts.
Quiet(w) ==
    /\ workloads'[w].runtimeId = workloads[w].runtimeId
    /\ workloads'[w].hostId = workloads[w].hostId
    /\ workloads'[w].status = "absent" => workloads[w].status = "absent"
    /\ Live(w)' \subseteq Live(w)

LEMMA QuietKeeps ==
    ASSUME ContainersStay, NEW w, Quiet(w)
    PROVE  /\ RuntimeOfRow(w) => RuntimeOfRow(w)'
           /\ Down(w) => Down(w)'
           /\ \A rt : OnlyLive(w, rt) => OnlyLive(w, rt)'
  BY DEF ContainersStay, Quiet, RuntimeOfRow, Down, OnlyLive

LEMMA ContainersUnchanged ==
    ASSUME UNCHANGED containers
    PROVE  ContainersStay /\ \A w : Live(w)' = Live(w)
  BY DEF ContainersStay, Live

LEMMA StopContainerEffect ==
    ASSUME containers \in Seq(Container), NEW rt, StopContainer(rt)
    PROVE  /\ ContainersStay
           /\ \A w : Live(w)' \subseteq Live(w) /\ rt \notin Live(w)'
<1>1. /\ DOMAIN containers' = DOMAIN containers
      /\ \A x \in DOMAIN containers :
            containers'[x] = IF x = rt THEN [containers[x] EXCEPT !.state = "stopped"]
                             ELSE containers[x]
  BY DEF StopContainer
<1>2. \A x \in DOMAIN containers : containers[x] \in Container
  BY ElementOfSeq
<1>3. \A x \in DOMAIN containers :
         /\ containers'[x].workload = containers[x].workload
         /\ containers'[x].host = containers[x].host
         /\ x # rt => containers'[x] = containers[x]
         /\ containers'[rt].state = "stopped" \/ rt \notin DOMAIN containers
  BY <1>1, <1>2 DEF Container
<1> QED
  BY <1>1, <1>3 DEF ContainersStay, Live

LEMMA LaunchContainerEffect ==
    ASSUME containers \in Seq(Container), NEW w \in Workload, NEW h \in Host,
           LaunchContainer(w, h)
    PROVE  LET new == Len(containers) + 1 IN
           /\ ContainersStay
           /\ new \in DOMAIN containers'
           /\ containers'[new].workload = w /\ containers'[new].host = h
           /\ \A v : v # w => Live(v)' \subseteq Live(v)
           /\ Live(w)' \subseteq Live(w) \cup {new}
<1> DEFINE e == [workload |-> w, host |-> h, state |-> "running"]
           new == Len(containers) + 1
<1>1. e \in Container
  BY DEF Container
<1>2. containers' = Append(containers, e)
  BY DEF LaunchContainer
<1>3. e.workload = w /\ e.host = h
  OBVIOUS
<1> HIDE DEF e
<1>4. /\ containers' \in Seq(Container) /\ Len(containers') = new
      /\ \A j \in 1..Len(containers) : containers'[j] = containers[j]
      /\ containers'[new] = e
  BY <1>1, <1>2, AppendProperties
<1>5. DOMAIN containers' = DOMAIN containers \cup {new} /\ new \in DOMAIN containers'
  BY <1>4
<1>6. \A j \in DOMAIN containers : containers'[j] = containers[j]
  BY <1>4
<1> HIDE DEF new
<1> QED
  BY <1>3, <1>4, <1>5, <1>6 DEF ContainersStay, Live, new

--------------------------------------------------------------------------------
(* Whose turn it is on a workload *)

\* Neither a call nor a job is about w.
Vacant(w) ==
    /\ \A c \in Client : client[c].w # w
    /\ \A i \in DOMAIN assignments : ~Open(i, w)

\* Daemon d executes a job of w that is not concluded.
Handling(d, w) == daemon[d].pc \in Executing \ {"fail"} /\ daemon[d].w = w

LEMMA JobType ==
    ASSUME TypeInv, NEW i \in DOMAIN assignments
    PROVE  assignments[i] \in Assignment /\ assignments[i].workload \in Workload
<1>1. assignments[i] \in Assignment
  BY ElementOfSeq DEF TypeInv, TypeOK, SharedTypeOK
<1> QED
  BY <1>1 DEF Assignment

LEMMA HandlingEffect ==
    ASSUME Orderly, TypeInv, QueueInv, NEW d \in Daemon, NEW w, Handling(d, w)
    PROVE  /\ w \in Workload
           /\ daemon[d].job \in DOMAIN assignments
           /\ Open(daemon[d].job, w)
           /\ assignments[daemon[d].job].status = "processing"
           /\ assignments[daemon[d].job].host = Serves[d]
<1>1. daemon[d].pc \in Working \cup {"done"}
  BY DEF Handling, Executing
<1>2. daemon[d].job \in DOMAIN assignments /\ w = assignments[daemon[d].job].workload
  BY <1>1 DEF TypeInv, DaemonKnows, KnowsJob, Handling
<1>3. /\ assignments[daemon[d].job].status = "processing"
      /\ assignments[daemon[d].job].host = Serves[d]
  BY DEF QueueInv, JobOf, Handling
<1> QED
  BY <1>2, <1>3, JobType DEF Open

\* While a daemon handles w, no call is about w and no other job is open.
LEMMA HandlingAlone ==
    ASSUME Orderly, TypeInv, QueueInv, RuntimeInv,
           NEW d \in Daemon, NEW w, Handling(d, w)
    PROVE  /\ \A c \in Client : client[c].w # w
           /\ \A i \in DOMAIN assignments : Open(i, w) => i = daemon[d].job
           /\ \A i \in DOMAIN assignments : Open(i, w) => assignments[i].status # "pending"
           /\ \A e \in Daemon : Handling(e, w) => e = d
           /\ \A i \in DOMAIN assignments : assignments[i].workload = w => ~Abandoned(i)
<1>1. /\ w \in Workload
      /\ daemon[d].job \in DOMAIN assignments
      /\ Open(daemon[d].job, w)
      /\ assignments[daemon[d].job].status = "processing"
      /\ assignments[daemon[d].job].host = Serves[d]
  BY HandlingEffect
<1>2. OneAtATime(w)
  BY <1>1 DEF RuntimeInv
<1>3. ASSUME NEW e \in Daemon, Handling(e, w)
      PROVE  e = d
  <2>1. /\ daemon[e].job \in DOMAIN assignments
        /\ Open(daemon[e].job, w)
        /\ assignments[daemon[e].job].host = Serves[e]
    BY <1>3, HandlingEffect
  <2>2. Serves[e] = Serves[d]
    BY <1>1, <1>2, <2>1 DEF OneAtATime
  <2> QED
    BY <2>2 DEF Orderly
<1>4. ASSUME NEW i \in DOMAIN assignments, assignments[i].workload = w, Abandoned(i)
      PROVE  FALSE
  <2>1. Open(i, w)
    BY <1>4 DEF Abandoned, Open
  <2>2. i = daemon[d].job /\ daemon[d].pc \in Executing
    BY <1>1, <1>2, <2>1 DEF OneAtATime, Handling
  <2> QED
    BY <1>4, <2>2 DEF Abandoned
<1> QED
  BY <1>1, <1>2, <1>3, <1>4 DEF OneAtATime

\* A workload no daemon has launched a container for, and whose job no crash
\* has abandoned, has at most the live container its row names.
LEMMA RowNamesLive ==
    ASSUME Orderly, TypeInv, QueueInv, RuntimeInv, NEW w \in Workload,
           \/ \A i \in DOMAIN assignments : ~Open(i, w)
           \/ \E i \in DOMAIN assignments : Open(i, w) /\ assignments[i].status = "pending"
           \/ \E d \in Daemon : Handling(d, w) /\ daemon[d].pc # "running"
    PROVE  OnlyLive(w, workloads[w].runtimeId)
<1>1. Accounted(w) /\ OneAtATime(w)
  BY DEF RuntimeInv
<1>2. ASSUME NEW d \in Daemon, daemon[d].pc = "running", daemon[d].w = w
      PROVE  FALSE
  <2>1. Handling(d, w)
    BY <1>2 DEF Handling, Executing, Working
  <2>2. daemon[d].job \in DOMAIN assignments /\ Open(daemon[d].job, w)
    BY <2>1, HandlingEffect
  <2>3. \A i \in DOMAIN assignments : Open(i, w) => assignments[i].status # "pending"
    BY <2>1, HandlingAlone
  <2>4. \A e \in Daemon : Handling(e, w) => e = d
    BY <2>1, HandlingAlone
  <2> QED
    BY <1>2, <2>2, <2>3, <2>4
<1>3. ASSUME NEW i \in DOMAIN assignments, assignments[i].workload = w, Abandoned(i)
      PROVE  FALSE
  <2>1. Open(i, w) /\ assignments[i].status = "processing"
    BY <1>3 DEF Abandoned, Open
  <2>2. PICK d \in Daemon : Handling(d, w)
    BY <1>1, <2>1 DEF OneAtATime
  <2> QED
    BY <1>3, <2>2, HandlingAlone
<1> QED
  BY <1>1, <1>2, <1>3 DEF Accounted

\* There is no runtime 0.
LEMMA NoRuntimeZero ==
    ASSUME TypeInv, NEW w, OnlyLive(w, 0)
    PROVE  Down(w)
  BY DEF TypeInv, TypeOK, SharedTypeOK, OnlyLive, Down, Live

LEMMA VacantEffect ==
    ASSUME Orderly, TypeInv, QueueInv, RuntimeInv, NEW w \in Workload, Vacant(w)
    PROVE  /\ OnlyLive(w, workloads[w].runtimeId)
           /\ workloads[w].runtimeId = 0 => Down(w)
  BY RowNamesLive, NoRuntimeZero DEF Vacant

\* A call of client c is about w: its row names the live container.
LEMMA CallerEffect ==
    ASSUME Orderly, TypeInv, QueueInv, RuntimeInv, NEW c \in Client, client[c].pc # "idle"
    PROVE  LET w == client[c].w IN
           /\ w \in Workload
           /\ \A i \in DOMAIN assignments : ~Open(i, w)
           /\ OnlyLive(w, workloads[w].runtimeId)
           /\ workloads[w].runtimeId = 0 => Down(w)
<1>1. client[c].w \in Workload
  BY DEF TypeInv, ClientKnows, KnowsCall
<1>2. \A i \in DOMAIN assignments : ~Open(i, client[c].w)
  BY <1>1 DEF RuntimeInv, OneAtATime
<1> QED
  BY <1>1, <1>2, RowNamesLive, NoRuntimeZero

--------------------------------------------------------------------------------
(* What holds of a workload that a step leaves quiet holds after it. *)

LEMMA QuietCall ==
    ASSUME RuntimeInv, ContainersStay, NEW c \in Client, client'[c] = client[c],
           client[c].pc # "idle" => Quiet(client[c].w)
    PROVE  CallFits(client[c])'
<1>1. PICK q, w : q = client[c] /\ w = client[c].w
  OBVIOUS
<1>2. client'[c] = q /\ CallFits(q)
  BY <1>1 DEF RuntimeInv
<1>3. CASE q.pc = "idle"
  BY <1>2, <1>3 DEF CallFits
<1>4. CASE q.pc # "idle"
  <2>1. Quiet(w) /\ (Down(w) => Down(w)')
    BY <1>1, <1>4, QuietKeeps
  <2>2. workloads'[w].runtimeId = workloads[w].runtimeId
    BY <2>1 DEF Quiet
  <2>3. Down(client[c].w)' <=> Down(w)'
    BY <1>1 DEF Down, Live
  <2> QED
    BY <1>1, <1>2, <2>1, <2>2, <2>3 DEF CallFits
<1> QED
  BY <1>3, <1>4

LEMMA QuietJob ==
    ASSUME RuntimeInv, ContainersStay, NEW i \in DOMAIN assignments,
           assignments'[i].workload = assignments[i].workload,
           assignments'[i].action = assignments[i].action,
           assignments'[i].status = "pending" =>
               assignments[i].status = "pending" /\ Quiet(assignments[i].workload)
    PROVE  JobFits(i)'
<1>1. PICK w : w = assignments[i].workload
  OBVIOUS
<1>2. Quiet(w) => (Down(w) => Down(w)')
  BY QuietKeeps
<1>3. Down(assignments[i].workload)' <=> Down(w)'
  BY <1>1 DEF Down, Live
<1>4. JobFits(i)
  BY DEF RuntimeInv
<1> QED
  BY <1>1, <1>2, <1>3, <1>4 DEF JobFits

LEMMA QuietDaemon ==
    ASSUME RuntimeInv, ContainersStay, NEW d \in Daemon, daemon'[d] = daemon[d],
           Handling(d, daemon[d].w) => Quiet(daemon[d].w)
    PROVE  DaemonFits(d, daemon[d])' /\ SweepFits(d, daemon[d])'
<1>1. SweepFits(d, daemon[d])'
  BY DEF RuntimeInv, SweepFits, ContainersStay
<1>2. CASE daemon[d].pc \notin {"inspect", "launch", "running"}
  BY <1>1, <1>2 DEF DaemonFits
<1>3. CASE daemon[d].pc \in {"inspect", "launch", "running"}
  <2>1. PICK w, rt : w = daemon[d].w /\ rt = daemon[d].rt
    OBVIOUS
  <2>2. Quiet(w)
    BY <1>3, <2>1 DEF Handling, Executing, Working
  <2>3. /\ Down(w) => Down(w)'
        /\ OnlyLive(w, rt) => OnlyLive(w, rt)'
    BY <2>2, QuietKeeps
  <2>4. /\ workloads'[w].hostId = workloads[w].hostId
        /\ workloads'[w].runtimeId = workloads[w].runtimeId
    BY <2>2 DEF Quiet
  <2>5. /\ Down(daemon[d].w)' <=> Down(w)'
        /\ OnlyLive(daemon[d].w, daemon[d].rt)' <=> OnlyLive(w, rt)'
    BY <2>1 DEF Down, OnlyLive, Live
  <2>6. DaemonFits(d, daemon[d])
    BY DEF RuntimeInv
  <2> QED
    BY <1>1, <2>1, <2>3, <2>4, <2>5, <2>6 DEF DaemonFits, ContainersStay
<1> QED
  BY <1>2, <1>3

LEMMA QuietWorkload ==
    ASSUME RuntimeInv, ContainersStay, NEW w \in Workload, Quiet(w),
           \A d \in Daemon : daemon[d].pc = "running" /\ daemon[d].w = w =>
                                daemon'[d] = daemon[d],
           \A i \in DOMAIN assignments :
               /\ i \in DOMAIN assignments'
               /\ assignments'[i].workload = assignments[i].workload
               /\ Abandoned(i) => Abandoned(i)'
    PROVE  RuntimeOfRow(w)' /\ Accounted(w)'
<1>1. RuntimeOfRow(w)' /\ \A rt : OnlyLive(w, rt) => OnlyLive(w, rt)'
  BY QuietKeeps DEF RuntimeInv
<1>2. Accounted(w)
  BY DEF RuntimeInv
<1>3. CASE OnlyLive(w, workloads[w].runtimeId)
  <2>1. PICK rt : rt = workloads[w].runtimeId
    OBVIOUS
  <2>2. OnlyLive(w, rt)' /\ workloads'[w].runtimeId = rt
    BY <1>1, <1>3, <2>1 DEF Quiet
  <2> QED
    BY <1>1, <2>2 DEF Accounted, OnlyLive
<1>4. CASE \E d \in Daemon : daemon[d].pc = "running" /\ daemon[d].w = w
  BY <1>1, <1>4 DEF Accounted
<1>5. CASE /\ \E i \in DOMAIN assignments : assignments[i].workload = w /\ Abandoned(i)
           /\ \E rt \in Nat : OnlyLive(w, rt)
  BY <1>1, <1>5 DEF Accounted
<1> QED
  BY <1>2, <1>3, <1>4, <1>5 DEF Accounted

--------------------------------------------------------------------------------
(* A step of a call keeps the invariant *)

\* Client c goes on to r: about the same workload, about none, or about one
\* that was vacant.  It writes no row but that of its workload.
CallMoves(c, r) ==
    /\ client' = [client EXCEPT ![c] = r]
    /\ UNCHANGED <<assignments, daemon, usageEvents>>
    /\ ContainersStay
    /\ r.w \in {client[c].w, NoWorkload} \/ Vacant(r.w)
    /\ \A w \in Workload :
          \/ Quiet(w)
          \/ /\ client[c].pc # "idle" /\ w = client[c].w
             /\ RuntimeOfRow(w)' /\ OnlyLive(w, workloads[w].runtimeId)'
    /\ CallFits(r)'

LEMMA CallKeepsRuntimeInv ==
    ASSUME Orderly, TypeInv, QueueInv, RuntimeInv, NEW c \in Client, NEW r, CallMoves(c, r)
    PROVE  RuntimeInv'
<1>a. /\ client'[c] = r /\ \A b \in Client \ {c} : client'[b] = client[b]
      /\ assignments' = assignments /\ daemon' = daemon /\ usageEvents' = usageEvents
      /\ ContainersStay
  BY DEF CallMoves, TypeInv, TypeOK, ClientTypeOK
<1>b. ASSUME NEW w \in Workload, ~Quiet(w)
      PROVE  /\ RuntimeOfRow(w)' /\ OnlyLive(w, workloads[w].runtimeId)'
             /\ \A b \in Client \ {c} : client[b].w # w
             /\ \A i \in DOMAIN assignments : ~Open(i, w)
             /\ \A d \in Daemon : ~Handling(d, w)
  <2>1. /\ client[c].pc # "idle" /\ w = client[c].w
        /\ RuntimeOfRow(w)' /\ OnlyLive(w, workloads[w].runtimeId)'
    BY <1>b DEF CallMoves
  <2>2. \A i \in DOMAIN assignments : ~Open(i, w)
    BY <2>1, CallerEffect
  <2>3. \A b \in Client \ {c} : client[b].w # w
    BY <2>1 DEF RuntimeInv, OneAtATime
  <2> QED
    BY <2>1, <2>2, <2>3, HandlingEffect
<1>1. ASSUME NEW w \in Workload
      PROVE  OneAtATime(w)'
  <2>1. OneAtATime(w) /\ w # NoWorkload
    BY WorkloadAssumption DEF RuntimeInv
  <2>2. r.w = w => client[c].w = w \/ Vacant(w)
    BY <2>1 DEF CallMoves
  <2>3. \A i \in DOMAIN assignments : Open(i, w)' <=> Open(i, w)
    BY <1>a DEF Open
  <2>4. \A a, b \in Client : client'[a].w = w /\ client'[b].w = w => a = b
    BY <1>a, <2>1, <2>2 DEF OneAtATime, Vacant
  <2>5. \A a \in Client : client'[a].w = w => \A i \in DOMAIN assignments : ~Open(i, w)
    BY <1>a, <2>1, <2>2 DEF OneAtATime, Vacant
  <2> QED
    BY <1>a, <2>1, <2>3, <2>4, <2>5 DEF OneAtATime
<1>2. ASSUME NEW w \in Workload
      PROVE  RuntimeOfRow(w)' /\ Accounted(w)'
  <2>1. \A i \in DOMAIN assignments : Abandoned(i) => Abandoned(i)'
    BY <1>a DEF Abandoned
  <2>2. CASE Quiet(w)
    BY <1>a, <2>1, <2>2, QuietWorkload
  <2>3. CASE ~Quiet(w)
    BY <1>b, <2>3 DEF Accounted
  <2> QED
    BY <2>2, <2>3
<1>3. ASSUME NEW b \in Client
      PROVE  CallFits(client[b])'
  <2>1. CASE b = c
    BY <1>a, <2>1 DEF CallMoves, CallFits
  <2>2. CASE b # c
    <3>1. client[b].pc # "idle" => Quiet(client[b].w)
      BY <1>b, <2>2 DEF TypeInv, ClientKnows, KnowsCall
    <3> QED
      BY <1>a, <2>2, <3>1, QuietCall
  <2> QED
    BY <2>1, <2>2
<1>4. ASSUME NEW i \in DOMAIN assignments
      PROVE  JobFits(i)'
  <2>1. assignments[i].workload \in Workload
    BY JobType
  <2>2. assignments[i].status = "pending" => Quiet(assignments[i].workload)
    BY <1>b, <2>1 DEF Open
  <2> QED
    BY <1>a, <2>2, QuietJob
<1>5. ASSUME NEW d \in Daemon
      PROVE  DaemonFits(d, daemon[d])' /\ SweepFits(d, daemon[d])'
  <2>1. Handling(d, daemon[d].w) => Quiet(daemon[d].w)
    BY <1>b, HandlingEffect
  <2> QED
    BY <1>a, <2>1, QuietDaemon
<1>6. \A u \in usageEvents : UsageFits(u)'
  BY <1>a DEF RuntimeInv, UsageFits, ContainersStay
<1> QED
  BY <1>a, <1>1, <1>2, <1>3, <1>4, <1>5, <1>6 DEF RuntimeInv

LEMMA QuietRow ==
    ASSUME TypeInv, UNCHANGED workloads, NEW w, Live(w)' \subseteq Live(w)
    PROVE  Quiet(w)
  BY DEF Quiet

\* A call begins on a vacant workload.
LEMMA BeginPatient ==
    ASSUME Orderly, TypeInv, NEW c \in Client, NEW op, NEW w \in Workload, NEW r,
           Begin(c, op, w, r)
    PROVE  Vacant(w) /\ client[c].pc = "idle" /\ client' = [client EXCEPT ![c] = r]
  BY DEF Begin, Settled, Outstanding, Orderly, Vacant, Open

LEMMA ClientBeginsOrderly ==
    ASSUME Orderly, TypeInv, QueueInv, RuntimeInv, NEW c \in Client, ClientBegins(c),
           UNCHANGED daemon
    PROVE  \E r : CallMoves(c, r)
<1>w. workloads \in [Workload -> Row]
  BY DEF TypeInv, TypeOK, SharedTypeOK
<1>1. ASSUME NEW w \in Workload, Spawn(c, w)
      PROVE  \E r : CallMoves(c, r)
  <2>0. PICK h : /\ Begin(c, "spawn", w, IF h = NoHost THEN Returned
                                         ELSE [Returned EXCEPT !.pc = "assign", !.op = "start",
                                                               !.w = w, !.to = h])
                 /\ workloads' = [workloads EXCEPT ![w].status = "pending"]
                 /\ workloads[w].status = "absent"
                 /\ UNCHANGED <<assignments, usageEvents, containers>>
    BY <1>1 DEF Spawn
  <2> DEFINE r == IF h = NoHost THEN Returned
                  ELSE [Returned EXCEPT !.pc = "assign", !.op = "start", !.w = w, !.to = h]
  <2>1. Vacant(w) /\ client' = [client EXCEPT ![c] = r]
    BY <2>0, BeginPatient
  <2>2. ContainersStay /\ \A v : Live(v)' = Live(v)
    BY <2>0, ContainersUnchanged
  <2>3. \A v \in Workload : Quiet(v)
    BY <2>0, <2>2, <1>w DEF Quiet, Row
  <2>4. workloads'[w].runtimeId = 0
    BY <2>0, <2>3 DEF RuntimeInv, RuntimeOfRow, Quiet
  <2>5. r.pc \in {"idle", "assign"} /\ (r.pc = "assign" => r.w = w) /\ r.w \in {w, NoWorkload}
    BY DEF Returned
  <2> HIDE DEF r
  <2>6. CallFits(r)'
    BY <2>4, <2>5 DEF CallFits
  <2> QED
    BY <2>0, <2>1, <2>2, <2>3, <2>5, <2>6 DEF CallMoves
<1>2. ASSUME NEW w \in Workload, NEW op, NEW r, Begin(c, op, w, r), UNCHANGED sharedVars,
             r.w = w, Vacant(w) => CallFits(r)
      PROVE  CallMoves(c, r)
  <2>1. Vacant(w) /\ client' = [client EXCEPT ![c] = r]
    BY <1>2, BeginPatient
  <2>2. ContainersStay /\ \A v : Live(v)' = Live(v)
    BY <1>2, ContainersUnchanged DEF sharedVars
  <2>3. \A v : Quiet(v)
    BY <1>2, <2>2 DEF Quiet, sharedVars, dbVars
  <2>4. CallFits(r)'
    <3>1. CallFits(r)
      BY <1>2, <2>1
    <3>2. PICK q : q = r
      OBVIOUS
    <3> QED
      BY <1>2, <2>2, <3>1, <3>2 DEF CallFits, Down, sharedVars, dbVars
  <2> QED
    BY <1>2, <2>1, <2>2, <2>3, <2>4 DEF CallMoves, sharedVars, dbVars
<1>3. ASSUME NEW w \in Workload, Sleep(c, w)
      PROVE  \E r : CallMoves(c, r)
  <2> DEFINE r == [Returned EXCEPT !.pc = "mark", !.op = "sleep", !.w = w,
                                   !.to = workloads[w].hostId]
  <2>1. r.w = w /\ r.pc = "mark" /\ r.op = "sleep"
    BY DEF Returned
  <2>2. Begin(c, "sleep", w, r) /\ UNCHANGED sharedVars
    BY <1>3 DEF Sleep
  <2> HIDE DEF r
  <2> QED
    BY <2>1, <2>2, <1>2 DEF CallFits
<1>4. ASSUME NEW w \in Workload, Wake(c, w)
      PROVE  \E r : CallMoves(c, r)
  <2> DEFINE r == [Returned EXCEPT !.pc = "mark", !.op = "wake", !.w = w,
                                   !.to = workloads[w].hostId]
  <2>1. r.w = w /\ r.pc = "mark" /\ r.op = "wake"
    BY DEF Returned
  <2>2. Begin(c, "wake", w, r) /\ UNCHANGED sharedVars
    BY <1>4 DEF Wake
  <2> HIDE DEF r
  <2> QED
    BY <2>1, <2>2, <1>2 DEF CallFits
<1>5. ASSUME NEW w \in Workload, Checkpoint(c, w)
      PROVE  \E r : CallMoves(c, r)
  <2> DEFINE r == [Returned EXCEPT !.pc = "snapshot", !.op = "checkpoint",
                                   !.w = w, !.rt = workloads[w].runtimeId]
  <2>1. r.w = w /\ r.pc = "snapshot" /\ r.rt = workloads[w].runtimeId
    BY DEF Returned
  <2>2. Begin(c, "checkpoint", w, r) /\ UNCHANGED sharedVars
    BY <1>5 DEF Checkpoint
  <2> HIDE DEF r
  <2> QED
    BY <2>1, <2>2, <1>2 DEF CallFits
<1>6. ASSUME NEW w \in Workload, Migrate(c, w)
      PROVE  \E r : CallMoves(c, r)
  <2>0. PICK to : Begin(c, "migrate", w,
                [Returned EXCEPT !.op = "migrate", !.w = w, !.src = workloads[w].hostId,
                                 !.to = to, !.rt = workloads[w].runtimeId,
                                 !.pc = IF workloads[w].runtimeId = 0 THEN AfterStop(to)
                                        ELSE IF workloads[w].status \in {"running", "sleeping"}
                                        THEN "snapshot" ELSE "stop"])
    BY <1>6 DEF Migrate
  <2> DEFINE pc == IF workloads[w].runtimeId = 0 THEN AfterStop(to)
                   ELSE IF workloads[w].status \in {"running", "sleeping"}
                   THEN "snapshot" ELSE "stop"
             r == [Returned EXCEPT !.op = "migrate", !.w = w, !.src = workloads[w].hostId,
                                   !.to = to, !.rt = workloads[w].runtimeId, !.pc = pc]
  <2>1. r.w = w /\ r.pc = pc /\ r.rt = workloads[w].runtimeId
    BY DEF Returned
  <2>2. /\ pc \in {"place", "migrating", "snapshot", "stop"}
        /\ pc \in {"place", "migrating"} => workloads[w].runtimeId = 0
    BY DEF AfterStop
  <2>3. Begin(c, "migrate", w, r) /\ UNCHANGED sharedVars
    BY <1>6, <2>0 DEF Migrate
  <2> HIDE DEF r, pc
  <2>4. Vacant(w) => CallFits(r)
    BY <2>1, <2>2, VacantEffect DEF CallFits
  <2> QED
    BY <2>1, <2>3, <2>4, <1>2
<1> QED
  BY <1>1, <1>3, <1>4, <1>5, <1>6 DEF ClientBegins

\* A call ends, and leaves every workload quiet.
LEMMA ReturnMoves ==
    ASSUME TypeInv, NEW c \in Client, Return(c), ContainersStay,
           UNCHANGED <<assignments, daemon, usageEvents>>, \A w \in Workload : Quiet(w)
    PROVE  CallMoves(c, Returned)
<1>1. Returned.w = NoWorkload /\ Returned.pc = "idle"
  BY DEF Returned
<1>2. CallFits(Returned)'
  BY <1>1 DEF CallFits
<1> QED
  BY <1>1, <1>2 DEF CallMoves, Return

LEMMA ClientContinuesOrderly ==
    ASSUME Orderly, TypeInv, QueueInv, RuntimeInv, NEW c \in Client, client[c].pc # "idle",
           ClientContinues(c) \/ ClientAborts(c), ~Enqueue(c), UNCHANGED daemon
    PROVE  \E r : CallMoves(c, r)
<1>w. workloads \in [Workload -> Row] /\ containers \in Seq(Container)
  BY DEF TypeInv, TypeOK, SharedTypeOK
<1>c. client[c] \in ClientState
  BY DEF TypeInv, TypeOK, ClientTypeOK
<1>0. PICK q, w, rt : q = client[c] /\ w = q.w /\ rt = workloads[w].runtimeId
  OBVIOUS
<1>a. /\ w \in Workload
      /\ OnlyLive(w, rt)
      /\ rt = 0 => Down(w)
      /\ RuntimeOfRow(w)
  BY <1>0, CallerEffect DEF RuntimeInv
<1>b. CallFits(q)
  BY <1>0 DEF RuntimeInv
<1>s. ASSUME UNCHANGED containers
      PROVE  ContainersStay /\ \A v : Live(v)' = Live(v)
  BY <1>s, ContainersUnchanged
<1>g. ASSUME NEW pc
      PROVE  LET r == [q EXCEPT !.pc = pc]
             IN r.pc = pc /\ r.w = w /\ r.op = q.op /\ r.rt = q.rt
  BY <1>0, <1>c DEF ClientState
<1>1. CASE AssignWorkload(c)
  <2> DEFINE r == [q EXCEPT !.pc = "enqueue"]
  <2>1. r.pc = "enqueue" /\ r.w = w
    BY <1>g
  <2>2. /\ client' = [client EXCEPT ![c] = r] /\ q.pc = "assign"
        /\ workloads' = [workloads EXCEPT ![w] =
                            [@ EXCEPT !.status = "assigned", !.hostId = q.to]]
        /\ UNCHANGED <<assignments, usageEvents, containers>>
    BY <1>0, <1>1 DEF AssignWorkload, Goto
  <2> HIDE DEF r
  <2>3. rt = 0 /\ Down(w)
    BY <1>0, <1>a, <1>b, <2>2 DEF CallFits
  <2>4. \A v \in Workload : v # w => Quiet(v)
    BY <1>s, <1>w, <2>2 DEF Quiet
  <2>5. workloads'[w].runtimeId = 0 /\ workloads'[w].status = "assigned"
    BY <1>0, <1>a, <1>w, <2>2, <2>3 DEF Row
  <2>6. RuntimeOfRow(w)' /\ Down(w)'
    BY <1>s, <2>2, <2>3, <2>5 DEF RuntimeOfRow, Down
  <2>7. OnlyLive(w, workloads[w].runtimeId)'
    BY <2>6 DEF OnlyLive, Down
  <2>8. CallFits(r)'
    BY <2>1, <2>6 DEF CallFits
  <2> QED
    BY <1>0, <1>s, <2>1, <2>2, <2>4, <2>6, <2>7, <2>8 DEF CallMoves
<1>2. CASE MarkAssigned(c)
  <2> DEFINE r == [q EXCEPT !.pc = "enqueue"]
  <2>1. r.pc = "enqueue" /\ r.w = w /\ r.op = q.op
    BY <1>g
  <2>2. /\ client' = [client EXCEPT ![c] = r] /\ q.pc = "mark"
        /\ workloads' = [workloads EXCEPT ![w].status = "assigned"]
        /\ UNCHANGED <<assignments, usageEvents, containers>>
    BY <1>0, <1>2 DEF MarkAssigned, Goto
  <2> HIDE DEF r
  <2>3. \A v \in Workload : Quiet(v)
    BY <1>s, <1>w, <2>2 DEF Quiet, Row
  <2>4. CallFits(r)'
    BY <1>b, <2>1, <2>2 DEF CallFits
  <2> QED
    BY <1>0, <1>s, <2>1, <2>2, <2>3, <2>4 DEF CallMoves
<1>3. CASE Snapshot(c)
  <2> DEFINE r == [q EXCEPT !.pc = "save"]
  <2>1. r.pc = "save" /\ r.w = w /\ r.rt = q.rt
    BY <1>g
  <2>2. /\ client' = [client EXCEPT ![c] = r] /\ q.pc = "snapshot"
        /\ UNCHANGED <<workloads, assignments, usageEvents>>
        /\ StopContainer(q.rt) \/ UNCHANGED containers
    BY <1>0, <1>3 DEF Snapshot, Goto, dbVars
  <2> HIDE DEF r
  <2>3. ContainersStay /\ \A v : Live(v)' \subseteq Live(v)
    BY <1>s, <1>w, <2>2, StopContainerEffect
  <2>4. \A v : Quiet(v)
    BY <2>2, <2>3, QuietRow
  <2>5. CallFits(r)'
    BY <1>0, <1>b, <2>1, <2>2 DEF CallFits
  <2> QED
    BY <1>0, <2>1, <2>2, <2>3, <2>4, <2>5 DEF CallMoves
<1>4. CASE SaveCheckpoint(c)
  <2>0. PICK n : n = Len(checkpoints) + 1
    OBVIOUS
  <2>1. /\ q.pc = "save"
        /\ workloads' = [workloads EXCEPT ![w].checkpointId = n]
        /\ UNCHANGED <<assignments, usageEvents, containers>>
    BY <1>0, <1>4, <2>0 DEF SaveCheckpoint, SetCheckpoint
  <2>2. \A v \in Workload : Quiet(v)
    BY <1>s, <1>w, <2>1 DEF Quiet, Row
  <2>3. CASE Return(c)
    BY <1>s, <2>1, <2>2, <2>3, ReturnMoves
  <2>4. CASE client[c].op = "migrate"
    <3> DEFINE r == [q EXCEPT !.pc = "stop", !.ckpt = n]
    <3>1. r.pc = "stop" /\ r.w = w /\ r.rt = q.rt
      BY <1>0, <1>c DEF ClientState
    <3>2. client' = [client EXCEPT ![c] = r]
      BY <1>0, <1>4, <2>0, <2>4 DEF SaveCheckpoint
    <3> HIDE DEF r
    <3>3. CallFits(r)'
      BY <1>0, <1>a, <1>b, <2>1, <2>2, <3>1 DEF CallFits, Quiet
    <3> QED
      BY <1>0, <1>s, <2>1, <2>2, <3>1, <3>2, <3>3 DEF CallMoves
  <2> QED
    BY <1>4, <2>3, <2>4 DEF SaveCheckpoint
<1>5. CASE MigrateStop(c)
  <2> DEFINE r == [q EXCEPT !.pc = AfterStop(q.to)]
  <2>1. r.pc \in {"place", "migrating"} /\ r.w = w
    BY <1>g DEF AfterStop
  <2>0. StopContainer(q.rt) \/ (~Faultless /\ UNCHANGED containers)
    BY <1>0, <1>5 DEF MigrateStop, Faultless
  <2>2. /\ client' = [client EXCEPT ![c] = r] /\ q.pc = "stop"
        /\ UNCHANGED <<workloads, assignments, usageEvents>>
    BY <1>0, <1>5 DEF MigrateStop, Goto, dbVars
  <2> HIDE DEF r
  <2>3. /\ ContainersStay
        /\ \A v : /\ Live(v)' \subseteq Live(v)
                  /\ Faultless => q.rt \notin Live(v)'
    BY <1>s, <1>w, <2>0, StopContainerEffect
  <2>4. \A v : Quiet(v)
    BY <2>2, <2>3, QuietRow
  <2>5. q.rt = rt
    BY <1>0, <1>b, <2>2 DEF CallFits
  <2>6. Down(w)'
    BY <1>a, <2>3, <2>5 DEF OnlyLive, Down
  <2>7. CallFits(r)'
    BY <2>1, <2>6 DEF CallFits
  <2> QED
    BY <1>0, <2>1, <2>2, <2>3, <2>4, <2>7 DEF CallMoves
<1>6. CASE MigratePlace(c)
  <2>1. q.pc = "place" /\ UNCHANGED <<workloads, assignments, usageEvents, containers>>
    BY <1>0, <1>6 DEF MigratePlace, sharedVars, dbVars
  <2>2. \A v : Quiet(v)
    BY <1>s, <2>1, QuietRow
  <2>3. PICK h : IF h = NoHost THEN Return(c)
                 ELSE client' = [client EXCEPT ![c] = [@ EXCEPT !.pc = "migrating", !.to = h]]
    BY <1>6 DEF MigratePlace
  <2>4. CASE Return(c)
    BY <1>s, <2>1, <2>2, <2>4, ReturnMoves
  <2>5. CASE h # NoHost
    <3> DEFINE r == [q EXCEPT !.pc = "migrating", !.to = h]
    <3>1. r.pc = "migrating" /\ r.w = w
      BY <1>0, <1>c DEF ClientState
    <3>2. client' = [client EXCEPT ![c] = r]
      BY <1>0, <2>3, <2>5
    <3> HIDE DEF r
    <3>3. Down(w)'
      BY <1>0, <1>b, <1>s, <2>1 DEF CallFits, Down
    <3>4. CallFits(r)'
      BY <3>1, <3>3 DEF CallFits
    <3> QED
      BY <1>0, <1>s, <2>1, <2>2, <3>1, <3>2, <3>4 DEF CallMoves
  <2> QED
    BY <2>3, <2>4, <2>5
<1>7. CASE MigrateMark(c)
  <2> DEFINE r == [q EXCEPT !.pc = "requeue"]
  <2>1. r.pc = "requeue" /\ r.w = w
    BY <1>g
  <2>2. /\ client' = [client EXCEPT ![c] = r] /\ q.pc = "migrating"
        /\ workloads' = [workloads EXCEPT ![w].status = "migrating"]
        /\ UNCHANGED <<assignments, usageEvents, containers>>
    BY <1>0, <1>7 DEF MigrateMark, MarkMigrating, Goto
  <2> HIDE DEF r
  <2>3. \A v \in Workload : Quiet(v)
    BY <1>s, <1>w, <2>2 DEF Quiet, Row
  <2>4. Down(w)'
    BY <1>0, <1>b, <1>s, <2>2 DEF CallFits, Down
  <2>5. CallFits(r)'
    BY <2>1, <2>4 DEF CallFits
  <2> QED
    BY <1>0, <1>s, <2>1, <2>2, <2>3, <2>5 DEF CallMoves
<1>8. CASE MigrateRequeue(c)
  <2>1. q.pc = "requeue" /\ UNCHANGED <<assignments, usageEvents, containers>>
    BY <1>0, <1>8 DEF MigrateRequeue
  <2>2. Down(w) /\ Down(w)'
    BY <1>0, <1>b, <1>s, <2>1 DEF CallFits, Down
  <2>3. CASE q.to \in Host
    <3> DEFINE op == IF q.ckpt = 0 THEN "start" ELSE "restore"
               r == [q EXCEPT !.pc = "enqueue", !.op = op]
    <3> HIDE DEF op
    <3>1. r.pc = "enqueue" /\ r.w = w
      BY <1>0, <1>c DEF ClientState
    <3>2. client' = [client EXCEPT ![c] = r] /\ RequeueOnHost(w, q.to, q.ckpt)
      BY <1>0, <1>8, <2>3 DEF MigrateRequeue, op
    <3> HIDE DEF r
    <3>3. \A v \in Workload : v # w => Quiet(v)
      BY <1>s, <1>w, <2>1, <3>2 DEF Quiet, RequeueOnHost
    <3>4. workloads'[w].runtimeId = 0
      BY <1>a, <1>w, <3>2 DEF RequeueOnHost
    <3>5. RuntimeOfRow(w)' /\ OnlyLive(w, workloads[w].runtimeId)'
      BY <2>2, <3>4 DEF RuntimeOfRow, OnlyLive, Down
    <3>6. CallFits(r)'
      BY <2>2, <3>1 DEF CallFits
    <3> QED
      BY <1>0, <1>s, <2>1, <3>1, <3>2, <3>3, <3>5, <3>6 DEF CallMoves
  <2>4. CASE q.to \notin Host
    <3>1. UNCHANGED workloads /\ Return(c)
      BY <1>0, <1>8, <2>4 DEF MigrateRequeue
    <3> QED
      BY <1>s, <2>1, <3>1, QuietRow, ReturnMoves
  <2> QED
    BY <2>3, <2>4
<1>9. CASE ClientAborts(c)
  <2>1. Return(c) /\ UNCHANGED <<workloads, assignments, usageEvents, containers>>
    BY <1>9 DEF ClientAborts, sharedVars, dbVars
  <2> QED
    BY <1>s, <2>1, QuietRow, ReturnMoves
<1>10. CASE SaveCheckpointFails(c)
  <2>0. PICK n : n = Len(checkpoints) + 1
    OBVIOUS
  <2>1. /\ q.pc = "save"
        /\ \/ UNCHANGED workloads
           \/ workloads' = [workloads EXCEPT ![w].checkpointId = n]
        /\ UNCHANGED <<assignments, usageEvents, containers>>
    BY <1>0, <1>10, <2>0 DEF SaveCheckpointFails, SetCheckpoint
  <2>2. \A v \in Workload : Quiet(v)
    <3>1. CASE UNCHANGED workloads
      BY <1>s, <2>1, <3>1, QuietRow
    <3>2. CASE workloads' = [workloads EXCEPT ![w].checkpointId = n]
      BY <1>s, <1>w, <2>1, <3>2 DEF Quiet, Row
    <3> QED
      BY <2>1, <3>1, <3>2
  <2>3. CASE Return(c)
    BY <1>s, <2>1, <2>2, <2>3, ReturnMoves
  <2>4. CASE Goto(c, "stop")
    <3> DEFINE r == [q EXCEPT !.pc = "stop"]
    <3>1. r.pc = "stop" /\ r.w = w /\ r.rt = q.rt
      BY <1>g
    <3>2. client' = [client EXCEPT ![c] = r]
      BY <1>0, <2>4 DEF Goto
    <3> HIDE DEF r
    <3>3. CallFits(r)'
      BY <1>0, <1>a, <1>b, <2>1, <2>2, <3>1 DEF CallFits, Quiet
    <3> QED
      BY <1>0, <1>s, <2>1, <2>2, <3>1, <3>2, <3>3 DEF CallMoves
  <2> QED
    BY <1>10, <2>3, <2>4 DEF SaveCheckpointFails
<1> QED
  BY <1>1, <1>2, <1>3, <1>4, <1>5, <1>6, <1>7, <1>8, <1>9, <1>10 DEF ClientContinues

\* The INSERT of an assignment: the call returns and leaves its place to a job.
LEMMA EnqueueKeepsRuntimeInv ==
    ASSUME Orderly, TypeInv, QueueInv, RuntimeInv, NEW c \in Client, Enqueue(c),
           UNCHANGED daemon
    PROVE  RuntimeInv'
<1>0. PICK q, w, new : q = client[c] /\ w = q.w /\ new = Len(assignments')
  OBVIOUS
<1>1. /\ q.pc = "enqueue"
      /\ CreateAssignment(w, q.to, q.op)
      /\ client' = [client EXCEPT ![c] = Returned]
      /\ UNCHANGED <<workloads, usageEvents, containers>>
  BY <1>0 DEF Enqueue, Return
<1>2. w \in Workload /\ q.to \in Host /\ q.op \in Action
  BY <1>0, <1>1 DEF TypeInv, ClientKnows, KnowsCall
<1>3. /\ assignments \in Seq(Assignment) /\ assignments' \in Seq(Assignment)
      /\ new = Len(assignments) + 1
      /\ \A j \in DOMAIN assignments :
            j \in DOMAIN assignments' /\ assignments'[j] = assignments[j]
      /\ \E t \in Second :
            assignments'[new] = [workload |-> w, host |-> q.to, action |-> q.op,
                                 status |-> "pending", assignedAt |-> t]
  BY <1>0, <1>1, <1>2, CreateAssignmentEffect DEF TypeInv, TypeOK, SharedTypeOK
<1>4. DOMAIN assignments' = DOMAIN assignments \cup {new}
  <2>1. DOMAIN assignments = 1..Len(assignments) /\ Len(assignments) \in Nat
    BY <1>3
  <2>2. DOMAIN assignments' = 1..Len(assignments')
    BY <1>3
  <2> QED
    BY <1>0, <1>3, <2>1, <2>2
<1>5. /\ \A v : \A j \in DOMAIN assignments : Open(j, v)' <=> Open(j, v)
      /\ \A v : Open(new, v)' <=> v = w
  BY <1>3 DEF Open
<1>6. /\ client'[c] = Returned
      /\ \A b \in Client \ {c} : client'[b] = client[b]
      /\ Returned.w = NoWorkload /\ Returned.pc = "idle"
  BY <1>1 DEF TypeInv, TypeOK, ClientTypeOK, Returned
<1>7. ContainersStay /\ \A v : Quiet(v)
  BY <1>1, ContainersUnchanged, QuietRow
<1>8. ASSUME NEW v \in Workload
      PROVE  OneAtATime(v)' /\ RuntimeOfRow(v)' /\ Accounted(v)'
  <2>1. OneAtATime(v) /\ v # NoWorkload
    BY WorkloadAssumption DEF RuntimeInv
  <2>2. \A a \in Client : client'[a].w = v => a # c /\ client[a].w = v
    BY <1>6, <2>1
  <2>3. v = w => client[c].w = v
    BY <1>0
  <2>4. OneAtATime(v)'
    BY <1>4, <1>5, <2>1, <2>2, <2>3 DEF OneAtATime
  <2>5. \A i \in DOMAIN assignments : Abandoned(i) => Abandoned(i)'
    BY <1>3 DEF Abandoned
  <2> QED
    BY <1>3, <1>7, <2>4, <2>5, QuietWorkload
<1>9. ASSUME NEW b \in Client
      PROVE  CallFits(client[b])'
  <2>1. CASE b = c
    BY <1>6, <2>1 DEF CallFits
  <2>2. CASE b # c
    BY <1>6, <1>7, <2>2, QuietCall
  <2> QED
    BY <2>1, <2>2
<1>10. ASSUME NEW i \in DOMAIN assignments'
       PROVE  JobFits(i)'
  <2>1. CASE i \in DOMAIN assignments
    BY <1>3, <1>7, <2>1, QuietJob
  <2>2. CASE i = new
    <3>1. q.op \in {"start", "restore"} => Down(w)
      BY <1>0, <1>1 DEF RuntimeInv, CallFits
    <3>2. assignments'[i].workload = w /\ assignments'[i].action = q.op
      BY <1>3, <2>2
    <3> QED
      BY <1>1, <3>1, <3>2 DEF JobFits, Down, Live
  <2> QED
    BY <1>4, <2>1, <2>2
<1>11. \A d \in Daemon : DaemonFits(d, daemon[d])' /\ SweepFits(d, daemon[d])'
  BY <1>7, QuietDaemon
<1>12. \A u \in usageEvents : UsageFits(u)'
  BY <1>1 DEF RuntimeInv, UsageFits
<1> QED
  BY <1>1, <1>8, <1>9, <1>10, <1>11, <1>12 DEF RuntimeInv

LEMMA ClientKeepsRuntimeInv ==
    ASSUME Orderly, TypeInv, QueueInv, RuntimeInv, NEW c \in Client, ClientStep(c),
           UNCHANGED daemon
    PROVE  RuntimeInv'
<1>1. CASE Enqueue(c)
  BY <1>1, EnqueueKeepsRuntimeInv
<1>2. CASE ClientBegins(c)
  BY <1>2, ClientBeginsOrderly, CallKeepsRuntimeInv
<1>3. CASE (ClientContinues(c) \/ ClientAborts(c)) /\ ~Enqueue(c)
  <2>1. client[c].pc # "idle"
    BY <1>3 DEF ClientContinues, ClientAborts, AssignWorkload, MarkAssigned, Snapshot,
         SaveCheckpoint, SaveCheckpointFails, MigrateStop, MigratePlace, MigrateMark,
         MigrateRequeue
  <2> QED
    BY <1>3, <2>1, ClientContinuesOrderly, CallKeepsRuntimeInv
<1> QED
  BY <1>1, <1>2, <1>3 DEF ClientStep

--------------------------------------------------------------------------------
(* A step of a daemon keeps the invariant *)

\* No job opens, and the rows of the table stay where they are.
JobsNarrow ==
    /\ DOMAIN assignments' = DOMAIN assignments
    /\ \A i \in DOMAIN assignments :
          /\ assignments'[i].workload = assignments[i].workload
          /\ assignments'[i].action = assignments[i].action
          /\ assignments'[i].status = "pending" => assignments[i].status = "pending"
          /\ assignments'[i].status = "processing" =>
                assignments[i].status \in {"pending", "processing"}
          /\ Abandoned(i) => Abandoned(i)'

\* Daemon d goes on to r.  It disturbs no workload but the one it handles.
DaemonMoves(d, r) ==
    /\ daemon' = [daemon EXCEPT ![d] = r]
    /\ UNCHANGED client
    /\ ContainersStay
    /\ JobsNarrow
    /\ \A w \in Workload :
          \/ Quiet(w) /\ ~(daemon[d].pc = "running" /\ daemon[d].w = w)
          \/ Handling(d, w) /\ RuntimeOfRow(w)' /\ Accounted(w)'
    /\ DaemonFits(d, r)' /\ SweepFits(d, r)'
    /\ \A u \in usageEvents' : u \in usageEvents \/ UsageFits(u)'

LEMMA DaemonKeepsRuntimeInv ==
    ASSUME Orderly, TypeInv, QueueInv, RuntimeInv, NEW d \in Daemon, NEW r, DaemonMoves(d, r)
    PROVE  RuntimeInv'
<1>a. /\ daemon'[d] = r /\ \A e \in Daemon \ {d} : daemon'[e] = daemon[e]
      /\ client' = client /\ ContainersStay /\ JobsNarrow
  BY DEF DaemonMoves, TypeInv, TypeOK, DaemonTypeOK
<1>b. ASSUME NEW w \in Workload,
             ~(Quiet(w) /\ ~(daemon[d].pc = "running" /\ daemon[d].w = w))
      PROVE  /\ RuntimeOfRow(w)' /\ Accounted(w)'
             /\ \A c \in Client : client[c].w # w
             /\ \A i \in DOMAIN assignments : Open(i, w) => assignments[i].status # "pending"
             /\ \A e \in Daemon \ {d} : ~Handling(e, w)
  <2>1. Handling(d, w) /\ RuntimeOfRow(w)' /\ Accounted(w)'
    BY <1>b DEF DaemonMoves
  <2> QED
    BY <2>1, HandlingAlone
<1>1. ASSUME NEW w \in Workload
      PROVE  OneAtATime(w)'
  <2>1. OneAtATime(w)
    BY DEF RuntimeInv
  <2>2. \A i \in DOMAIN assignments : Open(i, w)' => Open(i, w)
    BY <1>a DEF JobsNarrow, Open
  <2> QED
    BY <1>a, <2>1, <2>2 DEF OneAtATime, JobsNarrow
<1>2. ASSUME NEW w \in Workload
      PROVE  RuntimeOfRow(w)' /\ Accounted(w)'
  <2>1. CASE Quiet(w) /\ ~(daemon[d].pc = "running" /\ daemon[d].w = w)
    <3>1. \A e \in Daemon : daemon[e].pc = "running" /\ daemon[e].w = w =>
                               daemon'[e] = daemon[e]
      BY <1>a, <2>1
    <3> QED
      BY <1>a, <2>1, <3>1, QuietWorkload DEF JobsNarrow
  <2> QED
    BY <1>b, <2>1
<1>3. ASSUME NEW c \in Client
      PROVE  CallFits(client[c])'
  <2>1. client[c].pc # "idle" => Quiet(client[c].w)
    BY <1>b DEF TypeInv, ClientKnows, KnowsCall
  <2> QED
    BY <1>a, <2>1, QuietCall
<1>4. ASSUME NEW i \in DOMAIN assignments
      PROVE  JobFits(i)'
  <2>1. assignments[i].workload \in Workload
    BY JobType
  <2>2. assignments[i].status = "pending" => Quiet(assignments[i].workload)
    BY <1>b, <2>1 DEF Open
  <2> QED
    BY <1>a, <2>2, QuietJob DEF JobsNarrow
<1>5. ASSUME NEW e \in Daemon
      PROVE  DaemonFits(e, daemon[e])' /\ SweepFits(e, daemon[e])'
  <2>1. CASE e = d
    BY <1>a, <2>1 DEF DaemonMoves, DaemonFits, SweepFits, OnlyLive, Down, Live
  <2>2. CASE e # d
    <3>1. Handling(e, daemon[e].w) => Quiet(daemon[e].w)
      BY <1>b, <2>2, HandlingEffect
    <3> QED
      BY <1>a, <2>2, <3>1, QuietDaemon
  <2> QED
    BY <2>1, <2>2
<1>6. \A u \in usageEvents' : UsageFits(u)'
  BY <1>a DEF DaemonMoves, RuntimeInv, UsageFits, ContainersStay
<1> QED
  BY <1>a, <1>1, <1>2, <1>3, <1>4, <1>5, <1>6 DEF RuntimeInv, JobsNarrow

LEMMA NarrowUnwritten ==
    ASSUME TypeInv, UNCHANGED assignments, NEW d \in Daemon, NEW r,
           daemon' = [daemon EXCEPT ![d] = r],
           r.pc \in Executing => daemon[d].pc \in Executing /\ r.job = daemon[d].job
    PROVE  JobsNarrow
<1>1. daemon'[d] = r /\ \A e \in Daemon \ {d} : daemon'[e] = daemon[e]
  BY DEF TypeInv, TypeOK, DaemonTypeOK
<1>2. \A i \in DOMAIN assignments : Abandoned(i) => Abandoned(i)'
  BY <1>1 DEF Abandoned
<1>3. \A i \in DOMAIN assignments :
         assignments'[i].status = "processing" =>
            assignments[i].status \in {"pending", "processing"}
  OBVIOUS
<1> QED
  BY <1>2, <1>3 DEF JobsNarrow

\* Daemon d takes a pending job, or concludes the one it executes.
LEMMA NarrowWritten ==
    ASSUME TypeInv, NEW d \in Daemon, NEW r, daemon' = [daemon EXCEPT ![d] = r],
           NEW i \in DOMAIN assignments, NEW s \in {"processing", "completed", "failed"},
           SetAssignment(i, s),
           s = "processing" => assignments[i].status = "pending",
           \/ assignments[i].status = "pending"
           \/ daemon[d].pc \in Executing /\ daemon[d].job = i,
           r.pc \in Executing => r.job = i
    PROVE  JobsNarrow
<1>1. daemon'[d] = r /\ \A e \in Daemon \ {d} : daemon'[e] = daemon[e]
  BY DEF TypeInv, TypeOK, DaemonTypeOK
<1>2. /\ DOMAIN assignments' = DOMAIN assignments
      /\ \A j \in DOMAIN assignments :
            /\ assignments'[j].workload = assignments[j].workload
            /\ assignments'[j].action = assignments[j].action
            /\ assignments'[j].status = IF j = i THEN s ELSE assignments[j].status
  BY SetAssignmentEffect DEF TypeInv, TypeOK, SharedTypeOK, AssignmentStatus
<1>3. ASSUME NEW j \in DOMAIN assignments, Abandoned(j)
      PROVE  Abandoned(j)'
  <2>1. j # i
    BY <1>3 DEF Abandoned
  <2> QED
    BY <1>1, <1>2, <1>3, <2>1 DEF Abandoned
<1> QED
  BY <1>2, <1>3 DEF JobsNarrow

\* A step that starts nothing.
LEMMA DaemonRests ==
    ASSUME TypeInv, RuntimeInv, NEW d \in Daemon, NEW r,
           daemon' = [daemon EXCEPT ![d] = r], UNCHANGED <<client, usageEvents>>,
           daemon[d].pc # "running", r.pc \notin {"inspect", "launch", "running"},
           r.sweep \subseteq daemon[d].sweep,
           ContainersStay, JobsNarrow, \A w \in Workload : Quiet(w)
    PROVE  DaemonMoves(d, r)
<1>1. SweepFits(d, r)'
  BY DEF RuntimeInv, SweepFits, ContainersStay
<1>2. DaemonFits(d, r)'
  BY DEF DaemonFits
<1> QED
  BY <1>1, <1>2 DEF DaemonMoves

\* The outcome of a job leaves host and runtime of the row alone.
LEMMA OutcomeQuiet ==
    ASSUME TypeInv, UNCHANGED containers, NEW v \in Workload,
           UNCHANGED workloads \/ MarkSleeping(v) \/ MarkFailed(v)
    PROVE  \A w \in Workload : Quiet(w)
<1>1. workloads \in [Workload -> Row] /\ \A w : Live(w)' = Live(w)
  BY ContainersUnchanged DEF TypeInv, TypeOK, SharedTypeOK
<1>2. CASE UNCHANGED workloads
  BY <1>1, <1>2 DEF Quiet
<1>3. CASE MarkSleeping(v)
  BY <1>1, <1>3 DEF Quiet, MarkSleeping, Row
<1>4. CASE MarkFailed(v)
  BY <1>1, <1>4 DEF Quiet, MarkFailed, Row
<1> QED
  BY <1>2, <1>3, <1>4

\* The steps of a daemon that start nothing.
Resting(d) ==
    \/ StartDaemon(d) \/ StopDaemon(d) \/ RunOnce(d)
    \/ StopRuntime(d) \/ Stopped(d) \/ Complete(d) \/ FailAssignment(d) \/ FailWorkload(d)
    \/ Condemn(d) \/ EndLoop(d)
    \/ CrashDaemon(d) /\ daemon[d].pc # "running"
    \/ Launch(d) /\ Continue(d, "fail") /\ UNCHANGED containers

LEMMA RestingMoves ==
    ASSUME Orderly, TypeInv, QueueInv, RuntimeInv, NEW d \in Daemon, Resting(d),
           UNCHANGED clientVars
    PROVE  \E r : DaemonMoves(d, r)
<1>q. PICK q : q = daemon[d]
  OBVIOUS
<1>t. q \in DaemonState /\ KnowsJob(q) /\ JobOf(d, q)
  BY <1>q DEF TypeInv, TypeOK, DaemonTypeOK, DaemonKnows, QueueInv
<1>c. client' = client
  BY DEF clientVars
<1>w. q.pc \in Working \cup {"done", "condemn"} => q.w \in Workload
  BY <1>t, JobType DEF KnowsJob
<1>s. UNCHANGED containers => ContainersStay
  BY ContainersUnchanged
<1>u. UNCHANGED <<workloads, containers>> => \A w \in Workload : Quiet(w)
  BY ContainersUnchanged, QuietRow
<1>o. MarkSleeping(q.w) \/ MarkFailed(q.w) =>
        (UNCHANGED containers /\ q.w \in Workload => \A w \in Workload : Quiet(w))
  BY OutcomeQuiet
<1>1. ASSUME NEW pc \in {"off", "idle", "sleeping", "done", "fail", "failed"}, Continue(d, pc),
             q.pc # "running",
             pc \in {"sleeping", "done", "fail"} => q.pc \in Executing,
             UNCHANGED <<assignments, usageEvents>>,
             ContainersStay, \A w \in Workload : Quiet(w)
      PROVE  \E r : DaemonMoves(d, r)
  <2> DEFINE r == [q EXCEPT !.pc = pc]
  <2>1. r.pc = pc /\ r.job = q.job /\ r.sweep = q.sweep
    BY <1>t DEF DaemonState
  <2>2. daemon' = [daemon EXCEPT ![d] = r]
    BY <1>q, <1>1 DEF Continue
  <2> HIDE DEF r
  <2>3. JobsNarrow
    BY <1>q, <1>1, <2>1, <2>2, NarrowUnwritten DEF Executing, Working
  <2> QED
    BY <1>q, <1>c, <1>1, <2>1, <2>2, <2>3, DaemonRests
<1>2. ASSUME NextAssignment(d), UNCHANGED usageEvents, q.pc # "running",
             \/ UNCHANGED assignments
             \/ \E s \in {"completed", "failed"} :
                   SetAssignment(q.job, s) /\ q.pc \in Executing,
             ContainersStay, \A w \in Workload : Quiet(w)
      PROVE  \E r : DaemonMoves(d, r)
  <2> DEFINE r == [q EXCEPT !.pc = "next", !.job = 0, !.w = NoWorkload, !.rt = 0]
  <2>1. r.pc = "next" /\ r.sweep = q.sweep
    BY <1>t DEF DaemonState
  <2>2. daemon' = [daemon EXCEPT ![d] = r]
    BY <1>q, <1>2 DEF NextAssignment
  <2> HIDE DEF r
  <2>3. JobsNarrow
    <3>1. CASE UNCHANGED assignments
      BY <2>1, <2>2, <3>1, NarrowUnwritten DEF Executing, Working
    <3>2. ASSUME NEW s \in {"completed", "failed"}, SetAssignment(q.job, s), q.pc \in Executing
          PROVE  JobsNarrow
      <4>1. q.job \in DOMAIN assignments
        BY <1>t, <3>2 DEF KnowsJob, Executing
      <4> QED
        BY <1>q, <2>1, <2>2, <3>2, <4>1, NarrowWritten DEF Executing, Working
    <3> QED
      BY <1>2, <3>1, <3>2
  <2> QED
    BY <1>q, <1>c, <1>2, <2>1, <2>2, <2>3, DaemonRests
<1>3. CASE StartDaemon(d) \/ StopDaemon(d)
  BY <1>q, <1>s, <1>u, <1>1, <1>3 DEF StartDaemon, StopDaemon, At
<1>4. CASE RunOnce(d)
  <2>0. PICK batch \in NextPendingForHost(Serves[d]) :
           daemon' = [daemon EXCEPT ![d] = [daemon[d] EXCEPT !.pc = "next", !.batch = batch]]
    BY <1>4 DEF RunOnce
  <2> DEFINE r == [q EXCEPT !.pc = "next", !.batch = batch]
  <2>1. r.pc = "next" /\ r.sweep = q.sweep
    BY <1>t DEF DaemonState
  <2>2. /\ daemon' = [daemon EXCEPT ![d] = r] /\ q.pc = "idle"
        /\ UNCHANGED <<workloads, assignments, usageEvents, containers>>
    BY <1>q, <1>4, <2>0 DEF RunOnce, At, sharedVars, dbVars
  <2> HIDE DEF r
  <2>3. JobsNarrow
    BY <2>1, <2>2, NarrowUnwritten DEF Executing, Working
  <2> QED
    BY <1>q, <1>c, <1>s, <1>u, <2>1, <2>2, <2>3, DaemonRests
<1>5. CASE StopRuntime(d)
  <2>1. /\ \/ StopContainer(q.rt) /\ Continue(d, "sleeping")
           \/ UNCHANGED containers /\ Continue(d, "fail")
        /\ q.pc = "stop"
        /\ UNCHANGED <<workloads, assignments, usageEvents>>
    BY <1>q, <1>5 DEF StopRuntime, At, dbVars
  <2>2. ContainersStay /\ \A v : Live(v)' \subseteq Live(v)
    BY <2>1, StopContainerEffect, ContainersUnchanged DEF TypeInv, TypeOK, SharedTypeOK
  <2>3. \A v : Quiet(v)
    BY <2>1, <2>2, QuietRow
  <2> QED
    BY <1>1, <2>1, <2>2, <2>3 DEF Executing, Working
<1>6. CASE Stopped(d)
  <2>1. /\ \/ MarkSleeping(q.w) /\ Continue(d, "done")
           \/ UNCHANGED workloads /\ Continue(d, "fail")
        /\ q.pc = "sleeping"
        /\ UNCHANGED <<assignments, usageEvents, containers>>
    BY <1>q, <1>6 DEF Stopped, StatementThrows, At, sharedVars, dbVars
  <2>2. \A w \in Workload : Quiet(w)
    BY <1>w, <1>o, <1>u, <2>1 DEF Working
  <2> QED
    BY <1>s, <1>1, <2>1, <2>2 DEF Executing, Working
<1>7. CASE Complete(d)
  <2>1. /\ q.pc = "done" /\ UNCHANGED <<workloads, usageEvents, containers>>
        /\ \/ SetAssignment(q.job, "completed") /\ NextAssignment(d)
           \/ SetAssignment(q.job, "completed") /\ Continue(d, "fail")
           \/ UNCHANGED assignments /\ Continue(d, "fail")
    BY <1>q, <1>7 DEF Complete, At
  <2>2. CASE SetAssignment(q.job, "completed") /\ NextAssignment(d)
    BY <1>s, <1>u, <1>2, <2>1, <2>2 DEF Executing, Working
  <2>3. CASE SetAssignment(q.job, "completed") /\ Continue(d, "fail")
    <3> DEFINE r == [q EXCEPT !.pc = "fail"]
    <3>1. r.pc = "fail" /\ r.job = q.job /\ r.sweep = q.sweep
      BY <1>t DEF DaemonState
    <3>2. daemon' = [daemon EXCEPT ![d] = r]
      BY <1>q, <2>3 DEF Continue
    <3> HIDE DEF r
    <3>3. q.pc \in Executing /\ q.job \in DOMAIN assignments
      BY <1>t, <2>1 DEF KnowsJob, Executing, Working
    <3>4. JobsNarrow
      BY <1>q, <2>3, <3>1, <3>2, <3>3, NarrowWritten DEF Executing
    <3> QED
      BY <1>q, <1>c, <1>s, <1>u, <2>1, <3>1, <3>2, <3>4, DaemonRests
  <2>4. CASE UNCHANGED assignments /\ Continue(d, "fail")
    BY <1>s, <1>u, <1>1, <2>1, <2>4 DEF Executing, Working
  <2> QED
    BY <2>1, <2>2, <2>3, <2>4
<1>8. CASE FailAssignment(d)
  <2>1. /\ SetAssignment(q.job, "failed") /\ Continue(d, "failed") /\ q.pc = "fail"
        /\ UNCHANGED <<workloads, usageEvents, containers>>
    BY <1>q, <1>8 DEF FailAssignment, At
  <2> DEFINE r == [q EXCEPT !.pc = "failed"]
  <2>2. r.pc = "failed" /\ r.sweep = q.sweep
    BY <1>t DEF DaemonState
  <2>3. daemon' = [daemon EXCEPT ![d] = r]
    BY <1>q, <2>1 DEF Continue
  <2> HIDE DEF r
  <2>4. q.pc \in Executing /\ q.job \in DOMAIN assignments
    BY <1>t, <2>1 DEF KnowsJob, Executing, Working
  <2>5. JobsNarrow
    BY <1>q, <2>1, <2>2, <2>3, <2>4, NarrowWritten DEF Executing
  <2> QED
    BY <1>q, <1>c, <1>s, <1>u, <2>1, <2>2, <2>3, <2>5, DaemonRests
<1>9. CASE FailWorkload(d)
  <2>1. /\ MarkFailed(q.w) /\ NextAssignment(d) /\ q.pc = "failed"
        /\ UNCHANGED <<assignments, usageEvents, containers>>
    BY <1>q, <1>9 DEF FailWorkload, At
  <2>2. \A w \in Workload : Quiet(w)
    BY <1>w, <1>o, <2>1 DEF Working
  <2> QED
    BY <1>s, <1>2, <2>1, <2>2
<1>10. CASE Condemn(d)
  <2> DEFINE r == [q EXCEPT !.pc = "sweep", !.w = NoWorkload]
  <2>1. r.pc = "sweep" /\ r.sweep = q.sweep
    BY <1>t DEF DaemonState
  <2>2. /\ daemon' = [daemon EXCEPT ![d] = r] /\ q.pc = "condemn" /\ MarkFailed(q.w)
        /\ UNCHANGED <<assignments, usageEvents, containers>>
    BY <1>q, <1>10 DEF Condemn, At
  <2> HIDE DEF r
  <2>3. \A w \in Workload : Quiet(w)
    BY <1>w, <1>o, <2>2
  <2>4. JobsNarrow
    BY <2>1, <2>2, NarrowUnwritten DEF Executing, Working
  <2> QED
    BY <1>q, <1>c, <1>s, <2>1, <2>2, <2>3, <2>4, DaemonRests
<1>11. CASE EndLoop(d)
  BY <1>q, <1>s, <1>u, <1>1, <1>11 DEF EndLoop, At, sharedVars, dbVars
<1>12. CASE CrashDaemon(d) /\ q.pc # "running"
  <2>1. /\ daemon' = [daemon EXCEPT ![d] = Off]
        /\ UNCHANGED <<workloads, assignments, usageEvents, containers>>
    BY <1>12 DEF CrashDaemon
  <2>2. Off.pc = "off" /\ Off.sweep = {}
    BY DEF Off
  <2>3. JobsNarrow
    BY <2>1, <2>2, NarrowUnwritten DEF Executing, Working
  <2> QED
    BY <1>q, <1>c, <1>s, <1>u, <1>12, <2>1, <2>2, <2>3, DaemonRests
<1>13. CASE Launch(d) /\ Continue(d, "fail") /\ UNCHANGED containers
  BY <1>q, <1>s, <1>u, <1>1, <1>13 DEF Launch, At, dbVars, Executing, Working
<1> QED
  BY <1>q, <1>3, <1>4, <1>5, <1>6, <1>7, <1>8, <1>9, <1>10, <1>11, <1>12, <1>13 DEF Resting

\* The daemon takes a job: what it reads of the row tells it the truth.
LEMMA ClaimMoves ==
    ASSUME Orderly, TypeInv, QueueInv, RuntimeInv, NEW d \in Daemon, Claim(d),
           UNCHANGED clientVars
    PROVE  \E r : DaemonMoves(d, r)
<1>q. PICK q : q = daemon[d]
  OBVIOUS
<1>1. PICK i \in q.batch :
         /\ SetAssignment(i, "processing")
         /\ daemon' = [daemon EXCEPT ![d] =
               [q EXCEPT !.pc = Dispatch(d, assignments[i].action,
                                         workloads[assignments[i].workload]),
                         !.batch = q.batch \ {i},
                         !.job = i, !.w = assignments[i].workload,
                         !.rt = workloads[assignments[i].workload].runtimeId]]
  BY <1>q DEF Claim
<1>2. PICK w, row, action, pc :
         /\ w = assignments[i].workload /\ row = workloads[w]
         /\ action = assignments[i].action /\ pc = Dispatch(d, action, row)
  OBVIOUS
<1>3. /\ q.pc = "next"
      /\ UNCHANGED <<client, workloads, usageEvents, containers>>
  BY <1>q DEF Claim, At, clientVars
<1>4. q \in DaemonState /\ i \in DOMAIN assignments /\ assignments[i].status = "pending"
  BY <1>q DEF TypeInv, TypeOK, DaemonTypeOK, DaemonKnows, KnowsJob, QueueInv, BatchOf, WaitsFor
<1>5. w \in Workload /\ Open(i, w) /\ action \in Action
  BY <1>2, <1>4, JobType DEF Open, Assignment
<1> DEFINE r == [q EXCEPT !.pc = pc, !.batch = q.batch \ {i}, !.job = i, !.w = w,
                          !.rt = row.runtimeId]
<1>6. r.pc = pc /\ r.w = w /\ r.rt = row.runtimeId /\ r.job = i /\ r.sweep = q.sweep
  BY <1>4 DEF DaemonState
<1>7. daemon' = [daemon EXCEPT ![d] = r]
  BY <1>1, <1>2
<1> HIDE DEF r
<1>8. ContainersStay /\ \A v : Quiet(v)
  BY <1>3, ContainersUnchanged, QuietRow
<1>9. JobsNarrow
  BY <1>1, <1>4, <1>6, <1>7, NarrowWritten
<1>10. OnlyLive(w, row.runtimeId)
  BY <1>2, <1>4, <1>5, RowNamesLive
<1>11. DaemonFits(d, r)'
  <2>1. pc \in {"sleeping", "stop", "fail", "inspect", "launch"}
    BY <1>2, DispatchType
  <2>2. pc \in {"inspect", "launch"} => row.hostId = Serves[d]
    BY <1>2 DEF Dispatch
  <2>3. pc = "inspect" => row.runtimeId # 0
    BY <1>2 DEF Dispatch
  <2>4. pc = "launch" => Down(w)
    <3>1. CASE action \in {"start", "restore"}
      BY <1>2, <1>4, <3>1 DEF RuntimeInv, JobFits
    <3>2. CASE action = "wake" /\ row.runtimeId = 0
      BY <1>10, <3>2, NoRuntimeZero
    <3>3. pc = "launch" => action # "sleep" /\ (action = "wake" => row.runtimeId = 0)
      BY <1>2 DEF Dispatch
    <3> QED
      BY <1>5, <3>1, <3>2, <3>3 DEF Action
  <2>5. Down(w) => Down(w)'
    BY <1>8, QuietKeeps
  <2> QED
    BY <1>2, <1>3, <1>6, <2>1, <2>2, <2>3, <2>4, <2>5 DEF DaemonFits
<1>12. SweepFits(d, r)'
  BY <1>q, <1>6, <1>8 DEF RuntimeInv, SweepFits, ContainersStay
<1> QED
  BY <1>q, <1>3, <1>7, <1>8, <1>9, <1>11, <1>12 DEF DaemonMoves

\* handleWake goes on with a runtime that runs, and replaces one that is down.
LEMMA InspectOldMoves ==
    ASSUME Orderly, TypeInv, QueueInv, RuntimeInv, NEW d \in Daemon, InspectOld(d),
           UNCHANGED clientVars
    PROVE  \E r : DaemonMoves(d, r)
<1>q. PICK q, w, rt : q = daemon[d] /\ w = q.w /\ rt = q.rt
  OBVIOUS
<1>1. /\ q.pc = "inspect"
      /\ UNCHANGED <<client, workloads, assignments, usageEvents, containers>>
  BY <1>q DEF InspectOld, At, clientVars, sharedVars, dbVars
<1>2. q \in DaemonState
  BY <1>q DEF TypeInv, TypeOK, DaemonTypeOK
<1>3. Handling(d, w)
  BY <1>q, <1>1 DEF Handling, Executing, Working
<1>4. w \in Workload
  BY <1>3, HandlingEffect
<1>5. /\ workloads[w].hostId = Serves[d] /\ rt = workloads[w].runtimeId /\ rt # 0
      /\ rt \in DOMAIN containers
      /\ containers[rt].workload = w /\ containers[rt].host = Serves[d]
  BY <1>q, <1>1, <1>4 DEF RuntimeInv, DaemonFits, RuntimeOfRow
<1>6. OnlyLive(w, rt)
  BY <1>q, <1>1, <1>3, <1>4, <1>5, RowNamesLive
<1>7. PICK pc \in {"running", "launch"} :
         /\ Continue(d, pc)
         /\ pc = "launch" /\ Faultless => containers[rt].state = "stopped"
  <2>1. PICK answer \in StatusAnswers(rt) :
           Continue(d, CASE answer = "running" -> "running"
                         [] answer = "stopped" -> "launch"
                         [] OTHER -> Dispatch(d, "start", workloads[daemon[d].w]))
    BY <1>q DEF InspectOld
  <2>2. containers[rt] \in Container
    BY <1>5, ElementOfSeq DEF TypeInv, TypeOK, SharedTypeOK
  <2>3. /\ answer \in {"running", "stopped", "missing"}
        /\ Faultless => answer = containers[rt].state
    BY <2>2 DEF Container, StatusAnswers, Faultless
  <2>4. CASE answer = "running"
    BY <2>1, <2>4
  <2>5. CASE answer = "stopped"
    BY <2>1, <2>3, <2>5
  <2>6. CASE answer = "missing"
    <3>1. Dispatch(d, "start", workloads[daemon[d].w]) = "launch"
      BY <1>q, <1>5 DEF Dispatch
    <3>2. Continue(d, "launch")
      BY <2>1, <2>6, <3>1
    <3>3. containers[rt].state # "missing"
      BY <2>2 DEF Container
    <3> QED
      BY <2>3, <2>6, <3>2, <3>3
  <2> QED
    BY <2>3, <2>4, <2>5, <2>6
<1> DEFINE r == [q EXCEPT !.pc = pc]
<1>8. /\ r.pc = pc /\ r.w = w /\ r.rt = rt /\ r.job = q.job /\ r.sweep = q.sweep
      /\ daemon' = [daemon EXCEPT ![d] = r]
  BY <1>q, <1>2, <1>7 DEF DaemonState, Continue
<1> HIDE DEF r
<1>9. ContainersStay /\ \A v : Quiet(v)
  BY <1>1, ContainersUnchanged, QuietRow
<1>10. JobsNarrow
  BY <1>q, <1>1, <1>8, NarrowUnwritten DEF Executing, Working
<1>11. DaemonFits(d, r)'
  <2>1. OnlyLive(w, rt)'
    BY <1>6, <1>9, QuietKeeps
  <2>2. pc = "launch" => Down(w)'
    BY <1>1, <1>7, <2>1 DEF OnlyLive, Down, Live
  <2> QED
    BY <1>1, <1>5, <1>8, <2>1, <2>2 DEF DaemonFits
<1>12. SweepFits(d, r)'
  BY <1>q, <1>8, <1>9 DEF RuntimeInv, SweepFits, ContainersStay
<1> QED
  BY <1>q, <1>1, <1>8, <1>9, <1>10, <1>11, <1>12 DEF DaemonMoves

\* runtime.launch finds the old runtime down.
LEMMA LaunchMoves ==
    ASSUME Orderly, TypeInv, QueueInv, RuntimeInv, NEW d \in Daemon, Launch(d),
           ~UNCHANGED containers \/ ~Continue(d, "fail"), UNCHANGED clientVars
    PROVE  \E r : DaemonMoves(d, r)
<1>q. PICK q, w, new : q = daemon[d] /\ w = q.w /\ new = Len(containers) + 1
  OBVIOUS
<1>1. /\ q.pc = "launch" /\ LaunchContainer(w, Serves[d])
      /\ daemon' = [daemon EXCEPT ![d] = [q EXCEPT !.pc = "running", !.rt = new]]
      /\ UNCHANGED <<client, workloads, assignments, usageEvents>>
  BY <1>q DEF Launch, At, clientVars, dbVars
<1>2. q \in DaemonState
  BY <1>q DEF TypeInv, TypeOK, DaemonTypeOK
<1>3. Handling(d, w)
  BY <1>q, <1>1 DEF Handling, Executing, Working
<1>4. w \in Workload /\ Serves[d] \in Host
  BY <1>3, HandlingEffect, ServesAssumption
<1>5. workloads[w].hostId = Serves[d] /\ Down(w)
  BY <1>q, <1>1 DEF RuntimeInv, DaemonFits
<1>6. /\ ContainersStay
      /\ new \in DOMAIN containers'
      /\ containers'[new].workload = w /\ containers'[new].host = Serves[d]
      /\ \A v : v # w => Live(v)' \subseteq Live(v)
      /\ Live(w)' \subseteq Live(w) \cup {new}
  BY <1>q, <1>1, <1>4, LaunchContainerEffect DEF TypeInv, TypeOK, SharedTypeOK
<1> DEFINE r == [q EXCEPT !.pc = "running", !.rt = new]
<1>7. /\ r.pc = "running" /\ r.w = w /\ r.rt = new /\ r.job = q.job /\ r.sweep = q.sweep
      /\ daemon' = [daemon EXCEPT ![d] = r]
  BY <1>q, <1>1, <1>2 DEF DaemonState
<1> HIDE DEF r
<1>8. daemon'[d] = r
  BY <1>7 DEF TypeInv, TypeOK, DaemonTypeOK
<1>9. JobsNarrow
  BY <1>q, <1>1, <1>7, NarrowUnwritten DEF Executing, Working
<1>10. \A v : v # w => Quiet(v) /\ ~(q.pc = "running" /\ q.w = v)
  BY <1>q, <1>1, <1>6, QuietRow
<1>11. RuntimeOfRow(w)' /\ Accounted(w)'
  <2>1. Accounted(w)'
    BY <1>7, <1>8 DEF Accounted
  <2>2. RuntimeOfRow(w)
    BY <1>4 DEF RuntimeInv
  <2> QED
    BY <1>1, <1>6, <2>1, <2>2 DEF RuntimeOfRow, ContainersStay
<1>12. DaemonFits(d, r)'
  <2>1. OnlyLive(w, new)'
    BY <1>5, <1>6 DEF OnlyLive, Down
  <2> QED
    BY <1>1, <1>5, <1>6, <1>7, <2>1 DEF DaemonFits
<1>13. SweepFits(d, r)'
  BY <1>q, <1>6, <1>7 DEF RuntimeInv, SweepFits, ContainersStay
<1> QED
  BY <1>q, <1>1, <1>3, <1>6, <1>7, <1>9, <1>10, <1>11, <1>12, <1>13 DEF DaemonMoves

\* The row comes to name the runtime the daemon launched.
LEMMA LaunchedMoves ==
    ASSUME Orderly, TypeInv, QueueInv, RuntimeInv, NEW d \in Daemon, Launched(d),
           UNCHANGED clientVars
    PROVE  \E r : DaemonMoves(d, r)
<1>q. PICK q, w, rt : q = daemon[d] /\ w = q.w /\ rt = q.rt
  OBVIOUS
<1>1. /\ q.pc = "running"
      /\ \/ MarkRunning(w, rt) /\ Continue(d, "done")
         \/ "db" \in Faults /\ UNCHANGED workloads /\ Continue(d, "fail")
      /\ UNCHANGED <<client, assignments, usageEvents, containers>>
  BY <1>q DEF Launched, StatementThrows, At, clientVars, sharedVars, dbVars
<1>2. q \in DaemonState /\ workloads \in [Workload -> Row]
  BY <1>q DEF TypeInv, TypeOK, DaemonTypeOK, SharedTypeOK
<1>3. Handling(d, w)
  BY <1>q, <1>1 DEF Handling, Executing, Working
<1>4. w \in Workload
  BY <1>3, HandlingEffect
<1>5. /\ workloads[w].hostId = Serves[d]
      /\ OnlyLive(w, rt) /\ rt \in DOMAIN containers
      /\ containers[rt].workload = w /\ containers[rt].host = Serves[d]
  BY <1>q, <1>1 DEF RuntimeInv, DaemonFits
<1>r. PICK pc \in {"done", "fail"} : Continue(d, pc)
  BY <1>1
<1> DEFINE r == [q EXCEPT !.pc = pc]
<1>6. /\ r.pc = pc /\ r.job = q.job /\ r.sweep = q.sweep
      /\ daemon' = [daemon EXCEPT ![d] = r]
  BY <1>q, <1>2, <1>r DEF DaemonState, Continue
<1> HIDE DEF r
<1>7. ContainersStay /\ \A v : Live(v)' = Live(v)
  BY <1>1, ContainersUnchanged
<1>8. \A v \in Workload \ {w} : workloads'[v] = workloads[v]
  BY <1>1, <1>2 DEF MarkRunning
<1>9. \A v \in Workload : v # w => Quiet(v) /\ ~(q.pc = "running" /\ q.w = v)
  BY <1>q, <1>7, <1>8 DEF Quiet
<1>10. RuntimeOfRow(w)' /\ Accounted(w)'
  <2>1. CASE MarkRunning(w, rt)
    <3>1. /\ workloads'[w].runtimeId = rt /\ workloads'[w].hostId = Serves[d]
          /\ workloads'[w].status = "running"
      BY <1>2, <1>4, <1>5, <2>1 DEF MarkRunning, Row
    <3> QED
      BY <1>1, <1>5, <1>7, <3>1 DEF RuntimeOfRow, Accounted, OnlyLive
  <2>2. CASE "db" \in Faults /\ UNCHANGED workloads
    BY <1>1, <1>4, <2>2 DEF RuntimeInv, RuntimeOfRow, Accounted, OnlyLive, Faultless
  <2> QED
    BY <1>1, <2>1, <2>2
<1>11. JobsNarrow
  BY <1>q, <1>1, <1>6, NarrowUnwritten DEF Executing, Working
<1>12. DaemonFits(d, r)' /\ SweepFits(d, r)'
  BY <1>q, <1>6, <1>7 DEF RuntimeInv, DaemonFits, SweepFits, ContainersStay
<1> QED
  BY <1>q, <1>1, <1>3, <1>6, <1>7, <1>9, <1>10, <1>11, <1>12 DEF DaemonMoves

\* A daemon that dies between its launch and its write leaves a container that
\* no row names, and a job that holds off every later call.
LEMMA CrashMoves ==
    ASSUME Orderly, TypeInv, QueueInv, RuntimeInv, NEW d \in Daemon, CrashDaemon(d),
           daemon[d].pc = "running", UNCHANGED clientVars
    PROVE  DaemonMoves(d, Off)
<1>q. PICK w, rt, i : w = daemon[d].w /\ rt = daemon[d].rt /\ i = daemon[d].job
  OBVIOUS
<1>1. /\ "crash" \in Faults /\ daemon' = [daemon EXCEPT ![d] = Off]
      /\ UNCHANGED <<client, workloads, assignments, usageEvents, containers>>
  BY DEF CrashDaemon, clientVars
<1>2. Handling(d, w)
  BY <1>q DEF Handling, Executing, Working
<1>3. /\ w \in Workload /\ i \in DOMAIN assignments
      /\ assignments[i].workload = w /\ assignments[i].status = "processing"
  BY <1>q, <1>2, HandlingEffect DEF Open
<1>4. OnlyLive(w, rt) /\ RuntimeOfRow(w)
  BY <1>q, <1>3 DEF RuntimeInv, DaemonFits
<1>5. rt \in Nat
  BY <1>q DEF TypeInv, TypeOK, DaemonTypeOK, DaemonState
<1>6. /\ daemon'[d] = Off /\ \A e \in Daemon \ {d} : daemon'[e] = daemon[e]
      /\ Off.pc = "off" /\ Off.sweep = {}
  BY <1>1 DEF TypeInv, TypeOK, DaemonTypeOK, Off
<1>7. Abandoned(i)'
  <2>1. ASSUME NEW e \in Daemon \ {d}, daemon[e].pc \in Executing, daemon[e].job = i
        PROVE  FALSE
    <3>1. e # d /\ Serves[e] # Serves[d]
      BY <2>1 DEF Orderly
    <3>2. assignments[i].host = Serves[d]
      BY <1>q, <1>2, HandlingEffect
    <3>3. assignments[i].host = Serves[e]
      BY <2>1 DEF QueueInv, JobOf
    <3> QED
      BY <3>1, <3>2, <3>3
  <2>2. "off" \notin Executing
    BY DEF Executing, Working
  <2> QED
    BY <1>1, <1>3, <1>6, <2>1, <2>2 DEF Abandoned
<1>8. ContainersStay /\ \A v : Quiet(v)
  BY <1>1, ContainersUnchanged, QuietRow
<1>9. RuntimeOfRow(w)' /\ OnlyLive(w, rt)'
  BY <1>4, <1>8, QuietKeeps
<1>10. Accounted(w)'
  BY <1>1, <1>3, <1>5, <1>7, <1>9 DEF Accounted
<1>11. JobsNarrow
  BY <1>1, <1>6, NarrowUnwritten DEF Executing, Working
<1>12. DaemonFits(d, Off)' /\ SweepFits(d, Off)'
  BY <1>6 DEF DaemonFits, SweepFits
<1> QED
  BY <1>q, <1>1, <1>2, <1>8, <1>9, <1>10, <1>11, <1>12 DEF DaemonMoves

\* The rows the sweep takes name runtimes of the daemon's host.
LEMMA CollectMeteringMoves ==
    ASSUME Orderly, TypeInv, QueueInv, RuntimeInv, NEW d \in Daemon, CollectMetering(d),
           UNCHANGED clientVars
    PROVE  \E r : DaemonMoves(d, r)
<1>q. PICK q, rows : q = daemon[d] /\ rows = Metered(Serves[d])
  OBVIOUS
<1>1. /\ q.pc = "next"
      /\ daemon' = [daemon EXCEPT ![d] = [q EXCEPT !.pc = "sweep", !.sweep = rows]]
      /\ UNCHANGED <<client, workloads, assignments, usageEvents, containers>>
  BY <1>q DEF CollectMetering, At, clientVars, sharedVars, dbVars
<1>2. q \in DaemonState
  BY <1>q DEF TypeInv, TypeOK, DaemonTypeOK
<1> DEFINE r == [q EXCEPT !.pc = "sweep", !.sweep = rows]
<1>3. r.pc = "sweep" /\ r.sweep = rows /\ daemon' = [daemon EXCEPT ![d] = r]
  BY <1>1, <1>2 DEF DaemonState
<1> HIDE DEF r
<1>4. \A row \in rows : row[2] \in DOMAIN containers /\ containers[row[2]].host = Serves[d]
  <2>1. ASSUME NEW w \in Workload, workloads[w].hostId = Serves[d], workloads[w].runtimeId # 0
        PROVE  /\ workloads[w].runtimeId \in DOMAIN containers
               /\ containers[workloads[w].runtimeId].host = Serves[d]
    BY <2>1 DEF RuntimeInv, RuntimeOfRow
  <2>2. ASSUME NEW row \in rows
        PROVE  row[2] \in DOMAIN containers /\ containers[row[2]].host = Serves[d]
    <3>1. PICK w \in Workload : /\ workloads[w].hostId = Serves[d] /\ workloads[w].runtimeId # 0
                                /\ row = <<w, workloads[w].runtimeId>>
      BY <1>q DEF Metered
    <3> QED
      BY <2>1, <3>1
  <2> QED
    BY <2>2
<1>5. ContainersStay /\ \A v : Quiet(v)
  BY <1>1, ContainersUnchanged, QuietRow
<1>6. JobsNarrow
  BY <1>1, <1>3, NarrowUnwritten DEF Executing, Working
<1>7. DaemonFits(d, r)' /\ SweepFits(d, r)'
  BY <1>1, <1>3, <1>4 DEF DaemonFits, SweepFits
<1> QED
  BY <1>q, <1>1, <1>3, <1>5, <1>6, <1>7 DEF DaemonMoves

\* A tick is for a runtime of the sweep.
LEMMA MeterMoves ==
    ASSUME Orderly, TypeInv, QueueInv, RuntimeInv, NEW d \in Daemon, Meter(d),
           UNCHANGED clientVars
    PROVE  \E r : DaemonMoves(d, r)
<1>q. PICK q : q = daemon[d]
  OBVIOUS
<1>1. PICK row, answer :
         /\ row \in q.sweep
         /\ daemon' = [daemon EXCEPT ![d] =
               [q EXCEPT !.sweep = q.sweep \ {row},
                         !.pc = IF answer = "running" THEN "sweep" ELSE "condemn",
                         !.w = IF answer = "running" THEN NoWorkload ELSE row[1]]]
         /\ IF answer = "running"
            THEN usageEvents' = usageEvents \cup
                    {[workload |-> row[1], host |-> Serves[d], runtime |-> row[2]]}
            ELSE UNCHANGED usageEvents
  BY <1>q DEF Meter
<1>2. /\ q.pc = "sweep"
      /\ UNCHANGED <<client, workloads, assignments, containers>>
  BY <1>q DEF Meter, At, clientVars
<1>3. q \in DaemonState
  BY <1>q DEF TypeInv, TypeOK, DaemonTypeOK
<1> DEFINE pc == IF answer = "running" THEN "sweep" ELSE "condemn"
           w == IF answer = "running" THEN NoWorkload ELSE row[1]
           r == [q EXCEPT !.sweep = q.sweep \ {row}, !.pc = pc, !.w = w]
<1>4. pc \in {"sweep", "condemn"}
  OBVIOUS
<1>5. daemon' = [daemon EXCEPT ![d] = r]
  BY <1>1
<1> HIDE DEF pc, w
<1>6. r.pc = pc /\ r.sweep = q.sweep \ {row}
  BY <1>3 DEF DaemonState
<1> HIDE DEF r
<1>7. SweepFits(d, q)
  BY <1>q DEF RuntimeInv
<1>8. ContainersStay /\ \A v : Quiet(v)
  BY <1>2, ContainersUnchanged, QuietRow
<1>9. JobsNarrow
  BY <1>2, <1>4, <1>5, <1>6, NarrowUnwritten DEF Executing, Working
<1>10. DaemonFits(d, r)' /\ SweepFits(d, r)'
  BY <1>2, <1>4, <1>6, <1>7 DEF DaemonFits, SweepFits
<1>11. \A u \in usageEvents' : u \in usageEvents \/ UsageFits(u)'
  <2> DEFINE tick == [workload |-> row[1], host |-> Serves[d], runtime |-> row[2]]
  <2>1. tick.host = Serves[d] /\ tick.runtime = row[2]
    OBVIOUS
  <2>2. \A u \in usageEvents' : u \in usageEvents \/ u = tick
    BY <1>1
  <2> HIDE DEF tick
  <2>3. tick.runtime \in DOMAIN containers /\ containers[tick.runtime].host = tick.host
    BY <1>1, <1>7, <2>1 DEF SweepFits
  <2> QED
    BY <1>2, <2>2, <2>3 DEF UsageFits
<1> QED
  BY <1>q, <1>2, <1>5, <1>8, <1>9, <1>10, <1>11 DEF DaemonMoves

LEMMA DaemonStepMoves ==
    ASSUME Orderly, TypeInv, QueueInv, RuntimeInv, NEW d \in Daemon, DaemonStep(d),
           UNCHANGED clientVars
    PROVE  \E r : DaemonMoves(d, r)
<1>1. CASE Resting(d)
  BY <1>1, RestingMoves
<1>2. CASE Claim(d)
  BY <1>2, ClaimMoves
<1>3. CASE InspectOld(d)
  BY <1>3, InspectOldMoves
<1>4. CASE Launch(d) /\ ~Resting(d)
  BY <1>4, LaunchMoves DEF Resting
<1>5. CASE Launched(d)
  BY <1>5, LaunchedMoves
<1>6. CASE CrashDaemon(d) /\ ~Resting(d)
  BY <1>6, CrashMoves DEF Resting
<1>7. CASE CollectMetering(d)
  BY <1>7, CollectMeteringMoves
<1>8. CASE Meter(d)
  BY <1>8, MeterMoves
<1> QED
  BY <1>1, <1>2, <1>3, <1>4, <1>5, <1>6, <1>7, <1>8 DEF DaemonStep, DaemonWorks, Resting

--------------------------------------------------------------------------------
(* Every step keeps the invariant *)

\* A step that touches neither calls nor jobs nor rows, and starts no container.
LEMMA OthersKeepRuntimeInv ==
    ASSUME TypeInv, RuntimeInv, ContainersStay, \A w : Live(w)' \subseteq Live(w),
           UNCHANGED <<client, daemon, workloads, assignments, usageEvents>>
    PROVE  RuntimeInv'
<1>1. \A w : Quiet(w)
  BY QuietRow
<1>2. \A i \in DOMAIN assignments : Abandoned(i) => Abandoned(i)'
  BY DEF Abandoned
<1>3. \A w \in Workload : RuntimeOfRow(w)' /\ Accounted(w)'
  BY <1>1, <1>2, QuietWorkload
<1>4. \A w \in Workload : OneAtATime(w)'
  BY DEF RuntimeInv, OneAtATime, Open
<1>5. \A c \in Client : CallFits(client[c])'
  BY <1>1, QuietCall
<1>6. \A i \in DOMAIN assignments : JobFits(i)'
  BY <1>1, QuietJob
<1>7. \A d \in Daemon : DaemonFits(d, daemon[d])' /\ SweepFits(d, daemon[d])'
  BY <1>1, QuietDaemon
<1>8. \A u \in usageEvents : UsageFits(u)'
  BY DEF RuntimeInv, UsageFits, ContainersStay
<1> QED
  BY <1>3, <1>4, <1>5, <1>6, <1>7, <1>8 DEF RuntimeInv

LEMMA RuntimeInvSteps ==
    ASSUME Orderly
    PROVE  TypeInv /\ QueueInv /\ RuntimeInv /\ [Next]_vars => RuntimeInv'
<1> SUFFICES ASSUME TypeInv, QueueInv, RuntimeInv, [Next]_vars PROVE RuntimeInv'
  OBVIOUS
<1>1. CASE \E c \in Client : ClientStep(c) /\ UNCHANGED daemon
  BY <1>1, ClientKeepsRuntimeInv
<1>2. CASE \E d \in Daemon : DaemonStep(d) /\ UNCHANGED clientVars
  BY <1>2, DaemonStepMoves, DaemonKeepsRuntimeInv
<1>3. CASE HostCommand /\ UNCHANGED daemon
  <2>1. UNCHANGED <<client, daemon, workloads, assignments, usageEvents, containers>>
    BY <1>3 DEF HostCommand, SetDaemonStatus
  <2> QED
    BY <2>1, ContainersUnchanged, OthersKeepRuntimeInv
<1>4. CASE ContainerDies /\ UNCHANGED <<clientVars, daemon>>
  <2>1. PICK rt : StopContainer(rt)
    BY <1>4 DEF ContainerDies
  <2>2. ContainersStay /\ \A w : Live(w)' \subseteq Live(w)
    BY <2>1, StopContainerEffect DEF TypeInv, TypeOK, SharedTypeOK
  <2> QED
    BY <1>4, <2>2, OthersKeepRuntimeInv DEF ContainerDies, clientVars, dbVars
<1>5. CASE UNCHANGED vars
  <2>1. UNCHANGED <<client, daemon, workloads, assignments, usageEvents, containers>>
    BY <1>5 DEF vars, sharedVars, dbVars
  <2> QED
    BY <2>1, ContainersUnchanged, OthersKeepRuntimeInv
<1> QED
  BY <1>1, <1>2, <1>3, <1>4, <1>5 DEF Next

LEMMA RuntimeInvInit == Init => RuntimeInv
<1> SUFFICES ASSUME Init PROVE RuntimeInv
  OBVIOUS
<1>1. /\ \A w \in Workload : workloads[w].status = "absent" /\ workloads[w].runtimeId = 0
      /\ assignments = <<>> /\ containers = <<>> /\ usageEvents = {}
      /\ \A c \in Client : client[c] = Returned
      /\ \A d \in Daemon : daemon[d] = Off
  BY DEF Init, SharedInit, ClientInit, DaemonInit
<1>2. DOMAIN assignments = {} /\ DOMAIN containers = {}
  BY <1>1
<1>3. \A w : Live(w) = {}
  BY <1>2 DEF Live
<1>4. ASSUME NEW w \in Workload
      PROVE  OneAtATime(w) /\ RuntimeOfRow(w) /\ Accounted(w)
  <2>1. OneAtATime(w)
    BY <1>1, <1>2, WorkloadAssumption DEF OneAtATime, Returned
  <2> QED
    BY <1>1, <1>3, <2>1 DEF RuntimeOfRow, Accounted, OnlyLive
<1>5. \A c \in Client : CallFits(client[c])
  BY <1>1 DEF Returned, CallFits
<1>6. \A d \in Daemon : DaemonFits(d, daemon[d]) /\ SweepFits(d, daemon[d])
  BY <1>1 DEF Off, DaemonFits, SweepFits
<1> QED
  BY <1>1, <1>2, <1>4, <1>5, <1>6 DEF RuntimeInv

LEMMA RuntimeInvariance ==
    ASSUME Orderly
    PROVE  Spec => [](TypeInv /\ QueueInv /\ RuntimeInv)
<1>1. Spec => [](TypeInv /\ QueueInv)
  BY QueueInvariance DEF Orderly
<1> QED
  BY <1>1, RuntimeInvInit, RuntimeInvSteps, PTL DEF Spec

--------------------------------------------------------------------------------
(* The theorems *)

\* Whatever container a workload has, it is the only one: handleStart and
\* handleRestore launch with no look at the old runtime, and a daemon may die
\* between its launch and its write (hostDaemon.ts:126-143).
THEOREM OneLiveRuntime ==
    ASSUME Orderly, Faultless
    PROVE  Spec => []SingleLiveRuntime
<1>1. ASSUME TypeInv, RuntimeInv, NEW w \in Workload
      PROVE  Cardinality(Live(w)) <= 1
  <2>1. \E rt : OnlyLive(w, rt)
    BY <1>1 DEF RuntimeInv, Accounted, DaemonFits
  <2>2. PICK rt : Live(w) \subseteq {rt}
    BY <2>1 DEF OnlyLive
  <2>3. IsFiniteSet({rt}) /\ Cardinality({rt}) = 1
    BY FS_Singleton
  <2>4. Cardinality(Live(w)) <= Cardinality({rt})
    BY <2>2, <2>3, FS_Subset
  <2> QED
    BY <2>3, <2>4
<1>2. TypeInv /\ RuntimeInv => SingleLiveRuntime
  BY <1>1 DEF SingleLiveRuntime
<1> QED
  BY <1>2, RuntimeInvariance, PTL

\* As long as no daemon dies in the middle of a job, the control plane knows
\* every live container: its workload's row names it, or the daemon that
\* launched it is about to write it there (hostDaemon.ts:126-143).
THEOREM LiveAccounted ==
    ASSUME Orderly, Faultless, "crash" \notin Faults
    PROVE  Spec => []LiveIsAccounted
<1>1. ASSUME RuntimeInv, NEW w \in Workload, NEW rt \in Live(w)
      PROVE  \/ workloads[w].runtimeId = rt
             \/ \E d \in Daemon : At(d, "running") /\ daemon[d].w = w /\ daemon[d].rt = rt
  BY <1>1 DEF RuntimeInv, Accounted, Abandoned, DaemonFits, OnlyLive, At
<1>2. RuntimeInv => LiveIsAccounted
  BY <1>1 DEF LiveIsAccounted
<1> QED
  BY <1>2, RuntimeInvariance, PTL

\* A tick is recorded for the host its container is on: the sweep reads the
\* rows of its host once and asks for one runtime after the other, while the
\* workloads migrate (hostDaemon.ts:86-112).
THEOREM MeteredWhereLaunched ==
    ASSUME Orderly
    PROVE  Spec => []MeteredByLauncher
<1>1. RuntimeInv => MeteredByLauncher
  BY DEF RuntimeInv, UsageFits, MeteredByLauncher
<1> QED
  BY <1>1, RuntimeInvariance, PTL

================================================================================
