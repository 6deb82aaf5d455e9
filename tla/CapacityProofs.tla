---------------------------- MODULE CapacityProofs -----------------------------
(***************************************************************************)
(* What hosts are told to run fits what their owners allow, for every      *)
(* number of workloads, hosts and daemons and every capacity, as long as   *)
(* placements follow each other and nothing but spawn assigns a workload   *)
(* that holds no room: one caller, no wake, no migrate.                    *)
(***************************************************************************)
EXTENDS QueueProofs, FiniteSums

OneDaemonPerHost == \A x, y \in Daemon : Serves[x] = Serves[y] => x = y
OneClient == \A x, y \in Client : x = y
NoReturns == "wake" \notin Calls /\ "migrate" \notin Calls

--------------------------------------------------------------------------------
(* The invariant *)

CallKnown(r) ==
    /\ r.pc \in {"idle", "assign", "mark", "enqueue", "snapshot", "save"}
    /\ r.pc = "assign" => r.op = "start"
    /\ r.pc = "mark" => r.op = "sleep"
    /\ r.pc = "enqueue" => r.op \in {"start", "sleep"}
    /\ r.pc \in {"snapshot", "save"} => r.op = "checkpoint"

\* Without wake and migrate there are two kinds of jobs.
StartAndSleep ==
    /\ \A c \in Client : CallKnown(client[c])
    /\ \A i \in DOMAIN assignments : assignments[i].action \in {"start", "sleep"}
    /\ \A d \in Daemon : daemon[d].pc # "inspect"

\* Who may yet write the status of w: a call, a pending job, a daemon with a
\* job or a condemned workload, and a sweep.
Awaits(c, w) == client[c].w = w /\ client[c].pc \in {"assign", "mark", "enqueue"}
JobFor(i, w) == assignments[i].workload = w /\ assignments[i].status = "pending"
Handles(d, w) == daemon[d].w = w
Sweeps(d, w) == \E row \in daemon[d].sweep : row[1] = w

\* Who of them is about to start it.
ClientStarts(c, w) == Awaits(c, w) /\ client[c].op = "start"
JobStarts(i, w) == JobFor(i, w) /\ assignments[i].action = "start"
DaemonStarts(d, w) == Handles(d, w) /\ daemon[d].pc \in {"launch", "running"}

NoClient(w) == \A c \in Client : ~Awaits(c, w)
NoJob(w) == \A i \in DOMAIN assignments : ~JobFor(i, w)
NoDaemon(w) == \A d \in Daemon : ~Handles(d, w)
NoSweep(w) == \A d \in Daemon : ~Sweeps(d, w)

\* Until w has been started, whoever starts it is the only one to write it.
StartedOnce(w) ==
    /\ workloads[w].status = "absent" => NoClient(w) /\ NoJob(w) /\ NoDaemon(w) /\ NoSweep(w)
    /\ \A c \in Client : ClientStarts(c, w) =>
          /\ workloads[w].status = IF client[c].pc = "assign" THEN "pending" ELSE "assigned"
          /\ NoJob(w) /\ NoDaemon(w) /\ NoSweep(w)
    /\ \A i \in DOMAIN assignments : JobStarts(i, w) =>
          /\ workloads[w].status = "assigned"
          /\ NoClient(w) /\ NoDaemon(w) /\ NoSweep(w)
          /\ \A j \in DOMAIN assignments : JobFor(j, w) => j = i
    /\ \A d \in Daemon : DaemonStarts(d, w) =>
          /\ workloads[w].status = "assigned"
          /\ NoClient(w) /\ NoJob(w) /\ NoSweep(w)
          /\ \A e \in Daemon : Handles(e, w) => e = d

\* What is allocated on h, and what a call is about to allocate there.
Promised(h) ==
    AllocatedTo(h)
    \cup {w \in Workload : \E c \in Client : /\ client[c].pc \in {"assign", "mark"}
                                             /\ client[c].w = w /\ client[c].to = h}

MarksOnHost ==
    \A c \in Client : client[c].pc = "mark" => workloads[client[c].w].hostId = client[c].to

PromisesFit == \A h \in Host : SumFunctionOnSet(Cpu, Promised(h)) <= Capacity[h]

CapacityInv ==
    StartAndSleep /\ (\A w \in Workload : StartedOnce(w)) /\ MarksOnHost /\ PromisesFit

--------------------------------------------------------------------------------
(* Promises *)

LEMMA PromisedType ==
    ASSUME IsFiniteSet(Workload), NEW h
    PROVE  /\ Promised(h) \in SUBSET Workload /\ IsFiniteSet(Promised(h))
           /\ AllocatedTo(h) \in SUBSET Workload /\ IsFiniteSet(AllocatedTo(h))
           /\ \A T \in SUBSET Workload : SumFunctionOnSet(Cpu, T) \in Nat
<1>1. Promised(h) \in SUBSET Workload /\ AllocatedTo(h) \in SUBSET Workload
  BY DEF Promised, AllocatedTo
<1>2. \A w \in Workload : Cpu[w] \in Nat
  BY CapacityAssumption
<1>3. \A T \in SUBSET Workload : SumFunctionOnSet(Cpu, T) \in Nat
  BY <1>2, SumType
<1> QED
  BY <1>1, <1>3, FS_Subset

\* Whoever promises no more keeps the capacities.
LEMMA FewerPromises ==
    ASSUME IsFiniteSet(Workload), PromisesFit,
           \A h \in Host : Promised(h)' \subseteq Promised(h)
    PROVE  PromisesFit'
<1> SUFFICES ASSUME NEW h \in Host
             PROVE  SumFunctionOnSet(Cpu, Promised(h)') <= Capacity[h]
  BY DEF PromisesFit
<1> DEFINE P == Promised(h)
           Q == Promised(h)'
<1>1. P \in SUBSET Workload /\ IsFiniteSet(P) /\ Q \in SUBSET P
  BY PromisedType
<1>2. \A w \in P : Cpu[w] \in Nat
  BY <1>1, CapacityAssumption
<1>3. SumFunctionOnSet(Cpu, P) <= Capacity[h]
  BY DEF PromisesFit
<1>4. SumFunctionOnSet(Cpu, P) \in Nat /\ SumFunctionOnSet(Cpu, Q) \in Nat /\ Capacity[h] \in Nat
  BY <1>1, PromisedType, CapacityAssumption
<1> HIDE DEF P, Q
<1>5. SumFunctionOnSet(Cpu, Q) <= SumFunctionOnSet(Cpu, P)
  BY <1>1, <1>2, SumMonotone
<1>6. SumFunctionOnSet(Cpu, Q) <= Capacity[h]
  BY <1>3, <1>4, <1>5
<1> QED
  BY <1>6 DEF Q

\* No row begins to take room, and no call begins to promise any.
LEMMA NoNewPromises ==
    ASSUME IsFiniteSet(Workload), PromisesFit,
           \A w \in Workload : /\ workloads'[w].hostId = workloads[w].hostId
                               /\ workloads'[w].status \in Allocating =>
                                     workloads[w].status \in Allocating,
           \A c \in Client : client'[c] = client[c] \/ client'[c].pc \notin {"assign", "mark"}
    PROVE  PromisesFit'
<1>1. \A h \in Host : Promised(h)' \subseteq Promised(h)
  BY DEF Promised, AllocatedTo
<1> QED
  BY <1>1, FewerPromises

--------------------------------------------------------------------------------
(* Who starts a workload *)

\* w has been started: nobody is about to.
Past(w) ==
    /\ workloads[w].status # "absent"
    /\ \A c \in Client : ~ClientStarts(c, w)
    /\ \A i \in DOMAIN assignments : ~JobStarts(i, w)
    /\ \A d \in Daemon : ~DaemonStarts(d, w)

LEMMA PastStarted == \A w : Past(w) => StartedOnce(w)
  BY DEF Past, StartedOnce

\* Whoever writes the status of w and does not start it does so afterwards.
LEMMA OthersCome ==
    ASSUME OneClient, NEW w \in Workload, StartedOnce(w),
           \/ \E c \in Client : Awaits(c, w) /\ ~ClientStarts(c, w)
           \/ \E i \in DOMAIN assignments : JobFor(i, w) /\ ~JobStarts(i, w)
           \/ \E d \in Daemon : Handles(d, w) /\ ~DaemonStarts(d, w)
           \/ \E d \in Daemon : Sweeps(d, w)
           \/ workloads[w].status \in {"running", "sleeping", "failed"}
    PROVE  Past(w)
<1>1. ASSUME NEW c \in Client, Awaits(c, w), ~ClientStarts(c, w)
      PROVE  Past(w)
  BY <1>1 DEF OneClient, StartedOnce, Past, NoClient
<1>2. ASSUME NEW i \in DOMAIN assignments, JobFor(i, w), ~JobStarts(i, w)
      PROVE  Past(w)
  BY <1>2 DEF StartedOnce, Past, NoJob
<1>3. ASSUME NEW d \in Daemon, Handles(d, w), ~DaemonStarts(d, w)
      PROVE  Past(w)
  BY <1>3 DEF StartedOnce, Past, NoDaemon
<1>4. ASSUME NEW d \in Daemon, Sweeps(d, w)
      PROVE  Past(w)
  BY <1>4 DEF StartedOnce, Past, NoSweep
<1>5. ASSUME workloads[w].status \in {"running", "sleeping", "failed"}
      PROVE  Past(w)
  BY <1>5 DEF StartedOnce, Past
<1> QED
  BY <1>1, <1>2, <1>3, <1>4, <1>5

\* A step after which there is nobody new to write w.
LEMMA NobodyNew ==
    ASSUME NEW w \in Workload, StartedOnce(w),
           workloads'[w].status = workloads[w].status,
           \A c \in Client : Awaits(c, w)' => client'[c] = client[c],
           \A i \in DOMAIN assignments' : JobFor(i, w)' =>
               /\ i \in DOMAIN assignments /\ JobFor(i, w)
               /\ assignments'[i].action = assignments[i].action,
           \A d \in Daemon : Handles(d, w)' => Handles(d, w),
           \A d \in Daemon : DaemonStarts(d, w)' => DaemonStarts(d, w),
           \A d \in Daemon : Sweeps(d, w)' => Sweeps(d, w)
    PROVE  StartedOnce(w)'
<1>1. \A c \in Client : Awaits(c, w)' => Awaits(c, w)
  BY DEF Awaits
<1>2. \A c \in Client : ClientStarts(c, w)' => ClientStarts(c, w) /\ client'[c] = client[c]
  BY DEF ClientStarts, Awaits
<1>3. \A i \in DOMAIN assignments' : JobStarts(i, w)' => i \in DOMAIN assignments /\ JobStarts(i, w)
  BY DEF JobStarts
<1>4. /\ NoClient(w) => NoClient(w)'
      /\ NoJob(w) => NoJob(w)'
      /\ NoDaemon(w) => NoDaemon(w)'
      /\ NoSweep(w) => NoSweep(w)'
  BY <1>1 DEF NoClient, NoJob, NoDaemon, NoSweep
<1>5. (workloads[w].status = "absent" => NoClient(w) /\ NoJob(w) /\ NoDaemon(w) /\ NoSweep(w))'
  BY <1>4 DEF StartedOnce
<1>6. ASSUME NEW c \in Client, ClientStarts(c, w)'
      PROVE  /\ workloads'[w].status = IF client'[c].pc = "assign" THEN "pending" ELSE "assigned"
             /\ NoJob(w)' /\ NoDaemon(w)' /\ NoSweep(w)'
  BY <1>2, <1>4, <1>6 DEF StartedOnce
<1>7. ASSUME NEW i \in DOMAIN assignments', JobStarts(i, w)'
      PROVE  /\ workloads'[w].status = "assigned"
             /\ NoClient(w)' /\ NoDaemon(w)' /\ NoSweep(w)'
             /\ \A j \in DOMAIN assignments' : JobFor(j, w)' => j = i
  BY <1>3, <1>4, <1>7 DEF StartedOnce
<1>8. ASSUME NEW d \in Daemon, DaemonStarts(d, w)'
      PROVE  /\ workloads'[w].status = "assigned"
             /\ NoClient(w)' /\ NoJob(w)' /\ NoSweep(w)'
             /\ \A e \in Daemon : Handles(e, w)' => e = d
  BY <1>4, <1>8 DEF StartedOnce
<1> QED
  BY <1>5, <1>6, <1>7, <1>8 DEF StartedOnce

\* A step after which nobody new starts w.
LEMMA NobodyStarts ==
    ASSUME NEW w \in Workload, Past(w), workloads'[w].status # "absent",
           \A c \in Client : ClientStarts(c, w)' => ClientStarts(c, w),
           \A i \in DOMAIN assignments' :
               JobStarts(i, w)' => i \in DOMAIN assignments /\ JobStarts(i, w),
           \A d \in Daemon : DaemonStarts(d, w)' => DaemonStarts(d, w)
    PROVE  StartedOnce(w)'
<1>1. Past(w)'
  BY DEF Past
<1> QED
  BY <1>1 DEF Past, StartedOnce

--------------------------------------------------------------------------------
(* The steps of a call *)

\* Client c goes on as r, and no row changes its status or host.
LEMMA CallGoesOn ==
    ASSUME TypeInv, CapacityInv, OneClient, IsFiniteSet(Workload),
           NEW c \in Client, NEW r, client' = [client EXCEPT ![c] = r], CallKnown(r),
           r.pc \notin {"assign", "mark", "enqueue"},
           UNCHANGED <<assignments, daemon>>,
           \A w \in Workload : /\ workloads'[w].status = workloads[w].status
                               /\ workloads'[w].hostId = workloads[w].hostId
    PROVE  CapacityInv'
<1>1. client'[c] = r /\ \A x \in Client : x = c
  BY DEF TypeInv, TypeOK, ClientTypeOK, OneClient
<1>2. StartAndSleep'
  BY <1>1 DEF CapacityInv, StartAndSleep
<1>3. \A w \in Workload : StartedOnce(w)'
  <2> SUFFICES ASSUME NEW w \in Workload PROVE StartedOnce(w)'
    OBVIOUS
  <2>1. \A x \in Client : ~Awaits(x, w)'
    BY <1>1 DEF Awaits
  <2>2. \A i \in DOMAIN assignments' : JobFor(i, w)' => JobFor(i, w)
    BY DEF JobFor
  <2>3. \A d \in Daemon : /\ Handles(d, w)' => Handles(d, w)
                          /\ DaemonStarts(d, w)' => DaemonStarts(d, w)
                          /\ Sweeps(d, w)' => Sweeps(d, w)
    BY DEF Handles, DaemonStarts, Sweeps
  <2> QED
    BY <2>1, <2>2, <2>3, NobodyNew DEF CapacityInv
<1>4. MarksOnHost'
  BY <1>1 DEF MarksOnHost
<1>5. PromisesFit'
  BY <1>1, NoNewPromises DEF CapacityInv
<1> QED
  BY <1>2, <1>3, <1>4, <1>5 DEF CapacityInv

\* The INSERT of spawn, with a placement that found room.
LEMMA SpawnKeepsCapacity ==
    ASSUME TypeInv, CapacityInv, OneClient, IsFiniteSet(Workload),
           NEW c \in Client, NEW w \in Workload, Spawn(c, w), UNCHANGED daemon
    PROVE  CapacityInv'
<1>0. workloads \in [Workload -> Row] /\ client \in [Client -> ClientState]
  BY DEF TypeInv, TypeOK, SharedTypeOK, ClientTypeOK
<1>1. /\ workloads[w].status = "absent"
      /\ workloads'[w].status = "pending" /\ workloads'[w].hostId = workloads[w].hostId
      /\ \A v \in Workload \ {w} : workloads'[v] = workloads[v]
  BY <1>0 DEF Spawn, Row
<1>2. UNCHANGED assignments
  BY DEF Spawn
<1>3. PICK h \in PlaceWorkload(w, NoHost) :
         client' = [client EXCEPT ![c] =
                       IF h = NoHost THEN Returned
                       ELSE [Returned EXCEPT !.pc = "assign", !.op = "start", !.w = w, !.to = h]]
  BY DEF Spawn, Begin
<1> DEFINE r == client'[c]
<1>4. /\ \A x \in Client : x = c
      /\ \/ h = NoHost /\ r.pc = "idle"
         \/ h # NoHost /\ r.pc = "assign" /\ r.op = "start" /\ r.w = w /\ r.to = h
  BY <1>0, <1>3 DEF Returned, OneClient
<1> HIDE DEF r
<1>5. StartAndSleep'
  BY <1>2, <1>4 DEF CapacityInv, StartAndSleep, CallKnown, r
<1>6. ASSUME NEW v \in Workload PROVE StartedOnce(v)'
  <2>1. /\ \A i \in DOMAIN assignments' : JobFor(i, v)' => JobFor(i, v)
        /\ \A d \in Daemon : /\ Handles(d, v)' => Handles(d, v)
                             /\ DaemonStarts(d, v)' => DaemonStarts(d, v)
                             /\ Sweeps(d, v)' => Sweeps(d, v)
    BY <1>2 DEF JobFor, Handles, DaemonStarts, Sweeps
  <2>2. CASE v # w
    <3>1. \A x \in Client : ~Awaits(x, v)'
      BY <1>4, <2>2 DEF Awaits, r
    <3> QED
      BY <1>1, <1>2, <2>1, <2>2, <3>1, NobodyNew DEF CapacityInv
  <2>3. CASE v = w
    <3>1. NoJob(w) /\ NoDaemon(w) /\ NoSweep(w)
      BY <1>1 DEF CapacityInv, StartedOnce
    <3>2. NoJob(w)' /\ NoDaemon(w)' /\ NoSweep(w)'
      BY <1>2, <3>1, <2>1, <2>3 DEF NoJob, NoDaemon, NoSweep
    <3>3. \A x \in Client : ClientStarts(x, w)' => client'[x].pc = "assign"
      BY <1>4 DEF ClientStarts, Awaits, r
    <3>4. /\ \A i \in DOMAIN assignments' : ~JobStarts(i, w)'
          /\ \A d \in Daemon : ~DaemonStarts(d, w)'
      BY <3>2 DEF NoJob, NoDaemon, JobStarts, DaemonStarts
    <3> QED
      BY <1>1, <2>3, <3>2, <3>3, <3>4 DEF StartedOnce
  <2> QED
    BY <2>2, <2>3
<1>7. MarksOnHost'
  BY <1>4 DEF MarksOnHost, r
<1>8. ASSUME NEW g \in Host
      PROVE  SumFunctionOnSet(Cpu, Promised(g)') <= Capacity[g]
  <2> DEFINE A == AllocatedTo(g)
             Q == Promised(g)'
  <2>1. A \in SUBSET Workload /\ Promised(g) \in SUBSET Workload /\ A \subseteq Promised(g)
    BY PromisedType DEF Promised
  <2>2. AllocatedTo(g)' = A
    BY <1>1 DEF AllocatedTo, Allocating
  <2>3. CASE ~(h = g /\ h # NoHost)
    <3>1. Q \subseteq Promised(g)
      BY <1>4, <2>1, <2>2, <2>3 DEF Promised, r
    <3>2. IsFiniteSet(Promised(g)) /\ Q \in SUBSET Promised(g)
          /\ SumFunctionOnSet(Cpu, Promised(g)) \in Nat
      BY <3>1, PromisedType
    <3>3. \A v \in Promised(g) : Cpu[v] \in Nat
      BY <2>1, CapacityAssumption
    <3>4. SumFunctionOnSet(Cpu, Promised(g)) <= Capacity[g] /\ Capacity[g] \in Nat
      BY CapacityAssumption DEF CapacityInv, PromisesFit
    <3>5. Q \in SUBSET Workload
      BY <2>1, <3>1
    <3> HIDE DEF Q
    <3>6. SumFunctionOnSet(Cpu, Q) <= SumFunctionOnSet(Cpu, Promised(g))
      BY <3>2, <3>3, SumMonotone
    <3>7. SumFunctionOnSet(Cpu, Q) \in Nat
      BY <3>5, PromisedType
    <3>8. SumFunctionOnSet(Cpu, Q) <= Capacity[g]
      BY <3>2, <3>4, <3>6, <3>7
    <3> QED
      BY <3>8 DEF Q
  <2>4. CASE h = g /\ h # NoHost
    <3>1. Q = A \cup {w}
      BY <1>4, <2>2, <2>4 DEF Promised, r
    <3>2. w \in Workload \ A
      BY <1>1 DEF AllocatedTo, Allocating
    <3>3. \A v \in Workload : Cpu[v] \in Nat
      BY CapacityAssumption
    <3>4. AvailableCapacity(g) >= Cpu[w]
      BY <2>4 DEF PlaceWorkload, Eligible
    <3>5. Cpu[w] \in Nat /\ Cpu[w] # 0 /\ Capacity[g] \in Nat
      BY CapacityAssumption
    <3>6. Allocated(g) = SumFunctionOnSet(Cpu, A) /\ SumFunctionOnSet(Cpu, A) \in Nat
      BY <2>1, PromisedType DEF Allocated
    <3> HIDE DEF A, Q
    <3>7. SumFunctionOnSet(Cpu, A \cup {w}) = Cpu[w] + SumFunctionOnSet(Cpu, A)
      BY <2>1, <3>2, <3>3, SumAdd
    <3>8. SumFunctionOnSet(Cpu, A) + Cpu[w] <= Capacity[g]
      BY <3>4, <3>5, <3>6 DEF AvailableCapacity
    <3>9. SumFunctionOnSet(Cpu, Q) <= Capacity[g]
      BY <3>1, <3>5, <3>6, <3>7, <3>8
    <3> QED
      BY <3>9 DEF Q
  <2> QED
    BY <2>3, <2>4
<1> QED
  BY <1>5, <1>6, <1>7, <1>8 DEF CapacityInv, PromisesFit

LEMMA AssignKeepsCapacity ==
    ASSUME TypeInv, CapacityInv, OneClient, IsFiniteSet(Workload),
           NEW c \in Client, AssignWorkload(c), UNCHANGED daemon
    PROVE  CapacityInv'
<1> DEFINE r == client[c]
<1>a. PICK w \in Workload : w = r.w
  BY DEF AssignWorkload, TypeInv, ClientKnows, KnowsCall
<1>0. workloads \in [Workload -> Row] /\ client \in [Client -> ClientState] /\ \A x \in Client : x = c
  BY DEF TypeInv, TypeOK, SharedTypeOK, ClientTypeOK, OneClient
<1>1. r.pc = "assign" /\ r.op = "start" /\ r.to \in Host
  BY DEF AssignWorkload, CapacityInv, StartAndSleep, CallKnown, TypeInv, ClientKnows, KnowsCall
<1>2. /\ client'[c].pc = "enqueue" /\ client'[c].op = "start"
      /\ client'[c].w = w /\ client'[c].to = r.to
  BY <1>0, <1>a, <1>1 DEF AssignWorkload, Goto, ClientState
<1>3. /\ workloads'[w].status = "assigned" /\ workloads'[w].hostId = r.to
      /\ \A v \in Workload \ {w} : workloads'[v] = workloads[v]
  BY <1>0, <1>a, <1>1 DEF AssignWorkload, Row
<1>4. UNCHANGED assignments
  BY DEF AssignWorkload
<1>5. StartAndSleep'
  BY <1>0, <1>2, <1>4 DEF CapacityInv, StartAndSleep, CallKnown
<1>6. ASSUME NEW v \in Workload PROVE StartedOnce(v)'
  <2>1. /\ \A i \in DOMAIN assignments' : JobFor(i, v)' => JobFor(i, v)
        /\ \A d \in Daemon : /\ Handles(d, v)' => Handles(d, v)
                             /\ DaemonStarts(d, v)' => DaemonStarts(d, v)
                             /\ Sweeps(d, v)' => Sweeps(d, v)
    BY <1>4 DEF JobFor, Handles, DaemonStarts, Sweeps
  <2>2. CASE v # w
    <3>1. \A x \in Client : ~Awaits(x, v)'
      BY <1>0, <1>2, <2>2 DEF Awaits
    <3> QED
      BY <1>3, <1>4, <2>1, <2>2, <3>1, NobodyNew DEF CapacityInv
  <2>3. CASE v = w
    <3>1. ClientStarts(c, w) /\ StartedOnce(w)
      BY <1>a, <1>1 DEF ClientStarts, Awaits, CapacityInv
    <3>2. NoJob(w) /\ NoDaemon(w) /\ NoSweep(w)
      BY <3>1 DEF StartedOnce
    <3>3. NoJob(w)' /\ NoDaemon(w)' /\ NoSweep(w)'
      BY <1>4, <3>2, <2>1, <2>3 DEF NoJob, NoDaemon, NoSweep
    <3>4. \A x \in Client : ClientStarts(x, w)' => client'[x].pc # "assign"
      BY <1>0, <1>2
    <3>5. /\ \A i \in DOMAIN assignments' : ~JobStarts(i, w)'
          /\ \A d \in Daemon : ~DaemonStarts(d, w)'
      BY <3>3 DEF NoJob, NoDaemon, JobStarts, DaemonStarts
    <3> QED
      BY <1>3, <2>3, <3>3, <3>4, <3>5 DEF StartedOnce
  <2> QED
    BY <2>2, <2>3
<1>7. MarksOnHost'
  BY <1>0, <1>2 DEF MarksOnHost
<1>8. \A h \in Host : Promised(h)' \subseteq Promised(h)
  <2> SUFFICES ASSUME NEW h \in Host, NEW v \in Promised(h)' PROVE v \in Promised(h)
    OBVIOUS
  <2>1. v \in AllocatedTo(h)'
    BY <1>0, <1>2 DEF Promised
  <2>2. CASE v = w
    BY <1>a, <1>1, <1>3, <2>1, <2>2 DEF AllocatedTo, Promised
  <2>3. CASE v # w
    BY <1>3, <2>1, <2>3 DEF AllocatedTo, Promised
  <2> QED
    BY <2>2, <2>3
<1> QED
  BY <1>5, <1>6, <1>7, <1>8, FewerPromises DEF CapacityInv

LEMMA EnqueueKeepsCapacity ==
    ASSUME TypeInv, CapacityInv, OneClient, IsFiniteSet(Workload),
           NEW c \in Client, Enqueue(c), UNCHANGED daemon
    PROVE  CapacityInv'
<1> DEFINE r == client[c]
<1>a. PICK w \in Workload : w = r.w
  BY DEF Enqueue, TypeInv, ClientKnows, KnowsCall
<1>b. PICK n : n = Len(assignments')
  OBVIOUS
<1>0. /\ assignments \in Seq(Assignment) /\ client \in [Client -> ClientState]
      /\ \A x \in Client : x = c
  BY DEF TypeInv, TypeOK, SharedTypeOK, ClientTypeOK, OneClient
<1>1. /\ r.pc = "enqueue" /\ r.op \in {"start", "sleep"}
      /\ r.to \in Host /\ r.op \in Action
  BY DEF Enqueue, CapacityInv, StartAndSleep, CallKnown, TypeInv, ClientKnows, KnowsCall
<1>2. client'[c].pc = "idle" /\ UNCHANGED workloads
  BY <1>0 DEF Enqueue, Return, Returned
<1>3. /\ assignments' \in Seq(Assignment)
      /\ n = Len(assignments) + 1
      /\ \A j \in DOMAIN assignments : j \in DOMAIN assignments' /\ assignments'[j] = assignments[j]
      /\ \E t \in Second :
            assignments'[n] = [workload |-> w, host |-> r.to, action |-> r.op,
                               status |-> "pending", assignedAt |-> t]
  BY <1>0, <1>a, <1>b, <1>1, CreateAssignmentEffect DEF Enqueue
<1>4. DOMAIN assignments' = DOMAIN assignments \cup {n} /\ n \notin DOMAIN assignments
  <2>1. DOMAIN assignments = 1..Len(assignments) /\ Len(assignments) \in Nat
    BY <1>0
  <2>2. DOMAIN assignments' = 1..Len(assignments')
    <3>1. assignments' \in Seq(Assignment)
      BY <1>3
    <3> QED
      BY <3>1
  <2> QED
    BY <1>b, <1>3, <2>1, <2>2
<1>5. /\ assignments'[n].workload = w /\ assignments'[n].action = r.op
      /\ assignments'[n].status = "pending"
  BY <1>3
<1>6. StartAndSleep'
  <2>1. \A i \in DOMAIN assignments' : assignments'[i].action \in {"start", "sleep"}
    BY <1>1, <1>3, <1>4, <1>5 DEF CapacityInv, StartAndSleep
  <2>2. \A x \in Client : CallKnown(client'[x])
    BY <1>0, <1>2 DEF CallKnown
  <2> QED
    BY <2>1, <2>2 DEF CapacityInv, StartAndSleep
<1>7. ASSUME NEW v \in Workload PROVE StartedOnce(v)'
  <2>1. /\ \A x \in Client : ~Awaits(x, v)'
        /\ \A i \in DOMAIN assignments : JobFor(i, v)' <=> JobFor(i, v)
        /\ \A i \in DOMAIN assignments : JobStarts(i, v)' <=> JobStarts(i, v)
        /\ \A d \in Daemon : /\ Handles(d, v)' <=> Handles(d, v)
                             /\ DaemonStarts(d, v)' <=> DaemonStarts(d, v)
                             /\ Sweeps(d, v)' <=> Sweeps(d, v)
    BY <1>0, <1>2, <1>3 DEF Awaits, JobFor, JobStarts, Handles, DaemonStarts, Sweeps
  <2>2. CASE v # w
    <3>1. ~JobFor(n, v)'
      BY <1>5, <2>2 DEF JobFor
    <3> QED
      BY <1>2, <1>3, <1>4, <2>1, <3>1, NobodyNew DEF CapacityInv
  <2>3. CASE v = w /\ r.op = "start"
    <3>1. ClientStarts(c, w) /\ StartedOnce(w)
      BY <1>a, <1>1, <2>3 DEF ClientStarts, Awaits, CapacityInv
    <3>2. workloads[w].status = "assigned" /\ NoJob(w) /\ NoDaemon(w) /\ NoSweep(w)
      BY <1>1, <3>1 DEF StartedOnce
    <3>3. NoClient(w)' /\ NoDaemon(w)' /\ NoSweep(w)'
      BY <2>1, <2>3, <3>2 DEF NoClient, NoDaemon, NoSweep
    <3>4. \A j \in DOMAIN assignments' : JobFor(j, w)' => j = n
      BY <1>4, <2>1, <2>3, <3>2 DEF NoJob
    <3>5. \A j \in DOMAIN assignments' : JobStarts(j, w)' => j = n
      BY <3>4 DEF JobStarts
    <3>6. /\ \A x \in Client : ~ClientStarts(x, w)'
          /\ \A d \in Daemon : ~DaemonStarts(d, w)'
      BY <3>3 DEF NoClient, NoDaemon, ClientStarts, DaemonStarts
    <3> QED
      BY <1>2, <2>3, <3>2, <3>3, <3>4, <3>5, <3>6 DEF StartedOnce
  <2>4. CASE v = w /\ r.op # "start"
    <3>1. Past(w)
      BY <1>a, <1>1, <2>4, OthersCome DEF CapacityInv, Awaits, ClientStarts
    <3>2. ~JobStarts(n, w)'
      BY <1>5, <2>4 DEF JobStarts
    <3> QED
      BY <1>2, <1>4, <2>1, <2>4, <3>1, <3>2, NobodyStarts DEF Past, ClientStarts
  <2> QED
    BY <2>2, <2>3, <2>4
<1>8. MarksOnHost'
  BY <1>0, <1>2 DEF MarksOnHost
<1>9. PromisesFit'
  BY <1>0, <1>2, NoNewPromises DEF CapacityInv
<1> QED
  BY <1>6, <1>7, <1>8, <1>9 DEF CapacityInv

\* sleep reads a running workload and marks it assigned later: it promises
\* what was allocated already.
LEMMA SleepKeepsCapacity ==
    ASSUME TypeInv, CapacityInv, OneClient, IsFiniteSet(Workload),
           NEW c \in Client, NEW w \in Workload, Sleep(c, w), UNCHANGED daemon
    PROVE  CapacityInv'
<1>0. client \in [Client -> ClientState] /\ \A x \in Client : x = c
  BY DEF TypeInv, TypeOK, ClientTypeOK, OneClient
<1>1. /\ client'[c].pc = "mark" /\ client'[c].op = "sleep" /\ client'[c].w = w
      /\ client'[c].to = workloads[w].hostId
      /\ workloads[w].status = "running" /\ UNCHANGED <<workloads, assignments>>
  BY <1>0 DEF Sleep, Begin, Returned, sharedVars, dbVars
<1>2. StartAndSleep'
  BY <1>0, <1>1 DEF CapacityInv, StartAndSleep, CallKnown
<1>3. ASSUME NEW v \in Workload PROVE StartedOnce(v)'
  <2>1. /\ \A i \in DOMAIN assignments' : JobFor(i, v)' => JobFor(i, v)
        /\ \A i \in DOMAIN assignments' : JobStarts(i, v)' => JobStarts(i, v)
        /\ \A d \in Daemon : /\ Handles(d, v)' => Handles(d, v)
                             /\ DaemonStarts(d, v)' => DaemonStarts(d, v)
                             /\ Sweeps(d, v)' => Sweeps(d, v)
    BY <1>1 DEF JobFor, JobStarts, Handles, DaemonStarts, Sweeps
  <2>2. CASE v # w
    <3>1. \A x \in Client : ~Awaits(x, v)'
      BY <1>0, <1>1, <2>2 DEF Awaits
    <3> QED
      BY <1>1, <2>1, <3>1, NobodyNew DEF CapacityInv
  <2>3. CASE v = w
    <3>1. Past(w)
      BY <1>1, OthersCome DEF CapacityInv
    <3>2. \A x \in Client : ~ClientStarts(x, w)'
      BY <1>0, <1>1 DEF ClientStarts
    <3> QED
      BY <1>1, <2>1, <2>3, <3>1, <3>2, NobodyStarts DEF Past
  <2> QED
    BY <2>2, <2>3
<1>4. MarksOnHost'
  BY <1>0, <1>1 DEF MarksOnHost
<1>5. \A h \in Host : Promised(h)' \subseteq Promised(h)
  BY <1>0, <1>1 DEF Promised, AllocatedTo, Allocating
<1> QED
  BY <1>2, <1>3, <1>4, <1>5, FewerPromises DEF CapacityInv

LEMMA MarkKeepsCapacity ==
    ASSUME TypeInv, CapacityInv, OneClient, IsFiniteSet(Workload),
           NEW c \in Client, MarkAssigned(c), UNCHANGED daemon
    PROVE  CapacityInv'
<1> DEFINE r == client[c]
<1>a. PICK w \in Workload : w = r.w
  BY DEF MarkAssigned, TypeInv, ClientKnows, KnowsCall
<1>0. workloads \in [Workload -> Row] /\ client \in [Client -> ClientState] /\ \A x \in Client : x = c
  BY DEF TypeInv, TypeOK, SharedTypeOK, ClientTypeOK, OneClient
<1>1. r.pc = "mark" /\ r.op = "sleep" /\ workloads[w].hostId = r.to
  BY <1>a DEF MarkAssigned, CapacityInv, StartAndSleep, CallKnown, MarksOnHost
<1>2. client'[c].pc = "enqueue" /\ client'[c].op = "sleep" /\ client'[c].w = w
  BY <1>0, <1>a, <1>1 DEF MarkAssigned, Goto, ClientState
<1>3. /\ workloads'[w].status = "assigned" /\ workloads'[w].hostId = r.to
      /\ \A v \in Workload \ {w} : workloads'[v] = workloads[v]
  BY <1>0, <1>a, <1>1 DEF MarkAssigned, Row
<1>4. UNCHANGED assignments
  BY DEF MarkAssigned
<1>5. StartAndSleep'
  BY <1>0, <1>2, <1>4 DEF CapacityInv, StartAndSleep, CallKnown
<1>6. ASSUME NEW v \in Workload PROVE StartedOnce(v)'
  <2>1. /\ \A i \in DOMAIN assignments' : JobFor(i, v)' => JobFor(i, v)
        /\ \A i \in DOMAIN assignments' : JobStarts(i, v)' => JobStarts(i, v)
        /\ \A d \in Daemon : /\ Handles(d, v)' => Handles(d, v)
                             /\ DaemonStarts(d, v)' => DaemonStarts(d, v)
                             /\ Sweeps(d, v)' => Sweeps(d, v)
    BY <1>4 DEF JobFor, JobStarts, Handles, DaemonStarts, Sweeps
  <2>2. CASE v # w
    <3>1. \A x \in Client : ~Awaits(x, v)'
      BY <1>0, <1>2, <2>2 DEF Awaits
    <3> QED
      BY <1>3, <1>4, <2>1, <2>2, <3>1, NobodyNew DEF CapacityInv
  <2>3. CASE v = w
    <3>1. Past(w)
      BY <1>a, <1>1, OthersCome DEF CapacityInv, Awaits, ClientStarts
    <3>2. \A x \in Client : ~ClientStarts(x, w)'
      BY <1>0, <1>2 DEF ClientStarts
    <3> QED
      BY <1>3, <1>4, <2>1, <2>3, <3>1, <3>2, NobodyStarts
  <2> QED
    BY <2>2, <2>3
<1>7. MarksOnHost'
  BY <1>0, <1>2 DEF MarksOnHost
<1>8. \A h \in Host : Promised(h)' \subseteq Promised(h)
  <2> SUFFICES ASSUME NEW h \in Host, NEW v \in Promised(h)' PROVE v \in Promised(h)
    OBVIOUS
  <2>1. v \in AllocatedTo(h)'
    BY <1>0, <1>2 DEF Promised
  <2>2. CASE v = w
    BY <1>a, <1>1, <1>3, <2>1, <2>2 DEF AllocatedTo, Promised
  <2>3. CASE v # w
    BY <1>3, <2>1, <2>3 DEF AllocatedTo, Promised
  <2> QED
    BY <2>2, <2>3
<1> QED
  BY <1>5, <1>6, <1>7, <1>8, FewerPromises DEF CapacityInv

LEMMA ClientKeepsCapacity ==
    ASSUME TypeInv, CapacityInv, OneClient, NoReturns, IsFiniteSet(Workload),
           NEW c \in Client, ClientStep(c), UNCHANGED daemon
    PROVE  CapacityInv'
<1> DEFINE r == client[c]
<1>0. workloads \in [Workload -> Row] /\ r \in ClientState /\ CallKnown(r)
  BY DEF TypeInv, TypeOK, SharedTypeOK, ClientTypeOK, CapacityInv, StartAndSleep
<1>1. CallKnown(Returned) /\ Returned.pc = "idle"
  BY DEF CallKnown, Returned
<1>2. ASSUME Return(c), UNCHANGED <<assignments, workloads>>
      PROVE  CapacityInv'
  BY <1>1, <1>2, CallGoesOn DEF Return
<1>3. ASSUME NEW w \in Workload, Checkpoint(c, w)
      PROVE  CapacityInv'
  <2> DEFINE q == [Returned EXCEPT !.pc = "snapshot", !.op = "checkpoint", !.w = w,
                                   !.rt = workloads[w].runtimeId]
  <2>1. client' = [client EXCEPT ![c] = q] /\ UNCHANGED <<assignments, workloads>>
    BY <1>3 DEF Checkpoint, Begin, sharedVars, dbVars
  <2>2. CallKnown(q) /\ q.pc = "snapshot"
    BY DEF Returned, CallKnown
  <2> HIDE DEF q
  <2> QED
    BY <2>1, <2>2, CallGoesOn
<1>4. ASSUME Snapshot(c)
      PROVE  CapacityInv'
  <2> DEFINE q == [r EXCEPT !.pc = "save"]
  <2>1. client' = [client EXCEPT ![c] = q] /\ UNCHANGED <<assignments, workloads>>
    BY <1>4 DEF Snapshot, Goto, dbVars
  <2>2. CallKnown(q) /\ q.pc = "save"
    BY <1>0, <1>4 DEF Snapshot, ClientState, CallKnown
  <2> HIDE DEF q
  <2> QED
    BY <2>1, <2>2, CallGoesOn
<1>5. ASSUME SaveCheckpoint(c) \/ SaveCheckpointFails(c)
      PROVE  CapacityInv'
  <2>1. r.op = "checkpoint"
    BY <1>0, <1>5 DEF SaveCheckpoint, SaveCheckpointFails, CallKnown
  <2>2. Return(c) /\ UNCHANGED assignments
    BY <1>5, <2>1 DEF SaveCheckpoint, SaveCheckpointFails
  <2>0. UNCHANGED workloads \/ \E n : SetCheckpoint(r.w, n)
    BY <1>5 DEF SaveCheckpoint, SaveCheckpointFails
  <2>3. \A w \in Workload : /\ workloads'[w].status = workloads[w].status
                            /\ workloads'[w].hostId = workloads[w].hostId
    BY <1>0, <2>0 DEF SetCheckpoint, Row
  <2> QED
    BY <1>1, <2>2, <2>3, CallGoesOn DEF Return
<1>6. ASSUME ClientAborts(c)
      PROVE  CapacityInv'
  BY <1>2, <1>6 DEF ClientAborts, sharedVars, dbVars
<1>7. \A w \in Workload : ~Wake(c, w) /\ ~Migrate(c, w)
  BY DEF Wake, Migrate, Begin, NoReturns
<1>8. ~MigrateStop(c) /\ ~MigratePlace(c) /\ ~MigrateMark(c) /\ ~MigrateRequeue(c)
  BY <1>0 DEF CallKnown, MigrateStop, MigratePlace, MigrateMark, MigrateRequeue
<1> QED
  BY <1>3, <1>4, <1>5, <1>6, <1>7, <1>8, SpawnKeepsCapacity, AssignKeepsCapacity,
     EnqueueKeepsCapacity, SleepKeepsCapacity, MarkKeepsCapacity
     DEF ClientStep, ClientBegins, ClientContinues

--------------------------------------------------------------------------------
(* The steps of a daemon *)

\* Jobs are concluded or left alone.
JobsConclude ==
    /\ DOMAIN assignments' = DOMAIN assignments
    /\ \A i \in DOMAIN assignments :
          /\ assignments'[i].workload = assignments[i].workload
          /\ assignments'[i].action = assignments[i].action
          /\ assignments'[i].status = "pending" => assignments[i].status = "pending"

LEMMA ConcludingJobs ==
    ASSUME TypeInv
    PROVE  /\ UNCHANGED assignments => JobsConclude
           /\ \A i : \A s \in AssignmentStatus \ {"pending"} : SetAssignment(i, s) => JobsConclude
<1>1. UNCHANGED assignments => JobsConclude
  BY DEF JobsConclude
<1>2. ASSUME NEW i, NEW s \in AssignmentStatus \ {"pending"}, SetAssignment(i, s)
      PROVE  JobsConclude
  BY <1>2, SetAssignmentEffect DEF JobsConclude, TypeInv, TypeOK, SharedTypeOK
<1> QED
  BY <1>1, <1>2

\* Daemon d goes on as r, with no new workload or job in its hands, and may
\* write that a workload which nobody is to start sleeps or failed.
LEMMA DaemonGoesOn ==
    ASSUME TypeInv, CapacityInv, IsFiniteSet(Workload), UNCHANGED client, JobsConclude,
           NEW d \in Daemon, NEW r, daemon' = [daemon EXCEPT ![d] = r],
           r.w \in {daemon[d].w, NoWorkload},
           r.pc # "inspect",
           r.pc \in {"launch", "running"} => daemon[d].pc \in {"launch", "running"},
           r.sweep \subseteq daemon[d].sweep,
           \A w \in Workload :
               /\ workloads'[w].hostId = workloads[w].hostId
               /\ \/ workloads'[w].status = workloads[w].status
                  \/ workloads'[w].status \in {"sleeping", "failed"} /\ Past(w)
    PROVE  CapacityInv'
<1>1. daemon'[d] = r /\ \A x \in Daemon \ {d} : daemon'[x] = daemon[x]
  BY DEF TypeInv, TypeOK, DaemonTypeOK
<1>2. StartAndSleep'
  BY <1>1 DEF CapacityInv, StartAndSleep, JobsConclude
<1>3. ASSUME NEW w \in Workload PROVE StartedOnce(w)'
  <2>1. w # NoWorkload
    BY WorkloadAssumption
  <2>2. /\ \A x \in Daemon : Handles(x, w)' => Handles(x, w)
        /\ \A x \in Daemon : DaemonStarts(x, w)' => DaemonStarts(x, w)
        /\ \A x \in Daemon : Sweeps(x, w)' => Sweeps(x, w)
    BY <1>1, <2>1 DEF Handles, DaemonStarts, Sweeps
  <2>3. \A i \in DOMAIN assignments' : JobFor(i, w)' =>
            /\ i \in DOMAIN assignments /\ JobFor(i, w)
            /\ assignments'[i].action = assignments[i].action
    BY DEF JobsConclude, JobFor
  <2>4. CASE workloads'[w].status = workloads[w].status
    BY <2>2, <2>3, <2>4, NobodyNew DEF CapacityInv
  <2>5. CASE workloads'[w].status \in {"sleeping", "failed"} /\ Past(w)
    <3>1. \A i \in DOMAIN assignments' :
             JobStarts(i, w)' => i \in DOMAIN assignments /\ JobStarts(i, w)
      BY <2>3 DEF JobStarts
    <3>2. \A c \in Client : ClientStarts(c, w)' => ClientStarts(c, w)
      BY DEF ClientStarts, Awaits
    <3> QED
      BY <2>2, <2>5, <3>1, <3>2, NobodyStarts
  <2> QED
    BY <2>4, <2>5
<1>4. MarksOnHost'
  <2>1. \A c \in Client : client[c].pc = "mark" => client[c].w \in Workload
    BY DEF TypeInv, ClientKnows, KnowsCall
  <2> QED
    BY <2>1 DEF CapacityInv, MarksOnHost
<1>5. PromisesFit'
  <2>1. \A w \in Workload : workloads'[w].status \in Allocating =>
                               workloads[w].status \in Allocating
    BY DEF Allocating
  <2> QED
    BY <2>1, NoNewPromises DEF CapacityInv
<1> QED
  BY <1>2, <1>3, <1>4, <1>5 DEF CapacityInv

\* The launched workload is running: it was assigned, and holds its room.
LEMMA LaunchedKeepsCapacity ==
    ASSUME TypeInv, CapacityInv, IsFiniteSet(Workload), UNCHANGED <<client, assignments>>,
           NEW d \in Daemon, At(d, "running"), MarkRunning(daemon[d].w, daemon[d].rt),
           Continue(d, "done")
    PROVE  CapacityInv'
<1>0. workloads \in [Workload -> Row] /\ daemon \in [Daemon -> DaemonState]
  BY DEF TypeInv, TypeOK, SharedTypeOK, DaemonTypeOK
<1>1. /\ daemon'[d].pc = "done" /\ daemon'[d].w = daemon[d].w
      /\ daemon'[d].sweep = daemon[d].sweep
      /\ \A x \in Daemon \ {d} : daemon'[x] = daemon[x]
  BY <1>0 DEF Continue, DaemonState
<1>2. \A w \in Workload :
         /\ workloads'[w].hostId = workloads[w].hostId
         /\ workloads'[w].status = IF w = daemon[d].w THEN "running" ELSE workloads[w].status
  BY <1>0 DEF MarkRunning, Row
<1>3. StartAndSleep'
  BY <1>1 DEF CapacityInv, StartAndSleep
<1>4. ASSUME NEW w \in Workload PROVE StartedOnce(w)'
  <2>1. /\ \A x \in Daemon : Handles(x, w)' => Handles(x, w)
        /\ \A x \in Daemon : DaemonStarts(x, w)' => DaemonStarts(x, w) /\ x # d
        /\ \A x \in Daemon : Sweeps(x, w)' => Sweeps(x, w)
        /\ \A i \in DOMAIN assignments' : JobFor(i, w)' => JobFor(i, w)
        /\ \A i \in DOMAIN assignments' : JobStarts(i, w)' => JobStarts(i, w)
        /\ \A c \in Client : ClientStarts(c, w)' => ClientStarts(c, w)
    BY <1>1 DEF Handles, DaemonStarts, Sweeps, JobFor, JobStarts, ClientStarts, Awaits
  <2>2. CASE w # daemon[d].w
    BY <1>2, <2>1, <2>2, NobodyNew DEF CapacityInv
  <2>3. CASE w = daemon[d].w
    <3>1. DaemonStarts(d, w) /\ StartedOnce(w)
      BY <2>3 DEF DaemonStarts, Handles, At, CapacityInv
    <3>2. NoClient(w) /\ NoJob(w) /\ \A e \in Daemon : Handles(e, w) => e = d
      BY <3>1 DEF StartedOnce
    <3>3. Past(w)'
      BY <1>2, <2>1, <2>3, <3>2
         DEF Past, NoClient, NoJob, ClientStarts, JobStarts, DaemonStarts
    <3> QED
      BY <3>3 DEF Past, StartedOnce
  <2> QED
    BY <2>2, <2>3
<1>5. MarksOnHost'
  <2>1. \A c \in Client : client[c].pc = "mark" => client[c].w \in Workload
    BY DEF TypeInv, ClientKnows, KnowsCall
  <2> QED
    BY <1>2, <2>1 DEF CapacityInv, MarksOnHost
<1>6. PromisesFit'
  <2>1. ASSUME NEW w \in Workload, w = daemon[d].w
        PROVE  workloads[w].status = "assigned"
    BY <2>1 DEF At, CapacityInv, StartedOnce, DaemonStarts, Handles
  <2>2. \A w \in Workload : workloads'[w].status \in Allocating =>
                               workloads[w].status \in Allocating
    BY <1>2, <2>1 DEF Allocating
  <2> QED
    BY <1>2, <2>2, NoNewPromises DEF CapacityInv
<1> QED
  BY <1>3, <1>4, <1>5, <1>6 DEF CapacityInv

\* A claimed job leaves the queue into the daemon's hands.
LEMMA ClaimKeepsCapacity ==
    ASSUME TypeInv, QueueInv, CapacityInv, OneClient, IsFiniteSet(Workload),
           UNCHANGED client, NEW d \in Daemon, Claim(d)
    PROVE  CapacityInv'
<1>0. /\ assignments \in Seq(Assignment) /\ daemon \in [Daemon -> DaemonState]
      /\ KnowsJob(daemon[d]) /\ BatchOf(d, daemon[d])
  BY DEF TypeInv, TypeOK, SharedTypeOK, DaemonTypeOK, DaemonKnows, QueueInv
<1>1. PICK i \in daemon[d].batch :
         /\ SetAssignment(i, "processing")
         /\ daemon' = [daemon EXCEPT ![d] =
                [daemon[d] EXCEPT !.pc = Dispatch(d, assignments[i].action,
                                                  workloads[assignments[i].workload]),
                                  !.batch = daemon[d].batch \ {i}, !.job = i,
                                  !.w = assignments[i].workload,
                                  !.rt = workloads[assignments[i].workload].runtimeId]]
  BY DEF Claim
<1>2. i \in DOMAIN assignments /\ assignments[i].status = "pending"
  BY <1>0 DEF KnowsJob, BatchOf, WaitsFor
<1>3. PICK w \in Workload : w = assignments[i].workload
  <2>1. i \in 1..Len(assignments)
    BY <1>0, <1>2
  <2>2. assignments[i] \in Assignment
    BY <1>0, <2>1, ElementOfSeq
  <2> QED
    BY <2>2 DEF Assignment
<1>4. /\ daemon'[d].pc = Dispatch(d, assignments[i].action, workloads[w])
      /\ daemon'[d].w = w /\ daemon'[d].sweep = daemon[d].sweep
      /\ \A x \in Daemon \ {d} : daemon'[x] = daemon[x]
  BY <1>0, <1>1, <1>3 DEF DaemonState
<1>5. /\ DOMAIN assignments' = DOMAIN assignments
      /\ \A j \in DOMAIN assignments :
            /\ assignments'[j].workload = assignments[j].workload
            /\ assignments'[j].action = assignments[j].action
            /\ assignments'[j].status = IF j = i THEN "processing" ELSE assignments[j].status
  BY <1>0, <1>1, SetAssignmentEffect DEF AssignmentStatus
<1>6. UNCHANGED workloads
  BY DEF Claim
<1>7. /\ assignments[i].action \in {"start", "sleep"}
      /\ daemon'[d].pc \in {"sleeping", "stop", "fail", "launch"}
      /\ daemon'[d].pc = "launch" => assignments[i].action = "start"
  BY <1>2, <1>4 DEF CapacityInv, StartAndSleep, Dispatch
<1>8. StartAndSleep'
  BY <1>4, <1>5, <1>7 DEF CapacityInv, StartAndSleep
<1>9. ASSUME NEW v \in Workload PROVE StartedOnce(v)'
  <2>1. \A j \in DOMAIN assignments' :
           /\ JobFor(j, v)' => JobFor(j, v) /\ j # i
           /\ JobStarts(j, v)' => JobStarts(j, v) /\ j # i
    BY <1>5 DEF JobFor, JobStarts
  <2>2. /\ \A x \in Daemon : Sweeps(x, v)' => Sweeps(x, v)
        /\ \A c \in Client : /\ Awaits(c, v)' => Awaits(c, v)
                             /\ ClientStarts(c, v)' => ClientStarts(c, v)
    BY <1>4 DEF Sweeps, Awaits, ClientStarts
  <2>3. \A x \in Daemon : Handles(x, v)' => Handles(x, v) \/ x = d
    BY <1>4 DEF Handles
  <2>4. CASE v # w
    <3>1. \A x \in Daemon : /\ Handles(x, v)' => Handles(x, v)
                            /\ DaemonStarts(x, v)' => DaemonStarts(x, v)
      BY <1>4, <2>4 DEF Handles, DaemonStarts
    <3> QED
      BY <1>5, <1>6, <2>1, <2>2, <3>1, NobodyNew DEF CapacityInv
  <2>5. CASE v = w /\ assignments[i].action = "start"
    <3>1. JobStarts(i, w) /\ StartedOnce(w)
      BY <1>2, <1>3, <2>5 DEF JobStarts, JobFor, CapacityInv
    <3>2. /\ workloads[w].status = "assigned"
          /\ NoClient(w) /\ NoDaemon(w) /\ NoSweep(w)
          /\ \A j \in DOMAIN assignments : JobFor(j, w) => j = i
      BY <1>2, <3>1 DEF StartedOnce
    <3>3. NoClient(w)' /\ NoSweep(w)'
      BY <2>2, <2>5, <3>2 DEF NoClient, NoSweep
    <3>4. NoJob(w)'
      BY <1>5, <2>1, <2>5, <3>2 DEF NoJob
    <3>5. \A x \in Daemon : Handles(x, w)' => x = d
      BY <2>3, <2>5, <3>2 DEF NoDaemon
    <3>6. /\ \A x \in Client : ~ClientStarts(x, w)'
          /\ \A j \in DOMAIN assignments' : ~JobStarts(j, w)'
      BY <3>3, <3>4 DEF NoClient, NoJob, ClientStarts, JobStarts
    <3>7. \A x \in Daemon : DaemonStarts(x, w)' => x = d
      BY <3>5 DEF DaemonStarts
    <3> QED
      BY <1>6, <2>5, <3>2, <3>3, <3>4, <3>5, <3>6, <3>7 DEF StartedOnce
  <2>6. CASE v = w /\ assignments[i].action # "start"
    <3>1. Past(w)
      BY <1>2, <1>3, <2>6, OthersCome DEF CapacityInv, JobFor, JobStarts
    <3>2. \A x \in Daemon : DaemonStarts(x, w)' => DaemonStarts(x, w)
      BY <1>4, <1>7, <2>6 DEF Handles, DaemonStarts
    <3> QED
      BY <1>5, <1>6, <2>1, <2>2, <2>6, <3>1, <3>2, NobodyStarts DEF Past
  <2> QED
    BY <2>4, <2>5, <2>6
<1>10. MarksOnHost' /\ PromisesFit'
  BY <1>6, NoNewPromises DEF CapacityInv, MarksOnHost
<1> QED
  BY <1>8, <1>9, <1>10 DEF CapacityInv

\* A sweep reads running workloads and condemns some of them later.
LEMMA SweepKeepsCapacity ==
    ASSUME TypeInv, CapacityInv, OneClient, IsFiniteSet(Workload), UNCHANGED client,
           NEW d \in Daemon, CollectMetering(d) \/ Meter(d)
    PROVE  CapacityInv'
<1>0. workloads \in [Workload -> Row] /\ daemon \in [Daemon -> DaemonState]
  BY DEF TypeInv, TypeOK, SharedTypeOK, DaemonTypeOK
<1>1. UNCHANGED <<workloads, assignments>>
  BY DEF CollectMetering, Meter, sharedVars, dbVars
<1>2. /\ daemon'[d].pc \in {"sweep", "condemn"}
      /\ \A x \in Daemon \ {d} : daemon'[x] = daemon[x]
      /\ daemon'[d].sweep \subseteq daemon[d].sweep \cup Metered(Serves[d])
      /\ \/ daemon'[d].w \in {daemon[d].w, NoWorkload}
         \/ \E row \in daemon[d].sweep : daemon'[d].w = row[1]
  <2>1. CASE CollectMetering(d)
    BY <1>0, <2>1 DEF CollectMetering, DaemonState
  <2>2. CASE Meter(d)
    <3>1. PICK row, answer :
             /\ row \in daemon[d].sweep
             /\ daemon' = [daemon EXCEPT ![d] =
                   [daemon[d] EXCEPT !.sweep = daemon[d].sweep \ {row},
                                     !.pc = IF answer = "running" THEN "sweep" ELSE "condemn",
                                     !.w = IF answer = "running" THEN NoWorkload ELSE row[1]]]
      BY <2>2 DEF Meter
    <3> QED
      BY <1>0, <3>1 DEF DaemonState
  <2> QED
    BY <2>1, <2>2
<1>3. \A row \in Metered(Serves[d]) : workloads[row[1]].status = "running" /\ row[1] \in Workload
  BY DEF Metered
<1>4. StartAndSleep'
  BY <1>1, <1>2 DEF CapacityInv, StartAndSleep
<1>5. ASSUME NEW v \in Workload PROVE StartedOnce(v)'
  <2>1. /\ \A i \in DOMAIN assignments' : JobFor(i, v)' => JobFor(i, v)
        /\ \A i \in DOMAIN assignments' : JobStarts(i, v)' => JobStarts(i, v)
        /\ \A c \in Client : ClientStarts(c, v)' => ClientStarts(c, v)
        /\ \A x \in Daemon : DaemonStarts(x, v)' => DaemonStarts(x, v)
    BY <1>1, <1>2 DEF JobFor, JobStarts, ClientStarts, Awaits, DaemonStarts, Handles
  <2>2. CASE Past(v)
    BY <1>1, <2>1, <2>2, NobodyStarts DEF Past
  <2>3. CASE ~Past(v)
    <3>1. ~Sweeps(d, v) /\ workloads[v].status # "running"
      BY <2>3, OthersCome DEF CapacityInv
    <3>2. \A x \in Daemon : /\ Sweeps(x, v)' => Sweeps(x, v)
                            /\ Handles(x, v)' => Handles(x, v)
      BY <1>2, <1>3, <3>1, WorkloadAssumption DEF Sweeps, Handles
    <3> QED
      BY <1>1, <2>1, <3>2, NobodyNew DEF CapacityInv
  <2> QED
    BY <2>2, <2>3
<1>6. MarksOnHost' /\ PromisesFit'
  BY <1>1, NoNewPromises DEF CapacityInv, MarksOnHost
<1> QED
  BY <1>4, <1>5, <1>6 DEF CapacityInv

LEMMA DaemonKeepsCapacity ==
    ASSUME TypeInv, QueueInv, CapacityInv, OneClient, IsFiniteSet(Workload),
           NEW d \in Daemon, DaemonStep(d), UNCHANGED clientVars
    PROVE  CapacityInv'
<1>0. /\ workloads \in [Workload -> Row] /\ daemon[d] \in DaemonState
      /\ KnowsJob(daemon[d]) /\ UNCHANGED client /\ daemon[d].pc # "inspect"
  BY DEF TypeInv, TypeOK, SharedTypeOK, DaemonTypeOK, DaemonKnows, clientVars,
         CapacityInv, StartAndSleep
<1>a. ASSUME NEW r, daemon' = [daemon EXCEPT ![d] = r], r.w \in {daemon[d].w, NoWorkload},
             r.pc # "inspect",
             r.pc \in {"launch", "running"} => daemon[d].pc \in {"launch", "running"},
             r.sweep \subseteq daemon[d].sweep, JobsConclude, UNCHANGED workloads
      PROVE  CapacityInv'
  BY <1>0, <1>a, DaemonGoesOn
<1>b. ASSUME NEW pc, Continue(d, pc), pc # "inspect",
             pc \in {"launch", "running"} => daemon[d].pc \in {"launch", "running"},
             JobsConclude, UNCHANGED workloads
      PROVE  CapacityInv'
  <2> DEFINE r == [daemon[d] EXCEPT !.pc = pc]
  <2>1. daemon' = [daemon EXCEPT ![d] = r]
    BY <1>b DEF Continue
  <2>2. r.pc = pc /\ r.w = daemon[d].w /\ r.sweep = daemon[d].sweep
    BY <1>0 DEF DaemonState
  <2> HIDE DEF r
  <2> QED
    BY <1>a, <1>b, <2>1, <2>2
\* Daemon d writes the status of the workload it handles, and does not start it.
<1>c. ASSUME NEW r, daemon' = [daemon EXCEPT ![d] = r], r.w \in {daemon[d].w, NoWorkload},
             r.pc \notin {"inspect", "launch", "running"}, r.sweep = daemon[d].sweep,
             UNCHANGED assignments, daemon[d].pc \notin {"launch", "running"},
             MarkSleeping(daemon[d].w) \/ MarkFailed(daemon[d].w)
      PROVE  CapacityInv'
  <2>1. ASSUME NEW w \in Workload
        PROVE  /\ workloads'[w].hostId = workloads[w].hostId
               /\ \/ workloads'[w].status = workloads[w].status
                  \/ workloads'[w].status \in {"sleeping", "failed"} /\ w = daemon[d].w
    BY <1>0, <1>c DEF MarkSleeping, MarkFailed, Row
  <2>2. ASSUME NEW w \in Workload, w = daemon[d].w
        PROVE  Past(w)
    BY <1>c, <2>2, OthersCome DEF CapacityInv, Handles, DaemonStarts
  <2> QED
    BY <1>0, <1>c, <2>1, <2>2, ConcludingJobs, DaemonGoesOn
<1>1. ASSUME StartDaemon(d) \/ StopDaemon(d) \/ EndLoop(d) \/ StopRuntime(d)
      PROVE  CapacityInv'
  BY <1>1, <1>b, ConcludingJobs DEF StartDaemon, StopDaemon, EndLoop, StopRuntime, sharedVars, dbVars
<1>2. ASSUME CrashDaemon(d)
      PROVE  CapacityInv'
  <2>1. Off.w = NoWorkload /\ Off.pc = "off" /\ Off.sweep = {}
    BY DEF Off
  <2> QED
    BY <1>2, <1>a, <2>1, ConcludingJobs DEF CrashDaemon
<1>3. ASSUME RunOnce(d)
      PROVE  CapacityInv'
  <2>0. PICK batch \in NextPendingForHost(Serves[d]) :
           daemon' = [daemon EXCEPT ![d] = [daemon[d] EXCEPT !.pc = "next", !.batch = batch]]
    BY <1>3 DEF RunOnce
  <2> DEFINE r == [daemon[d] EXCEPT !.pc = "next", !.batch = batch]
  <2>1. daemon' = [daemon EXCEPT ![d] = r] /\ UNCHANGED <<assignments, workloads>>
    BY <1>3, <2>0 DEF RunOnce, sharedVars, dbVars
  <2>2. r.pc = "next" /\ r.w = daemon[d].w /\ r.sweep = daemon[d].sweep
    BY <1>0 DEF DaemonState
  <2> HIDE DEF r
  <2> QED
    BY <1>a, <2>1, <2>2, ConcludingJobs
<1>4. ASSUME Claim(d)
      PROVE  CapacityInv'
  BY <1>0, <1>4, ClaimKeepsCapacity
<1>5. ~InspectOld(d)
  BY <1>0 DEF InspectOld, At
<1>6. ASSUME Launch(d)
      PROVE  CapacityInv'
  <2>1. CASE Continue(d, "fail")
    BY <1>6, <1>b, <2>1, ConcludingJobs DEF Launch, dbVars
  <2>2. CASE ~Continue(d, "fail")
    <3> DEFINE r == [daemon[d] EXCEPT !.pc = "running", !.rt = Len(containers) + 1]
    <3>1. daemon' = [daemon EXCEPT ![d] = r] /\ UNCHANGED <<assignments, workloads>>
      BY <1>6, <2>2 DEF Launch, dbVars
    <3>2. r.pc = "running" /\ r.w = daemon[d].w /\ r.sweep = daemon[d].sweep
      BY <1>0 DEF DaemonState
    <3>3. daemon[d].pc = "launch"
      BY <1>6 DEF Launch, At
    <3> HIDE DEF r
    <3> QED
      BY <1>a, <3>1, <3>2, <3>3, ConcludingJobs
  <2> QED
    BY <2>1, <2>2
<1>7. ASSUME Launched(d)
      PROVE  CapacityInv'
  <2>1. CASE StatementThrows(d)
    BY <1>b, <2>1, ConcludingJobs DEF StatementThrows, sharedVars, dbVars
  <2>2. CASE ~StatementThrows(d)
    BY <1>0, <1>7, <2>2, LaunchedKeepsCapacity DEF Launched
  <2> QED
    BY <2>1, <2>2
<1>8. ASSUME Stopped(d)
      PROVE  CapacityInv'
  <2>1. CASE StatementThrows(d)
    BY <1>b, <2>1, ConcludingJobs DEF StatementThrows, sharedVars, dbVars
  <2>2. CASE ~StatementThrows(d)
    <3> DEFINE r == [daemon[d] EXCEPT !.pc = "done"]
    <3>1. /\ daemon' = [daemon EXCEPT ![d] = r] /\ UNCHANGED assignments
          /\ MarkSleeping(daemon[d].w) /\ daemon[d].pc = "sleeping"
      BY <1>8, <2>2 DEF Stopped, Continue, At
    <3>2. r.pc = "done" /\ r.w = daemon[d].w /\ r.sweep = daemon[d].sweep
      BY <1>0 DEF DaemonState
    <3> HIDE DEF r
    <3> QED
      BY <1>c, <3>1, <3>2
  <2> QED
    BY <2>1, <2>2
<1>d. ASSUME NextAssignment(d)
      PROVE  \E r : /\ daemon' = [daemon EXCEPT ![d] = r]
                    /\ r.pc = "next" /\ r.w = NoWorkload /\ r.sweep = daemon[d].sweep
  <2> DEFINE r == [daemon[d] EXCEPT !.pc = "next", !.job = 0, !.w = NoWorkload, !.rt = 0]
  <2>1. daemon' = [daemon EXCEPT ![d] = r]
    BY <1>d DEF NextAssignment
  <2>2. r.pc = "next" /\ r.w = NoWorkload /\ r.sweep = daemon[d].sweep
    BY <1>0 DEF DaemonState
  <2> HIDE DEF r
  <2> QED
    BY <2>1, <2>2
<1>9. ASSUME Complete(d)
      PROVE  CapacityInv'
  <2>1. JobsConclude /\ UNCHANGED workloads
    BY <1>9, ConcludingJobs DEF Complete, AssignmentStatus
  <2>2. CASE NextAssignment(d)
    BY <1>a, <1>d, <2>1, <2>2
  <2>3. CASE Continue(d, "fail")
    BY <1>b, <2>1, <2>3
  <2> QED
    BY <1>9, <2>2, <2>3 DEF Complete
<1>10. ASSUME FailAssignment(d)
       PROVE  CapacityInv'
  BY <1>10, <1>b, ConcludingJobs DEF FailAssignment, AssignmentStatus
<1>11. ASSUME FailWorkload(d)
       PROVE  CapacityInv'
  BY <1>11, <1>c, <1>d DEF FailWorkload, At
<1>12. ASSUME CollectMetering(d) \/ Meter(d)
       PROVE  CapacityInv'
  BY <1>0, <1>12, SweepKeepsCapacity
<1>13. ASSUME Condemn(d)
       PROVE  CapacityInv'
  <2> DEFINE r == [daemon[d] EXCEPT !.pc = "sweep", !.w = NoWorkload]
  <2>1. /\ daemon' = [daemon EXCEPT ![d] = r] /\ UNCHANGED assignments
        /\ MarkFailed(daemon[d].w) /\ daemon[d].pc = "condemn"
    BY <1>13 DEF Condemn, At
  <2>2. r.pc = "sweep" /\ r.w = NoWorkload /\ r.sweep = daemon[d].sweep
    BY <1>0 DEF DaemonState
  <2> HIDE DEF r
  <2> QED
    BY <1>c, <2>1, <2>2
<1> QED
  BY <1>1, <1>2, <1>3, <1>4, <1>5, <1>6, <1>7, <1>8, <1>9, <1>10, <1>11, <1>12, <1>13
     DEF DaemonStep, DaemonWorks

--------------------------------------------------------------------------------

LEMMA CapacityInit ==
    ASSUME Init, IsFiniteSet(Workload)
    PROVE  CapacityInv
<1> USE DEF Init, SharedInit, ClientInit, DaemonInit
<1>1. /\ \A c \in Client : client[c].pc = "idle"
      /\ \A d \in Daemon : daemon[d].pc = "off" /\ daemon[d].w = NoWorkload /\ daemon[d].sweep = {}
      /\ DOMAIN assignments = {}
      /\ \A w \in Workload : workloads[w].status = "absent"
  BY DEF Returned, Off
<1>2. StartAndSleep /\ MarksOnHost
  BY <1>1 DEF StartAndSleep, CallKnown, MarksOnHost
<1>3. \A w \in Workload : StartedOnce(w)
  BY <1>1, WorkloadAssumption DEF StartedOnce, ClientStarts, Awaits, JobStarts, DaemonStarts,
     Handles, Sweeps, NoClient, NoJob, NoDaemon, NoSweep
<1>4. ASSUME NEW h \in Host
      PROVE  SumFunctionOnSet(Cpu, Promised(h)) <= Capacity[h]
  <2>1. Promised(h) = {}
    BY <1>1 DEF Promised, AllocatedTo, Allocating
  <2>2. SumFunctionOnSet(Cpu, {}) = 0
    BY CapacityAssumption, SumType
  <2> QED
    BY <2>1, <2>2, CapacityAssumption
<1> QED
  BY <1>2, <1>3, <1>4 DEF CapacityInv, PromisesFit

\* What a host was told to run never exceeds what its owner allowed, for one
\* caller of spawn, sleep, checkpoint and `host start/stop`, whatever daemons,
\* containers and statements fail and whenever owners stop their hosts.
THEOREM CapacityRespected ==
    ASSUME OneDaemonPerHost, OneClient, NoReturns, IsFiniteSet(Workload)
    PROVE  Spec => []NoOvercommit
<1>1. Init => CapacityInv
  BY CapacityInit
<1>2. TypeInv /\ QueueInv /\ CapacityInv /\ [Next]_vars => CapacityInv'
  <2> SUFFICES ASSUME TypeInv, QueueInv, CapacityInv, [Next]_vars PROVE CapacityInv'
    OBVIOUS
  <2>0. ASSUME UNCHANGED <<client, daemon, assignments, workloads>>
        PROVE  CapacityInv'
    BY <2>0 DEF CapacityInv, StartAndSleep, StartedOnce, ClientStarts, JobStarts, DaemonStarts,
       Awaits, JobFor, Handles, Sweeps, NoClient, NoJob, NoDaemon, NoSweep,
       MarksOnHost, PromisesFit, Promised, AllocatedTo
  <2>1. CASE \E c \in Client : ClientStep(c) /\ UNCHANGED daemon
    BY <2>1, ClientKeepsCapacity
  <2>2. CASE HostCommand /\ UNCHANGED daemon
    BY <2>0, <2>2 DEF HostCommand, SetDaemonStatus
  <2>3. CASE \E d \in Daemon : DaemonStep(d) /\ UNCHANGED clientVars
    BY <2>3, DaemonKeepsCapacity
  <2>4. CASE ContainerDies /\ UNCHANGED <<clientVars, daemon>>
    BY <2>0, <2>4 DEF ContainerDies, clientVars, dbVars
  <2>5. CASE UNCHANGED vars
    BY <2>0, <2>5 DEF vars, sharedVars, dbVars, clientVars
  <2> QED
    BY <2>1, <2>2, <2>3, <2>4, <2>5 DEF Next
<1>3. CapacityInv => NoOvercommit
  <2> SUFFICES ASSUME CapacityInv, NEW h \in Host PROVE Allocated(h) <= Capacity[h]
    BY DEF NoOvercommit
  <2> DEFINE P == Promised(h)
             A == AllocatedTo(h)
  <2>1. P \in SUBSET Workload /\ IsFiniteSet(P) /\ A \in SUBSET P /\ A \in SUBSET Workload
    BY PromisedType DEF Promised
  <2>2. \A w \in P : Cpu[w] \in Nat
    BY <2>1, CapacityAssumption
  <2>3. SumFunctionOnSet(Cpu, P) <= Capacity[h] /\ Capacity[h] \in Nat
    BY CapacityAssumption DEF CapacityInv, PromisesFit
  <2>4. SumFunctionOnSet(Cpu, P) \in Nat /\ SumFunctionOnSet(Cpu, A) \in Nat
    BY <2>1, PromisedType
  <2> HIDE DEF P, A
  <2>5. SumFunctionOnSet(Cpu, A) <= SumFunctionOnSet(Cpu, P)
    BY <2>1, <2>2, SumMonotone
  <2>6. SumFunctionOnSet(Cpu, A) <= Capacity[h]
    BY <2>3, <2>4, <2>5
  <2> QED
    BY <2>6 DEF Allocated, A
<1>4. Spec => [](TypeInv /\ QueueInv)
  BY QueueInvariance DEF OneDaemonPerHost
<1> QED
  BY <1>1, <1>2, <1>3, <1>4, PTL DEF Spec

================================================================================
