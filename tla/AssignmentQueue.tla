---------------------------- MODULE AssignmentQueue ----------------------------
(***************************************************************************)
(* What the assignments table promises its users, whatever the daemons and *)
(* clients do: a posted job is handed to the daemon of its host at most    *)
(* once, and a failed job stays failed.  Of two jobs of a host, the one     *)
(* that was posted first goes first if the clock showed it an earlier      *)
(* second; jobs of one second, and jobs whose posters' clocks disagree     *)
(* with the order of posting, are in no promised order.                    *)
(***************************************************************************)
EXTENDS Naturals, Sequences

CONSTANTS Host, Second

VARIABLE queue \* the jobs, in the order they were posted

States == {"pending", "processing", "completed", "failed"}

TypeOK == queue \in Seq([host : Host, status : States, at : Second])

Init == queue = <<>>

Post(h) == \E t \in Second :
    queue' = Append(queue, [host |-> h, status |-> "pending", at |-> t])

\* Job j goes before job i.
Precedes(j, i) == j < i /\ queue[j].host = queue[i].host /\ queue[j].at < queue[i].at

\* A pending job that no pending one precedes is handed out.
Claim(i) ==
    /\ queue[i].status = "pending"
    /\ \A j \in DOMAIN queue : queue[j].status = "pending" => ~Precedes(j, i)
    /\ queue' = [queue EXCEPT ![i].status = "processing"]

Finish(i, outcome) ==
    /\ queue[i].status = "processing"
    /\ queue' = [queue EXCEPT ![i].status = outcome]

\* A job is failed after it was completed: the daemon's bookkeeping that
\* follows the completion threw.
Revoke(i) ==
    /\ queue[i].status = "completed"
    /\ queue' = [queue EXCEPT ![i].status = "failed"]

HandOut == \E i \in DOMAIN queue : Claim(i)
Conclude == \E i \in DOMAIN queue, outcome \in {"completed", "failed"} : Finish(i, outcome)

Next ==
    \/ \E h \in Host : Post(h)
    \/ HandOut
    \/ Conclude
    \/ \E i \in DOMAIN queue : Revoke(i)

Spec == Init /\ [][Next]_queue

\* Jobs do not wait forever: as long as there are any, they are handed out
\* and concluded.
FairSpec == Spec /\ WF_queue(HandOut) /\ WF_queue(Conclude)

================================================================================
