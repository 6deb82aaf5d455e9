--------------------------- MODULE ReputationLedger ----------------------------
(***************************************************************************)
(* What the reputation of hosts promises: metrics start anywhere in their  *)
(* range and move only by one outcome at a time, each counted upon what    *)
(* was counted before.  Nothing else - no registration, no owner's edit -  *)
(* touches them, and no outcome is lost under another.                     *)
(***************************************************************************)
EXTENDS Reputation

CONSTANT Host
VARIABLE metrics

Init == metrics \in [Host -> Metrics]

Outcomes(m) == {Healthy(m), Concluded(m, TRUE), Concluded(m, FALSE)}

Count(h) == \E m \in Outcomes(metrics[h]) : metrics' = [metrics EXCEPT ![h] = m]

Next == \E h \in Host : Count(h)

Spec == Init /\ [][Next]_metrics

================================================================================
