------------------------------- MODULE MCBilling -------------------------------
(* Instances of Billing for TLC. *)
EXTENDS Billing, TLC

UnitRate == [w \in Workload |-> 1]

Symmetric == Permutations(Host) \cup Permutations(Biller)

================================================================================
