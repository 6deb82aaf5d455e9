------------------------------- MODULE MCHiveVM --------------------------------
(* Instances of HiveVM for TLC. *)
EXTENDS HiveVM, TLC

UnitCpu == [w \in Workload |-> 1]
Room(n) == [h \in Host |-> n]
Roomy == Room(Cardinality(Workload))
RoomForOne == Room(1)
AnyHost == [w \in Workload |-> Host]
OnePerHost == [d \in Daemon |-> d]

Symmetric == Permutations(Workload) \cup Permutations(Client) \cup Permutations(Host)

================================================================================
