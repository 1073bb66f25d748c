--------------------------- MODULE MCObjectStore ---------------------------
(* Instances of ObjectStore for TLC. *)
EXTENDS ObjectStore, TLC

CONSTANTS m1, m2, n1, n2, p1, p2

(* Both nodes mount the same file systems, or each has its own. *)
SharedMount == [n \in Nodes |-> m1]
OwnMounts == [n \in Nodes |-> IF n = n1 THEN m1 ELSE m2]

(* Where PUTs go: to any node, to the first, or by kind. *)
Anywhere == [n \in Nodes |-> Kinds]
AtFirst == [n \in Nodes |-> IF n = n1 THEN Kinds ELSE {}]
LocalAtFirst ==
    [n \in Nodes |-> IF n = n1 THEN Kinds \cap LocalKinds ELSE Kinds \ LocalKinds]

HandlerSymmetry == Permutations(Handlers)
=============================================================================
