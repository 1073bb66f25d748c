---------------------------- MODULE MCMemoryTier ----------------------------
(* Two objects that do not fit into L1 together. *)
EXTENDS MemoryTier, TLC

CONSTANTS k1, k2, p1, p2

Sizes == [k \in Keys |-> IF k = k1 THEN 1 ELSE 2]
HandlerSymmetry == Permutations(Handlers)
=============================================================================
