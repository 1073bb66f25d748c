----------------------------- MODULE SlabMemory -----------------------------
(* What users of the registered slab rely on: every byte belongs to at most  *)
(* one extent, an allocation gets contiguous bytes nobody owns, and an       *)
(* extent's bytes return to the pool exactly when its last reference drops.  *)
EXTENDS Integers

CONSTANTS Total, Ids

VARIABLES
    owner,  \* byte -> the extent it belongs to, or "free"
    refs    \* extent -> references (cache entry, Bytes views, RDMA pins)

Init == owner = [u \in 0 .. Total - 1 |-> "free"] /\ refs = [i \in Ids |-> 0]

Alloc(i) ==
    /\ refs[i] = 0
    /\ \E o \in 0 .. Total - 1 : \E c \in 1 .. Total - o :
          /\ \A u \in o .. o + c - 1 : owner[u] = "free"
          /\ owner' = [u \in 0 .. Total - 1 |-> IF u \in o .. o + c - 1 THEN i ELSE owner[u]]
    /\ refs' = [refs EXCEPT ![i] = 1]

Clone(i) ==
    /\ refs[i] > 0
    /\ refs' = [refs EXCEPT ![i] = @ + 1]
    /\ UNCHANGED owner

Drop(i) ==
    /\ refs[i] > 0
    /\ refs' = [refs EXCEPT ![i] = @ - 1]
    /\ owner' = IF refs[i] > 1 THEN owner
                ELSE [u \in 0 .. Total - 1 |-> IF owner[u] = i THEN "free" ELSE owner[u]]

Next == \E i \in Ids : Alloc(i) \/ Clone(i) \/ Drop(i)

Spec == Init /\ [][Next]_<<owner, refs>>
=============================================================================
