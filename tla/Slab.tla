-------------------------------- MODULE Slab --------------------------------
(* The RDMA slab: a best-fit free list over one registered region, kept in   *)
(* two indexes (by offset and by size), with immediate coalescing, and the   *)
(* reference-counted extents cut from it.  Every action runs under the       *)
(* allocator's mutex.  The region itself (mmap, ibv_reg_mr) is external.     *)
EXTENDS Integers, FiniteSets

CONSTANTS
    Total,      \* bytes of the region, a multiple of Align
    Align,      \* SLAB_ALIGN
    Ids,        \* extents that can be alive at once
    Sizes,      \* the sizes callers ask for
    MaxRefs     \* bound: references to one extent

ASSUME SlabAssumption ==
    /\ Align \in Nat \ {0}
    /\ Total \in Nat \ {0}
    /\ Sizes \subseteq Nat
    /\ MaxRefs \in Nat \ {0}
    /\ "free" \notin Ids

VARIABLES
    byOffset,       \* the free blocks [off, len], as keyed by offset
    bySize,         \* the same blocks in the index by (len, offset)
    bytesFree,
    bytesUsed,
    highWatermark,
    ext             \* extents: [off, cap, refs], dead when refs = 0

vars == <<byOffset, bySize, bytesFree, bytesUsed, highWatermark, ext>>

Block(o, l) == [off |-> o, len |-> l]
NoExtent == [off |-> 0, cap |-> 0, refs |-> 0]

RoundUp(n) == n + ((Align - (n % Align)) % Align)

Init ==
    /\ byOffset = {Block(0, Total)}
    /\ bySize = {Block(0, Total)}
    /\ bytesFree = Total /\ bytesUsed = 0 /\ highWatermark = 0
    /\ ext = [i \in Ids |-> NoExtent]

-----------------------------------------------------------------------------
(* insert_block on the map: a block at the same offset is replaced. *)
InsertBlock(S, b) == {x \in S : x.off # b.off} \cup {b}

(* The first block of the range (size, 0).. of the index by size: the        *)
(* smallest that fits, the lowest of equals.                                 *)
BestFit(b, c) ==
    /\ b.len >= c
    /\ \A x \in bySize : x.len >= c => b.len < x.len \/ (b.len = x.len /\ b.off <= x.off)

(* What an allocation of c bytes puts back of block b.  Mutants: the whole   *)
(* length again; the head that was just handed out.                          *)
RestWholeLength(b, c) == IF b.len > c THEN {Block(b.off + c, b.len)} ELSE {}
RestOfHead(b, c) == IF b.len > c THEN {Block(b.off, b.len - c)} ELSE {}
Rest(b, c) == IF b.len > c THEN {Block(b.off + c, b.len - c)} ELSE {}

(* RdmaSlab::alloc for size bytes; with no block that fits, the caller gets  *)
(* None and nothing changes.                                                 *)
Alloc(i, size) ==
    LET c == RoundUp(size) IN
    /\ ext[i].refs = 0
    /\ size # 0
    /\ \E b \in bySize :
          /\ BestFit(b, c)
          /\ byOffset' = {x \in byOffset : x.off # b.off} \cup Rest(b, c)
          /\ bySize' = (bySize \ {b}) \cup Rest(b, c)
          /\ ext' = [ext EXCEPT ![i] = [off |-> b.off, cap |-> c, refs |-> 1]]
    /\ bytesFree' = bytesFree - c
    /\ bytesUsed' = bytesUsed + c
    /\ highWatermark' = IF bytesUsed + c > highWatermark THEN bytesUsed + c ELSE highWatermark

(* Arc::clone, for a Bytes view or an RDMA operation in flight. *)
Clone(i) ==
    /\ ext[i].refs \in 1 .. MaxRefs - 1
    /\ ext' = [ext EXCEPT ![i].refs = ext[i].refs + 1]
    /\ UNCHANGED <<byOffset, bySize, bytesFree, bytesUsed, highWatermark>>

(* The free neighbours of [o, e): the block that starts at e, and the last   *)
(* one below o if it ends there.  Mutant: the left one is not looked for.    *)
Right(e) == {b \in byOffset : b.off = e}
LeftIgnored(o) == {}
Left(o) == {b \in byOffset : /\ b.off < o /\ b.off + b.len = o
                             /\ \A x \in byOffset : x.off < o => x.off <= b.off}

(* FreeList::free of extent i's bytes.  Mutant: bytes_used is not reduced.   *)
FreeUncounted(i) ==
    LET o == ext[i].off IN
    /\ byOffset' = InsertBlock(byOffset, Block(o, ext[i].cap))
    /\ bySize' = bySize \cup {Block(o, ext[i].cap)}
    /\ bytesFree' = bytesFree + ext[i].cap
    /\ UNCHANGED bytesUsed

Free(i) ==
    LET o == ext[i].off
        e == ext[i].off + ext[i].cap
        start == IF Left(o) = {} THEN o ELSE (CHOOSE b \in Left(o) : TRUE).off
        end == IF Right(e) = {} THEN e ELSE e + (CHOOSE b \in Right(e) : TRUE).len
        merged == Block(start, end - start)
    IN  /\ byOffset' = InsertBlock(byOffset \ (Left(o) \cup Right(e)), merged)
        /\ bySize' = (bySize \ (Left(o) \cup Right(e))) \cup {merged}
        /\ bytesFree' = bytesFree + ext[i].cap
        /\ bytesUsed' = bytesUsed - ext[i].cap

Kept == UNCHANGED <<byOffset, bySize, bytesFree, bytesUsed>>

(* Drop of an Arc<SlabExtent>: the last one returns the bytes.  Mutant: the  *)
(* first one does, whoever else holds a reference.                           *)
DropFirst(i) ==
    /\ ext[i].refs > 0
    /\ ext' = [ext EXCEPT ![i] = NoExtent]
    /\ Free(i)
    /\ UNCHANGED highWatermark

Drop(i) ==
    /\ ext[i].refs > 0
    /\ ext' = IF ext[i].refs = 1 THEN [ext EXCEPT ![i] = NoExtent]
              ELSE [ext EXCEPT ![i].refs = ext[i].refs - 1]
    /\ IF ext[i].refs = 1 THEN Free(i) ELSE Kept
    /\ UNCHANGED highWatermark

Next == \E i \in Ids : (\E s \in Sizes : Alloc(i, s)) \/ Clone(i) \/ Drop(i)

Spec == Init /\ [][Next]_vars

-----------------------------------------------------------------------------
(* Properties *)

TypeOK ==
    /\ \A b \in byOffset \cup bySize : b \in [off : Nat, len : Nat \ {0}] /\ b.off + b.len <= Total
    /\ ext \in [Ids -> [off : Nat, cap : Nat, refs : 0 .. MaxRefs]]
    /\ bytesFree \in 0 .. Total /\ bytesUsed \in 0 .. Total /\ highWatermark \in 0 .. Total

Live(i) == ext[i].refs > 0
Apart(o1, l1, o2, l2) == o1 + l1 <= o2 \/ o2 + l2 <= o1

(* No byte is in two live extents, or in a live extent and on the free list: *)
(* the NIC never writes into bytes handed to someone else.                   *)
NoOverlap ==
    /\ \A i, j \in Ids : i # j /\ Live(i) /\ Live(j) =>
          Apart(ext[i].off, ext[i].cap, ext[j].off, ext[j].cap)
    /\ \A i \in Ids, b \in byOffset : Live(i) => Apart(ext[i].off, ext[i].cap, b.off, b.len)

Holds(i, u) == Live(i) /\ ext[i].off <= u /\ u < ext[i].off + ext[i].cap
Owned(u) == \E i \in Ids : Holds(i, u)

(* "Returns None if the slab is full (no large enough contiguous free        *)
(* block)": whenever c contiguous bytes are unowned, some free block holds   *)
(* c bytes, so an allocation fails only when it must.                        *)
AllocComplete ==
    \A o \in 0 .. Total - 1 : \A c \in 1 .. Total - o :
        (\A u \in o .. o + c - 1 : ~Owned(u)) => \E b \in bySize : b.len >= c

(* The counters agree with the extents, also after any number of splits and  *)
(* merges.                                                                   *)
Accounted ==
    /\ bytesFree + bytesUsed = Total
    /\ bytesUsed = Cardinality({u \in 0 .. Total - 1 : Owned(u)})

(* The free list and the extents implement SlabMemory. *)
OwnerOf(u) == IF Owned(u) THEN CHOOSE i \in Ids : Holds(i, u) ELSE "free"
Memory == INSTANCE SlabMemory WITH
    owner <- [u \in 0 .. Total - 1 |-> OwnerOf(u)],
    refs <- [i \in Ids |-> ext[i].refs]

MemorySpec == Memory!Spec
=============================================================================
