----------------------------- MODULE SlabProofs -----------------------------
(* For every region size, alignment and set of extents: the slab never hands *)
(* out a byte twice, it refuses an allocation only when no contiguous run of *)
(* unowned bytes is long enough, its counters are right, and it implements   *)
(* SlabMemory.                                                               *)
EXTENDS Slab, FiniteSetTheorems, TLAPS

(* Time limits of the provers, for a busy machine. *)
USE SMTT(15), ZenonT(30)

Blocks == [off : Nat, len : Nat \ {0}]
Covers(b, u) == b.off <= u /\ u < b.off + b.len

(* The inductive invariant.  The two indexes hold the same blocks; a block   *)
(* and a live extent lie inside the region; two free blocks neither overlap  *)
(* nor touch; free blocks and extents are disjoint and cover the region.     *)
Mirrored == bySize = byOffset
BlocksInside == \A b \in byOffset : b \in Blocks /\ b.off + b.len <= Total
ExtentsInside ==
    /\ ext \in [Ids -> [off : Nat, cap : Nat, refs : Nat]]
    /\ \A i \in Ids : Live(i) => ext[i].cap > 0 /\ ext[i].off + ext[i].cap <= Total
Coalesced ==
    \A a, b \in byOffset : a # b => a.off + a.len < b.off \/ b.off + b.len < a.off
Covered == \A u \in 0 .. Total - 1 : Owned(u) \/ \E b \in byOffset : Covers(b, u)
SlabInv == Mirrored /\ BlocksInside /\ ExtentsInside /\ Coalesced /\ NoOverlap /\ Covered

(* A rounded size is at least the size asked for. *)
LEMMA RoundUpType ==
    ASSUME NEW n \in Nat \ {0}
    PROVE  RoundUp(n) \in Nat \ {0}
<1>1. n % Align \in 0 .. Align - 1
  BY SlabAssumption
<1>2. Align - (n % Align) \in Nat
  BY <1>1, SlabAssumption
<1> DEFINE k == Align - (n % Align)
<1>3. k % Align \in 0 .. Align - 1
  BY <1>2, SlabAssumption
<1> QED
  BY <1>3, SlabAssumption DEF RoundUp

(* The whole region starts as one free block. *)
LEMMA InitSlab == Init => SlabInv
<1> SUFFICES ASSUME Init PROVE SlabInv
  OBVIOUS
<1> USE SlabAssumption
<1>1. byOffset = {[off |-> 0, len |-> Total]} /\ bySize = byOffset
  BY DEF Init, Block
<1>2. ext = [i \in Ids |-> [off |-> 0, cap |-> 0, refs |-> 0]]
  BY DEF Init, NoExtent
<1>3. Mirrored /\ BlocksInside /\ Coalesced
  BY <1>1 DEF Mirrored, BlocksInside, Coalesced, Blocks
<1>4. ExtentsInside /\ NoOverlap
  BY <1>2 DEF ExtentsInside, NoOverlap, Live
<1>5. Covered
  BY <1>1 DEF Covered, Covers
<1> QED
  BY <1>3, <1>4, <1>5 DEF SlabInv

(* RdmaSlab::alloc takes the head of a free block and puts the rest back. *)
LEMMA AllocSlab ==
    ASSUME SlabInv, NEW i \in Ids, NEW s \in Sizes, Alloc(i, s)
    PROVE  SlabInv'
<1> DEFINE c == RoundUp(s)
<1> USE SlabAssumption
<1>1. c \in Nat \ {0}
  BY RoundUpType DEF Alloc
<1> USE <1>1
<1>2. PICK b \in bySize :
        /\ BestFit(b, c)
        /\ byOffset' = {x \in byOffset : x.off # b.off} \cup Rest(b, c)
        /\ bySize' = (bySize \ {b}) \cup Rest(b, c)
        /\ ext' = [ext EXCEPT ![i] = [off |-> b.off, cap |-> c, refs |-> 1]]
  BY Zenon DEF Alloc
<1> USE <1>2
<1>3. /\ bySize = byOffset /\ BlocksInside /\ ExtentsInside /\ Coalesced /\ NoOverlap /\ Covered
  BY DEF SlabInv, Mirrored
<1> USE <1>3
<1>4. b \in byOffset /\ b \in Blocks /\ b.off + b.len <= Total /\ b.len >= c
  BY DEF BlocksInside, BestFit
<1> USE <1>4
<1>5. b.off \in Nat /\ b.len \in Nat /\ b.len > 0
  BY DEF Blocks
<1> USE <1>5
<1>6. ~Live(i)
  BY DEF Alloc, Live, ExtentsInside
<1> HIDE DEF c
<1>7. \A x \in byOffset : x.off \in Nat /\ x.len \in Nat /\ x.len > 0 /\ x.off + x.len <= Total
  BY DEF BlocksInside, Blocks
<1> USE <1>7
<1>8. \A x \in byOffset : x.off # b.off <=> x # b
  BY DEF Coalesced
<1>9. byOffset' = (byOffset \ {b}) \cup Rest(b, c) /\ bySize' = byOffset'
  BY <1>8
<1> USE <1>9
<1>10. \A x \in Rest(b, c) : /\ x \in Blocks /\ x.off = b.off + c /\ x.len = b.len - c
                             /\ x.len > 0 /\ x.off \in Nat /\ x.len \in Nat
  BY DEF Rest, Block, Blocks
<1> USE <1>10
<1>11. BlocksInside'
  BY DEF BlocksInside
<1>12. Coalesced'
  <2> SUFFICES ASSUME NEW x \in byOffset', NEW y \in byOffset', x # y
               PROVE  x.off + x.len < y.off \/ y.off + y.len < x.off
    BY DEF Coalesced
  <2>1. CASE x \in byOffset \ {b} /\ y \in byOffset \ {b}
    BY <2>1 DEF Coalesced
  <2>2. CASE x \in byOffset \ {b} /\ y \in Rest(b, c)
    BY <2>2 DEF Coalesced
  <2>3. CASE x \in Rest(b, c) /\ y \in byOffset \ {b}
    BY <2>3 DEF Coalesced
  <2>4. CASE x \in Rest(b, c) /\ y \in Rest(b, c)
    BY <2>4 DEF Rest
  <2> QED
    BY <2>1, <2>2, <2>3, <2>4
<1>13. /\ ext' \in [Ids -> [off : Nat, cap : Nat, refs : Nat]]
       /\ ext'[i].off = b.off /\ ext'[i].cap = c /\ ext'[i].refs = 1
       /\ \A j \in Ids : j # i => ext'[j] = ext[j]
  BY DEF ExtentsInside
<1> USE <1>13
<1>14. ExtentsInside'
  BY DEF ExtentsInside, Live
<1>15. \A j \in Ids : ext[j].off \in Nat /\ ext[j].cap \in Nat
  BY DEF ExtentsInside
<1> USE <1>15
<1>16. NoOverlap'
  <2>1. ASSUME NEW j \in Ids, j # i, Live(j)'
        PROVE  Live(j) /\ Apart(ext[j].off, ext[j].cap, b.off, b.len)
    BY <2>1 DEF NoOverlap, Live
  <2> USE <2>1
  <2>2. ASSUME NEW j \in Ids, NEW k \in Ids, j # k, Live(j)', Live(k)'
        PROVE  Apart(ext'[j].off, ext'[j].cap, ext'[k].off, ext'[k].cap)
    <3> USE <2>2
    <3>1. CASE j # i /\ k # i
      BY <3>1 DEF NoOverlap
    <3>2. CASE j = i
      BY <3>2 DEF Apart
    <3>3. CASE k = i
      BY <3>3 DEF Apart
    <3> QED
      BY <3>1, <3>2, <3>3
  <2>3. ASSUME NEW j \in Ids, NEW x \in byOffset', Live(j)'
        PROVE  Apart(ext'[j].off, ext'[j].cap, x.off, x.len)
    <3>1. CASE j = i /\ x \in byOffset \ {b}
      BY <3>1 DEF Apart, Coalesced
    <3>2. CASE j = i /\ x \in Rest(b, c)
      BY <3>2 DEF Apart
    <3>3. CASE j # i /\ x \in byOffset \ {b}
      BY <3>3, <2>3 DEF NoOverlap
    <3>4. CASE j # i /\ x \in Rest(b, c)
      BY <3>4, <2>3 DEF Apart
    <3> QED
      BY <3>1, <3>2, <3>3, <3>4
  <2> QED
    BY <2>2, <2>3 DEF NoOverlap
<1>17. Covered'
  <2> SUFFICES ASSUME NEW u \in 0 .. Total - 1
               PROVE  Owned(u)' \/ \E x \in byOffset' : Covers(x, u)
    BY DEF Covered
  <2>1. CASE Owned(u)
    BY <2>1, <1>6 DEF Owned, Holds, Live
  <2>2. CASE \E x \in byOffset \ {b} : Covers(x, u)
    BY <2>2
  <2>3. CASE Covers(b, u)
    <3> USE <2>3
    <3>1. CASE u < b.off + c
      BY <3>1 DEF Owned, Holds, Live, Covers
    <3>2. CASE ~(u < b.off + c)
      <4>1. Block(b.off + c, b.len - c) \in Rest(b, c)
        BY <3>2 DEF Rest, Covers
      <4>2. Covers(Block(b.off + c, b.len - c), u)
        BY <3>2 DEF Covers, Block
      <4> QED
        BY <4>1, <4>2
    <3> QED
      BY <3>1, <3>2
  <2> QED
    BY <2>1, <2>2, <2>3 DEF Covered
<1> QED
  BY <1>11, <1>12, <1>14, <1>16, <1>17 DEF SlabInv, Mirrored

(* Because free blocks never touch, the last block below o is the one that   *)
(* ends at o whenever there is one: FreeList::free finds every left          *)
(* neighbour by looking at that block alone.                                 *)
LEMMA LeftEnds ==
    ASSUME SlabInv, NEW o \in Nat
    PROVE  Left(o) = {b \in byOffset : b.off + b.len = o}
<1>1. \A x \in byOffset : x.off \in Nat /\ x.len \in Nat /\ x.len > 0
  BY DEF SlabInv, BlocksInside, Blocks
<1>2. ASSUME NEW b \in byOffset, b.off + b.len = o
      PROVE  b \in Left(o)
  <2>1. \A x \in byOffset : x.off < o => x.off <= b.off
    BY <1>1, <1>2 DEF SlabInv, Coalesced
  <2> QED
    BY <1>1, <1>2, <2>1 DEF Left
<1> QED
  BY <1>2 DEF Left

(* FreeList::free merges the bytes of a live extent with both neighbours:    *)
(* the block it inserts touches no other, and nothing but the extent's bytes *)
(* becomes free.                                                             *)
LEMMA FreeMerges ==
    ASSUME SlabInv, NEW i \in Ids, Live(i), Free(i)
    PROVE  \E m \in Blocks, gone \in SUBSET byOffset :
              /\ byOffset' = (byOffset \ gone) \cup {m}
              /\ bySize' = byOffset'
              /\ m.off + m.len <= Total
              /\ \A x \in byOffset \ gone : x.off + x.len < m.off \/ m.off + m.len < x.off
              /\ \A x \in gone : m.off <= x.off /\ x.off + x.len <= m.off + m.len
              /\ m.off <= ext[i].off /\ ext[i].off + ext[i].cap <= m.off + m.len
              /\ \A u \in Nat : Covers(m, u) =>
                    \/ ext[i].off <= u /\ u < ext[i].off + ext[i].cap
                    \/ \E x \in gone : Covers(x, u)
<1> DEFINE o == ext[i].off
           e == ext[i].off + ext[i].cap
           start == IF Left(o) = {} THEN o ELSE (CHOOSE b \in Left(o) : TRUE).off
           end == IF Right(e) = {} THEN e ELSE e + (CHOOSE b \in Right(e) : TRUE).len
           m == Block(start, end - start)
           gone == Left(o) \cup Right(e)
<1> USE SlabAssumption
<1>1. /\ o \in Nat /\ e \in Nat /\ o < e /\ e <= Total
      /\ \A x \in byOffset : e <= x.off \/ x.off + x.len <= o
  BY DEF SlabInv, ExtentsInside, NoOverlap, Apart
<1> USE <1>1
<1>2. \A x \in byOffset : x.off \in Nat /\ x.len \in Nat /\ x.len > 0 /\ x.off + x.len <= Total
  BY DEF SlabInv, BlocksInside, Blocks
<1> USE <1>2
<1>3. \A x, y \in byOffset : x # y => x.off + x.len < y.off \/ y.off + y.len < x.off
  BY DEF SlabInv, Coalesced
<1> USE <1>3
<1>4. Left(o) = {b \in byOffset : b.off + b.len = o}
  BY LeftEnds
<1> USE <1>4
<1>5. Right(e) = {b \in byOffset : b.off = e}
  BY SMTT(40) DEF Right
<1> USE <1>5
<1>6. /\ byOffset' = {x \in byOffset \ gone : x.off # m.off} \cup {m}
      /\ bySize' = (bySize \ gone) \cup {m}
  BY DEF Free, InsertBlock
<1> HIDE DEF o, e
<1>7. \/ Left(o) = {} /\ start = o
      \/ \E l \in byOffset : Left(o) = {l} /\ start = l.off /\ l.off + l.len = o
  <2>1. CASE Left(o) = {}
    BY <2>1
  <2>2. CASE Left(o) # {}
    <3>1. PICK l \in Left(o) : l = CHOOSE b \in Left(o) : TRUE
      BY <2>2
    <3>2. l \in byOffset /\ l.off + l.len = o
      OBVIOUS
    <3>3. Left(o) = {l}
      BY <3>2
    <3> QED
      BY Zenon, <2>2, <3>1, <3>2, <3>3
  <2> QED
    BY <2>1, <2>2
<1> USE <1>7
<1>8. \/ Right(e) = {} /\ end = e
      \/ \E r \in byOffset : Right(e) = {r} /\ end = e + r.len /\ r.off = e
  <2>1. CASE Right(e) = {}
    BY <2>1
  <2>2. CASE Right(e) # {}
    <3>1. PICK r \in Right(e) : r = CHOOSE b \in Right(e) : TRUE
      BY <2>2
    <3>2. r \in byOffset /\ r.off = e
      OBVIOUS
    <3>3. Right(e) = {r}
      BY <3>2
    <3> QED
      BY Zenon, <2>2, <3>1, <3>2, <3>3
  <2> QED
    BY <2>1, <2>2
<1> USE <1>8
<1> HIDE DEF start, end
<1>9. start \in Nat /\ end \in Nat /\ start <= o /\ e <= end /\ end <= Total
  OBVIOUS
<1> USE <1>9
<1>10. m \in Blocks /\ m.off = start /\ m.len = end - start /\ m.off + m.len = end
  BY DEF Block, Blocks
<1> USE <1>10
<1> HIDE DEF m
<1>11. \A x \in byOffset \ gone : x.off + x.len < start \/ end < x.off
  <2> SUFFICES ASSUME NEW x \in byOffset, x \notin gone
               PROVE  x.off + x.len < start \/ end < x.off
    OBVIOUS
  <2>1. x.off + x.len < o \/ e < x.off
    OBVIOUS
  <2>2. CASE x.off + x.len < o
    BY <2>2
  <2>3. CASE e < x.off
    BY <2>3
  <2> QED
    BY <2>1, <2>2, <2>3
<1>12. \A x \in gone : start <= x.off /\ x.off + x.len <= end
  OBVIOUS
<1>13. ASSUME NEW u \in Nat, Covers(m, u)
       PROVE  (o <= u /\ u < e) \/ (\E x \in gone : Covers(x, u))
  <2>1. start <= u /\ u < end
    BY <1>13 DEF Covers
  <2>2. CASE u < o
    BY <2>1, <2>2 DEF Covers
  <2>3. CASE e <= u
    BY <2>1, <2>3 DEF Covers
  <2> QED
    BY <2>2, <2>3
<1>14. \A x \in byOffset \ gone : x.off # m.off
  BY <1>11
<1>15. bySize = byOffset
  BY DEF SlabInv, Mirrored
<1>16. byOffset' = (byOffset \ gone) \cup {m} /\ bySize' = byOffset'
  BY <1>6, <1>14, <1>15
<1>17. gone \in SUBSET byOffset
  OBVIOUS
<1> HIDE DEF gone
<1>18. \A x \in byOffset \ gone : x.off + x.len < m.off \/ m.off + m.len < x.off
  BY <1>11
<1>19. \A x \in gone : m.off <= x.off /\ x.off + x.len <= m.off + m.len
  BY <1>12
<1>20. m.off <= o /\ e <= m.off + m.len /\ m.off + m.len <= Total
  OBVIOUS
<1> QED
  BY <1>13, <1>16, <1>17, <1>18, <1>19, <1>20 DEF o, e

(* The last drop of an extent returns its bytes; nobody else's are touched. *)
LEMMA LastDropSlab ==
    ASSUME SlabInv, NEW i \in Ids, ext[i].refs = 1, Drop(i)
    PROVE  SlabInv'
<1> USE SlabAssumption
<1>1. Live(i) /\ Free(i) /\ ext' = [ext EXCEPT ![i] = [off |-> 0, cap |-> 0, refs |-> 0]]
  BY DEF Drop, Live, NoExtent
<1> USE <1>1
<1>2. PICK m \in Blocks, gone \in SUBSET byOffset :
        /\ byOffset' = (byOffset \ gone) \cup {m}
        /\ bySize' = byOffset'
        /\ m.off + m.len <= Total
        /\ \A x \in byOffset \ gone : x.off + x.len < m.off \/ m.off + m.len < x.off
        /\ \A x \in gone : m.off <= x.off /\ x.off + x.len <= m.off + m.len
        /\ m.off <= ext[i].off /\ ext[i].off + ext[i].cap <= m.off + m.len
        /\ \A u \in Nat : Covers(m, u) =>
              \/ ext[i].off <= u /\ u < ext[i].off + ext[i].cap
              \/ \E x \in gone : Covers(x, u)
  BY FreeMerges
<1> USE <1>2
<1>3. BlocksInside /\ ExtentsInside /\ Coalesced /\ NoOverlap /\ Covered
  BY DEF SlabInv
<1> USE <1>3
<1>4. m.off \in Nat /\ m.len \in Nat /\ m.len > 0
  BY DEF Blocks
<1> USE <1>4
<1>5. \A x \in byOffset : x.off \in Nat /\ x.len \in Nat /\ x.len > 0
  BY DEF BlocksInside, Blocks
<1>6. /\ ext' \in [Ids -> [off : Nat, cap : Nat, refs : Nat]]
      /\ ~(ext'[i].refs > 0)
      /\ \A j \in Ids : j # i => ext'[j] = ext[j]
  BY DEF ExtentsInside
<1> USE <1>6
<1>7. \A j \in Ids : ext[j].off \in Nat /\ ext[j].cap \in Nat /\ (Live(j) => ext[j].cap > 0)
  BY DEF ExtentsInside
<1> USE <1>7
<1>8. BlocksInside'
  BY DEF BlocksInside
<1>9. ExtentsInside'
  BY DEF ExtentsInside, Live
<1>10. Coalesced'
  BY DEF Coalesced
<1>11. ASSUME NEW j \in Ids, j # i, Live(j)
       PROVE  Apart(ext[j].off, ext[j].cap, m.off, m.len)
  <2> USE <1>11
  <2>1. CASE Apart(ext[j].off, ext[j].cap, m.off, m.len)
    BY <2>1
  <2>2. CASE ~Apart(ext[j].off, ext[j].cap, m.off, m.len)
    <3>1. PICK u \in Nat : Covers(m, u) /\ ext[j].off <= u /\ u < ext[j].off + ext[j].cap
      <4>1. CASE m.off <= ext[j].off
        <5>1. Covers(m, ext[j].off) /\ ext[j].off < ext[j].off + ext[j].cap
          BY <2>2, <4>1 DEF Apart, Covers
        <5> QED
          BY <5>1
      <4>2. CASE ext[j].off < m.off
        <5>1. Covers(m, m.off) /\ m.off < ext[j].off + ext[j].cap
          BY <2>2, <4>2 DEF Apart, Covers
        <5> QED
          BY <5>1, <4>2
      <4> QED
        BY <4>1, <4>2
    <3> USE <3>1
    <3>2. ~(ext[i].off <= u /\ u < ext[i].off + ext[i].cap)
      BY DEF NoOverlap, Apart
    <3>3. PICK x \in gone : Covers(x, u)
      BY <3>2
    <3>4. Apart(ext[j].off, ext[j].cap, x.off, x.len)
      BY DEF NoOverlap
    <3> QED
      BY <3>3, <3>4, <1>5 DEF Apart, Covers
  <2> QED
    BY <2>1, <2>2
<1>12. NoOverlap'
  <2>1. ASSUME NEW j \in Ids, NEW k \in Ids, j # k, Live(j)', Live(k)'
        PROVE  Apart(ext'[j].off, ext'[j].cap, ext'[k].off, ext'[k].cap)
    BY <2>1 DEF NoOverlap, Live
  <2>2. ASSUME NEW j \in Ids, NEW x \in byOffset', Live(j)'
        PROVE  Apart(ext'[j].off, ext'[j].cap, x.off, x.len)
    <3>1. j # i /\ Live(j) /\ ext'[j] = ext[j]
      BY <2>2 DEF Live
    <3>2. CASE x \in byOffset
      BY <3>1, <3>2 DEF NoOverlap
    <3>3. CASE x = m
      BY <3>1, <3>3, <1>11
    <3> QED
      BY <3>2, <3>3
  <2> QED
    BY <2>1, <2>2 DEF NoOverlap
<1>13. Covered'
  <2> SUFFICES ASSUME NEW u \in 0 .. Total - 1
               PROVE  Owned(u)' \/ \E x \in byOffset' : Covers(x, u)
    BY DEF Covered
  <2>1. m \in byOffset'
    OBVIOUS
  <2>2. CASE ext[i].off <= u /\ u < ext[i].off + ext[i].cap
    <3>1. Covers(m, u)
      BY <2>2 DEF Covers
    <3> QED
      BY <3>1, <2>1
  <2>3. CASE \E j \in Ids : j # i /\ Live(j) /\ ext[j].off <= u /\ u < ext[j].off + ext[j].cap
    BY <2>3 DEF Owned, Holds, Live
  <2>4. CASE \E x \in gone : Covers(x, u)
    <3>1. Covers(m, u)
      BY <2>4, <1>5 DEF Covers
    <3> QED
      BY <3>1, <2>1
  <2>5. CASE \E x \in byOffset \ gone : Covers(x, u)
    BY <2>5
  <2> QED
    BY <2>2, <2>3, <2>4, <2>5 DEF Covered, Owned, Holds
<1> QED
  BY <1>8, <1>9, <1>10, <1>12, <1>13 DEF SlabInv, Mirrored

(* Cloning or dropping a reference that is not the last changes no byte. *)
LEMMA ReferenceSlab ==
    ASSUME SlabInv, NEW i \in Ids, Clone(i) \/ (Drop(i) /\ ext[i].refs # 1)
    PROVE  SlabInv'
<1> USE SlabAssumption
<1>1. byOffset' = byOffset /\ bySize' = bySize
  BY DEF Clone, Drop, Kept
<1> USE <1>1
<1>2. ext \in [Ids -> [off : Nat, cap : Nat, refs : Nat]]
  BY DEF SlabInv, ExtentsInside
<1> USE <1>2
<1>3. PICK n \in Nat : n > 0 /\ ext' = [ext EXCEPT ![i].refs = n]
  <2>1. CASE Clone(i)
    <3>1. ext[i].refs + 1 \in Nat /\ ext[i].refs + 1 > 0
      OBVIOUS
    <3> QED
      BY Zenon, <2>1, <3>1 DEF Clone
  <2>2. CASE Drop(i) /\ ext[i].refs # 1
    <3>1. ext[i].refs - 1 \in Nat /\ ext[i].refs - 1 > 0
      BY <2>2 DEF Drop
    <3> QED
      BY Zenon, <2>2, <3>1 DEF Drop
  <2> QED
    BY <2>1, <2>2
<1>4. Live(i)
  BY SlabAssumption DEF Clone, Drop, Live
<1>5. /\ ext' \in [Ids -> [off : Nat, cap : Nat, refs : Nat]]
      /\ \A j \in Ids : ext'[j].off = ext[j].off /\ ext'[j].cap = ext[j].cap
      /\ \A j \in Ids : Live(j)' <=> Live(j)
  BY <1>3, <1>4 DEF Live
<1>6. ExtentsInside' /\ NoOverlap'
  BY <1>5 DEF SlabInv, ExtentsInside, NoOverlap
<1>7. Covered'
  BY SMTT(40), <1>5 DEF SlabInv, Covered, Owned, Holds
<1> QED
  BY <1>6, <1>7 DEF SlabInv, Mirrored, BlocksInside, Coalesced

(* SlabInv is an invariant of the allocator. *)
THEOREM SlabSound == Spec => []SlabInv
<1>1. SlabInv /\ [Next]_vars => SlabInv'
  <2> SUFFICES ASSUME SlabInv, [Next]_vars PROVE SlabInv'
    OBVIOUS
  <2>1. CASE Next
    BY <2>1, AllocSlab, LastDropSlab, ReferenceSlab DEF Next
  <2>2. CASE UNCHANGED vars
    BY <2>2 DEF vars, SlabInv, Mirrored, BlocksInside, ExtentsInside, Coalesced, NoOverlap,
                Covered, Owned, Holds, Live
  <2> QED
    BY <2>1, <2>2
<1> QED
  BY <1>1, InitSlab, PTL DEF Spec

(* No byte of the slab is in two live extents, or in a live extent and on    *)
(* the free list, whatever the sizes asked for and the order of the drops.   *)
THEOREM ExtentsDisjoint == Spec => []NoOverlap
<1>1. SlabInv => NoOverlap
  BY DEF SlabInv
<1> QED
  BY <1>1, SlabSound, PTL

(* RdmaSlab::alloc returns None only when no run of unowned bytes is long    *)
(* enough: the free block over the first byte of a run reaches its end, for  *)
(* the block over the next byte would otherwise touch it.                    *)
THEOREM AllocFailsOnlyWhenFull == Spec => []AllocComplete
<1>1. SlabInv => AllocComplete
  <2> SUFFICES ASSUME SlabInv, NEW o \in 0 .. Total - 1, NEW c \in 1 .. Total - o,
                      \A u \in o .. o + c - 1 : ~Owned(u)
               PROVE  \E b \in bySize : b.len >= c
    BY DEF AllocComplete
  <2> USE SlabAssumption
  <2>1. \A u \in o .. o + c - 1 : \E b \in byOffset : Covers(b, u)
    BY DEF SlabInv, Covered
  <2>2. \A x \in byOffset : x.off \in Nat /\ x.len \in Nat /\ x.len > 0
    BY DEF SlabInv, BlocksInside, Blocks
  <2>3. PICK b \in byOffset : Covers(b, o)
    BY <2>1
  <2>4. b.off + b.len >= o + c
    <3> SUFFICES ASSUME b.off + b.len < o + c PROVE FALSE
      BY <2>2
    <3>1. b.off + b.len \in o .. o + c - 1
      BY <2>2, <2>3 DEF Covers
    <3>2. PICK d \in byOffset : Covers(d, b.off + b.len)
      BY <3>1, <2>1
    <3> QED
      BY <3>2, <2>2 DEF Covers, SlabInv, Coalesced
  <2> QED
    BY <2>2, <2>3, <2>4 DEF Covers, SlabInv, Mirrored
<1> QED
  BY <1>1, SlabSound, PTL

-----------------------------------------------------------------------------
(* What an operation does to the bytes. *)

OwnedBytes == {u \in 0 .. Total - 1 : Owned(u)}

(* The bytes of an extent are its own. *)
LEMMA HeldOnce ==
    ASSUME SlabInv, NEW u \in Nat, NEW i \in Ids, Holds(i, u)
    PROVE  \A j \in Ids : Holds(j, u) => j = i
BY DEF SlabInv, ExtentsInside, NoOverlap, Apart, Holds

(* An allocation gets a run of unowned bytes. *)
LEMMA AllocBytes ==
    ASSUME SlabInv, NEW i \in Ids, NEW s \in Sizes, Alloc(i, s)
    PROVE  \E o \in 0 .. Total - 1 : \E c \in 1 .. Total - o :
              /\ c = RoundUp(s)
              /\ ext' = [ext EXCEPT ![i] = [off |-> o, cap |-> c, refs |-> 1]]
              /\ \A u \in o .. o + c - 1 : ~Owned(u)
              /\ \A u \in Nat, j \in Ids :
                    Holds(j, u)' <=> IF j = i THEN u \in o .. o + c - 1 ELSE Holds(j, u)
<1> DEFINE c == RoundUp(s)
<1> USE SlabAssumption
<1>1. c \in Nat \ {0} /\ ~Live(i) /\ ext \in [Ids -> [off : Nat, cap : Nat, refs : Nat]]
  BY RoundUpType DEF Alloc, Live, SlabInv, ExtentsInside
<1> USE <1>1
<1>2. PICK b \in bySize : BestFit(b, c) /\ ext' = [ext EXCEPT ![i] = [off |-> b.off, cap |-> c, refs |-> 1]]
  BY Zenon DEF Alloc
<1> USE <1>2
<1>3. b \in byOffset /\ b.off \in Nat /\ b.len \in Nat /\ b.len >= c /\ b.off + b.len <= Total
  BY DEF SlabInv, Mirrored, BlocksInside, Blocks, BestFit
<1> USE <1>3
<1>4. \A u \in b.off .. b.off + c - 1, j \in Ids : ~Holds(j, u)
  BY DEF SlabInv, NoOverlap, Apart, Holds
<1>5. c = RoundUp(s)
  OBVIOUS
<1> HIDE DEF c
<1>6. /\ ext'[i].off = b.off /\ ext'[i].cap = c /\ ext'[i].refs = 1
      /\ \A j \in Ids : j # i => ext'[j] = ext[j]
  OBVIOUS
<1>7. \A u \in Nat, j \in Ids :
         Holds(j, u)' <=> IF j = i THEN u \in b.off .. b.off + c - 1 ELSE Holds(j, u)
  BY <1>6 DEF Holds, Live
<1>8. b.off \in 0 .. Total - 1 /\ c \in 1 .. Total - b.off
  OBVIOUS
<1> QED
  BY Zenon, <1>4, <1>5, <1>7, <1>8 DEF Owned

(* The last drop gives up the bytes of its extent and no others. *)
LEMMA LastDropBytes ==
    ASSUME SlabInv, NEW i \in Ids, ext[i].refs = 1, Drop(i)
    PROVE  /\ ext' = [ext EXCEPT ![i] = NoExtent]
           /\ \A u \in Nat, j \in Ids : Holds(j, u)' <=> (j # i /\ Holds(j, u))
<1>1. ext \in [Ids -> [off : Nat, cap : Nat, refs : Nat]] /\ ext' = [ext EXCEPT ![i] = NoExtent]
  BY DEF SlabInv, ExtentsInside, Drop
<1>2. ext'[i].refs = 0 /\ \A j \in Ids : j # i => ext'[j] = ext[j]
  BY <1>1 DEF NoExtent
<1> QED
  BY <1>1, <1>2 DEF Holds, Live

(* Another reference, or one fewer, moves no byte. *)
LEMMA ReferenceBytes ==
    ASSUME SlabInv, NEW i \in Ids, Clone(i) \/ (Drop(i) /\ ext[i].refs # 1)
    PROVE  /\ ext[i].refs > 0
           /\ \E n \in Nat \ {0} : /\ n = IF Clone(i) THEN ext[i].refs + 1 ELSE ext[i].refs - 1
                                   /\ ext' = [ext EXCEPT ![i].refs = n]
           /\ \A u \in Nat, j \in Ids : Holds(j, u)' <=> Holds(j, u)
           /\ UNCHANGED <<bytesFree, bytesUsed, highWatermark>>
<1>1. ext \in [Ids -> [off : Nat, cap : Nat, refs : Nat]]
  BY DEF SlabInv, ExtentsInside
<1> USE <1>1
<1>2. ext[i].refs > 0 /\ UNCHANGED <<bytesFree, bytesUsed, highWatermark>>
  BY SlabAssumption DEF Clone, Drop, Kept
<1> USE <1>2
<1>3. ext[i].refs \in Nat /\ (~Clone(i) => ext[i].refs > 1)
  OBVIOUS
<1>4. PICK n \in Nat \ {0} : /\ n = IF Clone(i) THEN ext[i].refs + 1 ELSE ext[i].refs - 1
                             /\ ext' = [ext EXCEPT ![i].refs = n]
  <2>1. CASE Clone(i)
    <3>1. ext[i].refs + 1 \in Nat \ {0} /\ ext' = [ext EXCEPT ![i].refs = ext[i].refs + 1]
      BY <2>1, <1>3 DEF Clone
    <3> QED
      BY Zenon, <2>1, <3>1
  <2>2. CASE ~Clone(i)
    <3> USE <2>2
    <3>1. ext[i].refs - 1 \in Nat \ {0}
      BY <1>3
    <3>2. ext' = [ext EXCEPT ![i].refs = ext[i].refs - 1]
      BY DEF Drop
    <3> QED
      BY Zenon, <3>1, <3>2
  <2> QED
    BY <2>1, <2>2
<1>5. \A j \in Ids : /\ ext'[j].off = ext[j].off /\ ext'[j].cap = ext[j].cap
                     /\ ext'[j].refs > 0 <=> ext[j].refs > 0
  BY <1>4
<1>6. \A u \in Nat, j \in Ids : Holds(j, u)' <=> Holds(j, u)
  BY <1>5 DEF Holds, Live
<1> QED
  BY Zenon, <1>4, <1>6

(* The counters follow the bytes. *)
AccountInv ==
    /\ bytesFree \in Int /\ bytesUsed \in Int /\ highWatermark \in 0 .. Total
    /\ Accounted
    /\ \A i \in Ids : ext[i].refs <= MaxRefs

LEMMA OwnedFinite ==
    IsFiniteSet(OwnedBytes) /\ Cardinality(OwnedBytes) \in 0 .. Total
<1>1. IsFiniteSet(0 .. Total - 1) /\ Cardinality(0 .. Total - 1) = Total
  BY FS_Interval, SlabAssumption
<1>2. OwnedBytes \in SUBSET (0 .. Total - 1)
  BY DEF OwnedBytes
<1>3. IsFiniteSet(OwnedBytes) /\ Cardinality(OwnedBytes) <= Total
  BY Zenon, <1>1, <1>2, FS_Subset
<1>4. Cardinality(OwnedBytes) \in Nat
  BY <1>3, FS_CardinalityType
<1> QED
  BY <1>3, <1>4, SlabAssumption

LEMMA InitAccount == Init => AccountInv
<1> SUFFICES ASSUME Init PROVE AccountInv
  OBVIOUS
<1>1. {u \in 0 .. Total - 1 : Owned(u)} = {}
  BY DEF Init, Owned, Holds, Live, NoExtent
<1>2. \A i \in Ids : ext[i].refs = 0
  BY DEF Init, NoExtent
<1> QED
  BY <1>1, <1>2, FS_EmptySet, SlabAssumption DEF Init, AccountInv, Accounted

LEMMA AllocAccount ==
    ASSUME SlabInv, AccountInv, NEW i \in Ids, NEW s \in Sizes, Alloc(i, s)
    PROVE  AccountInv'
<1> USE SlabAssumption
<1>0. PICK o \in 0 .. Total - 1 : \E c \in 1 .. Total - o :
         /\ c = RoundUp(s)
         /\ ext' = [ext EXCEPT ![i] = [off |-> o, cap |-> c, refs |-> 1]]
         /\ \A u \in o .. o + c - 1 : ~Owned(u)
         /\ \A u \in Nat, j \in Ids :
               Holds(j, u)' <=> IF j = i THEN u \in o .. o + c - 1 ELSE Holds(j, u)
  BY Zenon, AllocBytes
<1>1. PICK c \in 1 .. Total - o :
         /\ c = RoundUp(s)
         /\ ext' = [ext EXCEPT ![i] = [off |-> o, cap |-> c, refs |-> 1]]
         /\ \A u \in o .. o + c - 1 : ~Owned(u)
         /\ \A u \in Nat, j \in Ids :
               Holds(j, u)' <=> IF j = i THEN u \in o .. o + c - 1 ELSE Holds(j, u)
  BY Zenon, <1>0
<1>2. ~Live(i)
  BY DEF Alloc, Live, SlabInv, ExtentsInside
<1>3. \A u \in 0 .. Total - 1 : Owned(u)' <=> Owned(u) \/ u \in o .. o + c - 1
  BY <1>1, <1>2 DEF Owned, Holds
<1>4. OwnedBytes' = OwnedBytes \cup (o .. o + c - 1)
  BY <1>3 DEF OwnedBytes
<1>5. OwnedBytes \cap (o .. o + c - 1) = {}
  BY <1>1 DEF OwnedBytes
<1>6. IsFiniteSet(o .. o + c - 1) /\ Cardinality(o .. o + c - 1) = c
  BY FS_Interval
<1>7. Cardinality(OwnedBytes') = Cardinality(OwnedBytes) + c
  <2>1. Cardinality(OwnedBytes') =
           Cardinality(OwnedBytes) + Cardinality(o .. o + c - 1)
               - Cardinality(OwnedBytes \cap (o .. o + c - 1))
    BY <1>4, <1>6, FS_Union, OwnedFinite
  <2>2. Cardinality(OwnedBytes \cap (o .. o + c - 1)) = 0
    BY <1>5, FS_EmptySet
  <2>3. Cardinality(OwnedBytes) \in Int /\ c \in Int
    BY OwnedFinite
  <2> QED
    BY <1>6, <2>1, <2>2, <2>3
<1>8. Cardinality(OwnedBytes') <= Total
  <2>1. OwnedBytes' \in SUBSET (0 .. Total - 1)
    BY DEF OwnedBytes
  <2>2. IsFiniteSet(0 .. Total - 1) /\ Cardinality(0 .. Total - 1) = Total
    BY FS_Interval
  <2> QED
    BY Zenon, <2>1, <2>2, FS_Subset
<1>9. /\ bytesUsed = Cardinality(OwnedBytes) /\ bytesUsed' = bytesUsed + c
      /\ bytesFree' = bytesFree - c /\ bytesFree + bytesUsed = Total
      /\ bytesUsed \in Int /\ bytesFree \in Int /\ highWatermark \in 0 .. Total
      /\ highWatermark' \in {bytesUsed + c, highWatermark}
  BY <1>1 DEF AccountInv, Accounted, OwnedBytes, Alloc
<1>10. bytesUsed' = Cardinality(OwnedBytes') /\ bytesUsed + c <= Total
  BY <1>7, <1>8, <1>9
<1>11. bytesUsed \in 0 .. Total
  BY <1>9, OwnedFinite
<1>12. /\ bytesFree' \in Int /\ bytesUsed' \in Int /\ highWatermark' \in 0 .. Total
       /\ bytesFree' + bytesUsed' = Total
  BY <1>9, <1>10, <1>11
<1>13. \A j \in Ids : ext'[j].refs <= MaxRefs
  BY <1>1 DEF AccountInv, SlabInv, ExtentsInside
<1> QED
  BY <1>10, <1>12, <1>13 DEF AccountInv, Accounted, OwnedBytes

LEMMA LastDropAccount ==
    ASSUME SlabInv, AccountInv, NEW i \in Ids, ext[i].refs = 1, Drop(i)
    PROVE  AccountInv'
<1> USE SlabAssumption
<1> DEFINE own == ext[i].off .. ext[i].off + ext[i].cap - 1
<1>1. /\ ext' = [ext EXCEPT ![i] = NoExtent]
      /\ \A u \in Nat, j \in Ids : Holds(j, u)' <=> (j # i /\ Holds(j, u))
  BY LastDropBytes
<1>2. /\ ext[i].off \in Nat /\ ext[i].cap \in Nat /\ ext[i].cap > 0 /\ Live(i)
      /\ ext[i].off + ext[i].cap <= Total
  BY DEF SlabInv, ExtentsInside, Live
<1>3. \A u \in Nat : u \in own <=> Holds(i, u)
  BY <1>2 DEF Holds
<1>4. own \in SUBSET OwnedBytes
  BY <1>2, <1>3 DEF OwnedBytes, Owned
<1>5. \A u \in 0 .. Total - 1 : Owned(u)' <=> Owned(u) /\ u \notin own
  <2> SUFFICES ASSUME NEW u \in 0 .. Total - 1 PROVE Owned(u)' <=> Owned(u) /\ u \notin own
    OBVIOUS
  <2>1. u \in Nat
    OBVIOUS
  <2>2. CASE u \in own
    BY <2>1, <2>2, <1>1, <1>3, HeldOnce DEF Owned
  <2>3. CASE u \notin own
    BY <2>1, <2>3, <1>1, <1>3 DEF Owned
  <2> QED
    BY <2>2, <2>3
<1>6. OwnedBytes = OwnedBytes' \cup own /\ OwnedBytes' \cap own = {}
  BY <1>4, <1>5 DEF OwnedBytes
<1>7. IsFiniteSet(own) /\ Cardinality(own) = ext[i].cap
  <2>1. \A a, n \in Nat : n > 0 =>
           IsFiniteSet(a .. a + n - 1) /\ Cardinality(a .. a + n - 1) = n
    BY FS_Interval
  <2> QED
    BY Zenon, <1>2, <2>1
<1> HIDE DEF own
<1>8. IsFiniteSet(OwnedBytes') /\ Cardinality(OwnedBytes') \in Nat
  <2>1. OwnedBytes' \in SUBSET OwnedBytes
    BY <1>6
  <2> QED
    BY <2>1, OwnedFinite, FS_Subset, FS_CardinalityType
<1>9. Cardinality(OwnedBytes) = Cardinality(OwnedBytes') + ext[i].cap
  <2>1. Cardinality(OwnedBytes) = Cardinality(OwnedBytes') + Cardinality(own)
                                      - Cardinality(OwnedBytes' \cap own)
    BY <1>6, <1>7, <1>8, FS_Union
  <2> QED
    BY <1>2, <1>6, <1>7, <1>8, <2>1, FS_EmptySet
<1>10. /\ bytesUsed = Cardinality(OwnedBytes) /\ bytesUsed' = bytesUsed - ext[i].cap
       /\ bytesFree' = bytesFree + ext[i].cap /\ bytesFree + bytesUsed = Total
       /\ bytesUsed \in Int /\ bytesFree \in Int /\ highWatermark' = highWatermark
  BY DEF AccountInv, Accounted, OwnedBytes, Drop, Free
<1>11. bytesUsed' = Cardinality(OwnedBytes')
  BY <1>2, <1>8, <1>9, <1>10
<1>12. bytesFree' \in Int /\ bytesUsed' \in Int /\ bytesFree' + bytesUsed' = Total
  BY <1>2, <1>10
<1>13. \A j \in Ids : ext'[j].refs <= MaxRefs
  BY <1>1 DEF AccountInv, SlabInv, ExtentsInside, NoExtent
<1> QED
  BY <1>10, <1>11, <1>12, <1>13 DEF AccountInv, Accounted, OwnedBytes

LEMMA ReferenceAccount ==
    ASSUME SlabInv, AccountInv, NEW i \in Ids, Clone(i) \/ (Drop(i) /\ ext[i].refs # 1)
    PROVE  AccountInv'
<1>1. PICK n \in Nat \ {0} : /\ n = IF Clone(i) THEN ext[i].refs + 1 ELSE ext[i].refs - 1
                             /\ ext' = [ext EXCEPT ![i].refs = n]
  BY ReferenceBytes
<1>2. /\ \A u \in Nat, j \in Ids : Holds(j, u)' <=> Holds(j, u)
      /\ UNCHANGED <<bytesFree, bytesUsed, highWatermark>>
  BY ReferenceBytes
<1>3. \A u \in 0 .. Total - 1 : Owned(u)' <=> Owned(u)
  BY <1>2 DEF Owned
<1>4. {u \in 0 .. Total - 1 : Owned(u)}' = {u \in 0 .. Total - 1 : Owned(u)}
  BY <1>3
<1>5. /\ ext \in [Ids -> [off : Nat, cap : Nat, refs : Nat]]
      /\ \A j \in Ids : ext[j].refs <= MaxRefs
  BY DEF SlabInv, ExtentsInside, AccountInv
<1>6. n <= MaxRefs
  BY <1>1, <1>5, SlabAssumption DEF Clone
<1>7. \A j \in Ids : ext'[j].refs <= MaxRefs
  BY <1>1, <1>5, <1>6
<1> QED
  BY <1>2, <1>4, <1>7 DEF AccountInv, Accounted

LEMMA AccountStep == SlabInv /\ AccountInv /\ [Next]_vars => AccountInv'
<1> SUFFICES ASSUME SlabInv, AccountInv, [Next]_vars PROVE AccountInv'
  OBVIOUS
<1>1. CASE Next
  BY <1>1, AllocAccount, LastDropAccount, ReferenceAccount DEF Next
<1>2. CASE UNCHANGED vars
  BY <1>2 DEF vars, AccountInv, Accounted, Owned, Holds, Live
<1> QED
  BY <1>1, <1>2

(* bytes_used is the number of bytes in live extents and bytes_free the      *)
(* rest, after any sequence of splits, merges and drops.                     *)
THEOREM CountersAgree == Spec => []Accounted
<1>1. AccountInv => Accounted
  BY DEF AccountInv
<1> QED
  BY <1>1, InitSlab, SlabSound, InitAccount, AccountStep, PTL DEF Spec

(* Every variable has its type: no subtraction of sizes goes below zero, no  *)
(* block or extent reaches past the region.                                  *)
THEOREM SlabTypes == Spec => []TypeOK
<1>1. SlabInv /\ AccountInv => TypeOK
  <2> SUFFICES ASSUME SlabInv, AccountInv PROVE TypeOK
    OBVIOUS
  <2>1. \A b \in byOffset \cup bySize : b \in [off : Nat, len : Nat \ {0}] /\ b.off + b.len <= Total
    BY DEF SlabInv, Mirrored, BlocksInside, Blocks
  <2>2. ext \in [Ids -> [off : Nat, cap : Nat, refs : 0 .. MaxRefs]]
    BY SlabAssumption DEF SlabInv, ExtentsInside, AccountInv
  <2>3. bytesUsed \in 0 .. Total
    BY OwnedFinite DEF AccountInv, Accounted, OwnedBytes
  <2>4. bytesFree \in 0 .. Total
    BY <2>3, SlabAssumption DEF AccountInv, Accounted
  <2> QED
    BY <2>1, <2>2, <2>3, <2>4 DEF AccountInv, TypeOK
<1> QED
  BY <1>1, SlabSound, InitAccount, AccountStep, PTL DEF Spec

-----------------------------------------------------------------------------
(* The allocator implements SlabMemory. *)

(* A byte's owner is the extent that holds it. *)
OwnersKnown ==
    \A u \in 0 .. Total - 1 : /\ \A i \in Ids : Holds(i, u) <=> OwnerOf(u) = i
                              /\ ~Owned(u) => OwnerOf(u) = "free"
LEMMA OwnerHolds == SlabInv => OwnersKnown
<1> SUFFICES ASSUME SlabInv, NEW u \in 0 .. Total - 1
             PROVE  /\ \A i \in Ids : Holds(i, u) <=> OwnerOf(u) = i
                    /\ ~Owned(u) => OwnerOf(u) = "free"
  BY DEF OwnersKnown
<1>1. CASE ~Owned(u)
  BY <1>1, SlabAssumption DEF OwnerOf, Owned
<1>2. CASE Owned(u)
  <2> USE <1>2
  <2>1. PICK k \in Ids : Holds(k, u)
    BY DEF Owned
  <2> USE <2>1
  <2>2. u \in Nat
    OBVIOUS
  <2>3. \A j \in Ids : Holds(j, u) => j = k
    BY <2>2, HeldOnce
  <2>4. OwnerOf(u) = k
    BY <2>3 DEF OwnerOf
  <2> QED
    BY <2>3, <2>4
<1> QED
  BY <1>1, <1>2

LEMMA InitMemory == Init => Memory!Init
<1> SUFFICES ASSUME Init PROVE Memory!Init
  OBVIOUS
<1>1. \A i \in Ids : ext[i].refs = 0
  BY DEF Init, NoExtent
<1>2. \A u \in 0 .. Total - 1 : OwnerOf(u) = "free"
  BY <1>1 DEF OwnerOf, Owned, Holds, Live
<1> QED
  BY <1>1, <1>2 DEF Memory!Init

LEMMA MemoryStep ==
    SlabInv /\ SlabInv' /\ [Next]_vars
        => [Memory!Next]_<<[u \in 0 .. Total - 1 |-> OwnerOf(u)], [i \in Ids |-> ext[i].refs]>>
<1> DEFINE owner == [u \in 0 .. Total - 1 |-> OwnerOf(u)]
           refs == [i \in Ids |-> ext[i].refs]
<1> SUFFICES ASSUME SlabInv, SlabInv', [Next]_vars
             PROVE  Memory!Next \/ UNCHANGED <<owner, refs>>
  OBVIOUS
<1>e. ext \in [Ids -> [off : Nat, cap : Nat, refs : Nat]]
  BY DEF SlabInv, ExtentsInside
<1>k. OwnersKnown /\ OwnersKnown'
  BY OwnerHolds, PTL
<1>o. \A u \in 0 .. Total - 1 : /\ \A j \in Ids : Holds(j, u) <=> OwnerOf(u) = j
                                /\ ~Owned(u) => OwnerOf(u) = "free"
  BY <1>k DEF OwnersKnown
<1>n. \A u \in 0 .. Total - 1 : /\ \A j \in Ids : Holds(j, u)' <=> OwnerOf(u)' = j
                                /\ ~Owned(u)' => OwnerOf(u)' = "free"
  BY <1>k DEF OwnersKnown
<1>r. ASSUME NEW i \in Ids, NEW n \in Nat,
             \A j \in Ids : ext'[j].refs = IF j = i THEN n ELSE ext[j].refs
      PROVE  refs' = [refs EXCEPT ![i] = n]
  BY Zenon, <1>r
<1>1. ASSUME NEW i \in Ids, NEW s \in Sizes, Alloc(i, s) PROVE Memory!Alloc(i)
  <2>1. PICK o \in 0 .. Total - 1 : \E c \in 1 .. Total - o :
           /\ c = RoundUp(s)
           /\ ext' = [ext EXCEPT ![i] = [off |-> o, cap |-> c, refs |-> 1]]
           /\ \A u \in o .. o + c - 1 : ~Owned(u)
           /\ \A u \in Nat, j \in Ids :
                 Holds(j, u)' <=> IF j = i THEN u \in o .. o + c - 1 ELSE Holds(j, u)
    BY <1>1, AllocBytes
  <2>2. PICK c \in 1 .. Total - o :
           /\ ext' = [ext EXCEPT ![i] = [off |-> o, cap |-> c, refs |-> 1]]
           /\ \A u \in o .. o + c - 1 : ~Owned(u)
           /\ \A u \in Nat, j \in Ids :
                 Holds(j, u)' <=> IF j = i THEN u \in o .. o + c - 1 ELSE Holds(j, u)
    BY Zenon, <2>1
  <2>3. refs[i] = 0 /\ refs' = [refs EXCEPT ![i] = 1] /\ ~Live(i)
    <3>1. \A j \in Ids : ext'[j].refs = IF j = i THEN 1 ELSE ext[j].refs
      BY <1>e, <2>2
    <3> QED
      BY <1>1, <1>r, <3>1 DEF Alloc, Live
  <2>4. \A u \in o .. o + c - 1 : u \in 0 .. Total - 1 /\ owner[u] = "free"
    BY <1>o, <2>2, SlabAssumption
  <2>5. \A u \in 0 .. Total - 1 : OwnerOf(u)' = IF u \in o .. o + c - 1 THEN i ELSE OwnerOf(u)
    <3> SUFFICES ASSUME NEW u \in 0 .. Total - 1
                 PROVE  OwnerOf(u)' = IF u \in o .. o + c - 1 THEN i ELSE OwnerOf(u)
      OBVIOUS
    <3>1. CASE u \in o .. o + c - 1
      BY <3>1, <2>2, <1>n
    <3>2. CASE u \notin o .. o + c - 1 /\ Owned(u)
      <4>1. PICK j \in Ids : Holds(j, u)
        BY <3>2 DEF Owned
      <4>2. j # i /\ Holds(j, u)'
        BY <4>1, <2>2, <2>3 DEF Holds
      <4> QED
        BY <3>2, <4>1, <4>2, <1>o, <1>n
    <3>3. CASE u \notin o .. o + c - 1 /\ ~Owned(u)
      <4>1. ~Owned(u)'
        BY <3>3, <2>2 DEF Owned
      <4> QED
        BY <3>3, <4>1, <1>o, <1>n
    <3> QED
      BY <3>1, <3>2, <3>3
  <2>6. owner' = [u \in 0 .. Total - 1 |-> IF u \in o .. o + c - 1 THEN i ELSE owner[u]]
    BY <2>5
  <2> QED
    BY <2>3, <2>4, <2>6 DEF Memory!Alloc
<1>s. ASSUME NEW i \in Ids, Clone(i) \/ (Drop(i) /\ ext[i].refs # 1)
      PROVE  owner' = owner /\ refs[i] > 0
  <2>1. \A u \in Nat, j \in Ids : Holds(j, u)' <=> Holds(j, u)
    BY <1>s, ReferenceBytes
  <2>2. \A u \in 0 .. Total - 1 : OwnerOf(u)' = OwnerOf(u)
    BY <2>1, <1>o, <1>n DEF Owned
  <2> QED
    BY <1>s, <2>2, ReferenceBytes
<1>2. ASSUME NEW i \in Ids, Clone(i) PROVE Memory!Clone(i)
  <2>1. ext' = [ext EXCEPT ![i].refs = ext[i].refs + 1]
    BY <1>2 DEF Clone
  <2>2. refs' = [refs EXCEPT ![i] = refs[i] + 1]
    BY Zenon, <2>1, <1>e
  <2> QED
    BY <1>2, <1>s, <2>2 DEF Memory!Clone
<1>3. ASSUME NEW i \in Ids, Drop(i) PROVE Memory!Drop(i)
  <2>1. CASE ext[i].refs # 1
    <3>1. ext' = [ext EXCEPT ![i].refs = ext[i].refs - 1]
      BY <1>3, <2>1 DEF Drop
    <3>2. refs[i] = ext[i].refs /\ ext[i].refs > 1 /\ ext[i].refs - 1 \in Nat
      BY <1>3, <2>1, <1>e DEF Drop
    <3>3. \A j \in Ids : ext'[j].refs = IF j = i THEN refs[i] - 1 ELSE ext[j].refs
      BY <1>e, <3>1
    <3>4. refs' = [refs EXCEPT ![i] = refs[i] - 1] /\ refs[i] > 1
      BY <1>r, <3>2, <3>3
    <3> QED
      BY Zenon, <1>3, <2>1, <1>s, <3>4 DEF Memory!Drop
  <2>2. CASE ext[i].refs = 1
    <3>1. /\ ext' = [ext EXCEPT ![i] = NoExtent]
          /\ \A u \in Nat, j \in Ids : Holds(j, u)' <=> (j # i /\ Holds(j, u))
      BY <1>3, <2>2, LastDropBytes
    <3>2. refs[i] = 1 /\ refs' = [refs EXCEPT ![i] = refs[i] - 1]
      <4>1. \A j \in Ids : ext'[j].refs = IF j = i THEN 0 ELSE ext[j].refs
        BY <3>1, <1>e DEF NoExtent
      <4> QED
        BY <2>2, <4>1, <1>r
    <3>3. \A u \in 0 .. Total - 1 : OwnerOf(u)' = IF OwnerOf(u) = i THEN "free" ELSE OwnerOf(u)
      <4> SUFFICES ASSUME NEW u \in 0 .. Total - 1
                   PROVE  OwnerOf(u)' = IF OwnerOf(u) = i THEN "free" ELSE OwnerOf(u)
        OBVIOUS
      <4>1. CASE OwnerOf(u) = i
        <5>1. ~Owned(u)'
          BY <4>1, <3>1, <1>o DEF Owned
        <5> QED
          BY <4>1, <5>1, <1>n
      <4>2. CASE OwnerOf(u) # i
        BY <4>2, <3>1, <1>o, <1>n DEF Owned
      <4> QED
        BY <4>1, <4>2
    <3>4. owner' = [u \in 0 .. Total - 1 |-> IF owner[u] = i THEN "free" ELSE owner[u]]
      BY <3>3
    <3>5. refs[i] > 0 /\ ~(refs[i] > 1)
      BY <3>2
    <3> QED
      BY Zenon, <3>2, <3>4, <3>5 DEF Memory!Drop
  <2> QED
    BY <2>1, <2>2
<1>4. CASE UNCHANGED vars
  BY <1>4 DEF vars, OwnerOf, Owned, Holds, Live
<1> QED
  BY <1>1, <1>2, <1>3, <1>4 DEF Next, Memory!Next

(* The free list with its two indexes, rounding, splitting and merging       *)
(* behaves as bytes with owners: an allocation takes a run nobody owns, and  *)
(* the bytes of an extent return exactly when its last reference drops.      *)
THEOREM ImplementsMemory == Spec => MemorySpec
BY InitMemory, MemoryStep, SlabSound, PTL DEF Spec, MemorySpec, Memory!Spec
=============================================================================
