---------------------------- MODULE StripedProofs ----------------------------
(* PUTs and GETs at the grain of a stripe, for any number of handlers, data  *)
(* nodes, stripes and faults, and every way of cutting a body into chunks:   *)
(* what is committed is whole, what is refused is rolled back, what a GET    *)
(* hands over is what was committed, and a reader drops metadata only of an  *)
(* object that cannot be served.                                             *)
EXTENDS StripedRead, FiniteSetTheorems, TLAPS

(* Time limits of the provers, for a busy machine. *)
USE ZenonT(10), SMTT(15)

-----------------------------------------------------------------------------
(* Stripes. *)

LEMMA ChunkSizePositive == ChunkSize \in Nat /\ ChunkSize > 0
BY SMTT(15), StripedPutAssumption

(* Products with the stripe size, which the provers do not multiply out. *)
LEMMA TimesLess ==
    ASSUME NEW a \in Nat, NEW b \in Nat
    PROVE  /\ a * ChunkSize \in Nat /\ (a + 1) * ChunkSize = a * ChunkSize + ChunkSize
           /\ a <= a * ChunkSize
           /\ a < b => (a + 1) * ChunkSize <= b * ChunkSize
<1>1. PICK c \in Nat : c = ChunkSize /\ c > 0
  BY ChunkSizePositive
<1>2. a * c \in Nat /\ (a + 1) * c = a * c + c /\ a <= a * c
  BY SMTT(15), <1>1
<1>3. a < b => (a + 1) * c <= b * c
  BY SMTT(15), <1>1
<1> QED
  BY <1>1, <1>2, <1>3

(* A full stripe, or the last one, is added to full ones. *)
LEMMA TilesAppend ==
    ASSUME NEW lens \in Seq(Nat), NEW n \in Nat, Tiles(lens, Len(lens) * ChunkSize)
    PROVE  /\ Append(lens, n) \in Seq(Nat) /\ Len(Append(lens, n)) = Len(lens) + 1
           /\ Tiles(Append(lens, n), Len(lens) * ChunkSize + n)
<1> DEFINE k == Len(lens)
           t == Append(lens, n)
<1>1. k \in Nat /\ t \in Seq(Nat) /\ Len(t) = k + 1 /\ t[k + 1] = n /\ t # <<>>
  BY SMTT(15)
<1>2. \A i \in 1 .. k : t[i] = lens[i]
  BY SMTT(15)
<1>3. \A i \in 1 .. k - 1 : lens[i] = ChunkSize
  BY DEF Tiles
<1>4. k # 0 => lens[k] = ChunkSize
  <2>1. k # 0 => k * ChunkSize = (k - 1) * ChunkSize + lens[k] /\ lens[k] \in Nat
    BY SMTT(15) DEF Tiles
  <2>2. k # 0 => k * ChunkSize = (k - 1) * ChunkSize + ChunkSize /\ (k - 1) * ChunkSize \in Nat
    <3>1. k # 0 => k - 1 \in Nat /\ (k - 1) + 1 = k
      BY SMTT(15), <1>1
    <3> QED
      BY <3>1, TimesLess
  <2> HIDE DEF k
  <2> QED
    BY SMTT(15), <2>1, <2>2, ChunkSizePositive
<1>5. \A i \in 1 .. k : t[i] = ChunkSize
  BY SMTT(15), <1>1, <1>2, <1>3, <1>4
<1>6. (Len(t) - 1) * ChunkSize + t[Len(t)] = k * ChunkSize + n
  BY SMTT(15), <1>1
<1>7. \A i \in 1 .. Len(t) - 1 : t[i] = ChunkSize
  BY SMTT(15), <1>1, <1>5
<1> HIDE DEF t, k
<1>8. Tiles(t, k * ChunkSize + n)
  BY <1>1, <1>6, <1>7 DEF Tiles
<1> QED
  BY <1>1, <1>8 DEF t, k

(* A stripe that begins before the end of a body is one of Stripes. *)
LEMMA StripeOfBody ==
    ASSUME NEW b \in Streams, NEW s \in Nat, s * ChunkSize < Total(b)
    PROVE  s \in Stripes
<1>1. Total(b) \in Nat \ {0}
  BY SMTT(15), StripedPutAssumption DEF Total
<1>2. s <= s * ChunkSize /\ s * ChunkSize \in Nat
  BY TimesLess
<1>3. s \in 0 .. Total(b)
  BY SMTT(15), <1>1, <1>2
<1> QED
  BY SMTT(40), <1>3 DEF Stripes

LEMMA CeilBounds ==
    ASSUME NEW t \in Nat \ {0}
    PROVE  Ceil(t) \in Nat \ {0} /\ (Ceil(t) - 1) * ChunkSize < t /\ t <= Ceil(t) * ChunkSize
<1>1. PICK c \in Nat : c = ChunkSize /\ c > 0
  BY ChunkSizePositive
<1> DEFINE q == (t + c - 1) \div c
           m == (t + c - 1) % c
<1>2. q \in Int /\ m \in 0 .. c - 1 /\ t + c - 1 = c * q + m
  BY SMTT(15), <1>1
<1> HIDE DEF q, m
<1>3. q > 0
  <2>1. q <= 0 => c * q <= 0
    BY SMTT(15), <1>1, <1>2
  <2> QED
    BY SMTT(15), <1>1, <1>2, <2>1
<1>4. (q - 1) * c = c * q - c /\ q * c = c * q /\ c * q \in Int
  BY SMTT(15), <1>1, <1>2
<1>5. (q - 1) * c < t /\ t <= q * c
  BY SMTT(15), <1>1, <1>2, <1>4
<1>6. q \in Nat \ {0}
  BY SMTT(15), <1>2, <1>3
<1> QED
  BY <1>1, <1>5, <1>6 DEF q, Ceil

(* The stripes of a body that is there in full. *)
LEMMA WholeLensTiles ==
    ASSUME NEW b \in Streams, NEW mode \in Modes
    PROVE  LET lens == WholeLens(b, mode)
           IN  /\ lens \in Seq(Nat) /\ Total(b) \in Nat /\ Tiles(lens, Total(b))
               /\ 0 .. Len(lens) - 1 \subseteq Stripes
               /\ mode = "single" => Len(lens) = 1
<1>1. Total(b) \in Nat \ {0}
  BY SMTT(15), StripedPutAssumption DEF Total
<1>2. CASE mode = "single"
  <2> DEFINE t == Total(b)
             lens == <<t>>
  <2>1. lens \in Seq(Nat) /\ Len(lens) = 1 /\ lens[1] = t /\ lens # <<>>
    BY SMTT(15), <1>1
  <2>2. 0 \in Stripes
    <3>1. 0 * ChunkSize = 0
      BY SMTT(15), ChunkSizePositive
    <3> QED
      BY SMTT(15), <1>1, <3>1, StripeOfBody
  <2>3. (Len(lens) - 1) * ChunkSize + lens[Len(lens)] = t /\ 1 .. Len(lens) - 1 = {}
    BY SMTT(15), <1>1, ChunkSizePositive, <2>1
  <2>4. 0 .. Len(lens) - 1 = {0}
    BY SMTT(15), <2>1
  <2>5. WholeLens(b, mode) = lens
    BY <1>2 DEF WholeLens
  <2> HIDE DEF lens, t
  <2>6. Tiles(lens, t)
    BY <2>1, <2>3 DEF Tiles
  <2> QED
    BY <1>1, <2>1, <2>2, <2>4, <2>5, <2>6 DEF t
<1>3. CASE mode # "single"
  <2> DEFINE t == Total(b)
             k == Ceil(t)
             lens == [i \in 1 .. k |-> IF i * ChunkSize <= t THEN ChunkSize
                                       ELSE t - (i - 1) * ChunkSize]
  <2>1. /\ t \in Nat \ {0} /\ k \in Nat \ {0}
        /\ (k - 1) * ChunkSize < t /\ t <= k * ChunkSize
    BY <1>1, CeilBounds
  <2>2. WholeLens(b, mode) = lens
    BY <1>3 DEF WholeLens
  <2> HIDE DEF k, t
  <2>3. \A i \in 1 .. k - 1 : i * ChunkSize <= t
    <3> TAKE i \in 1 .. k - 1
    <3>1. i - 1 \in Nat /\ k - 1 \in Nat /\ i - 1 < k - 1 /\ (i - 1) + 1 = i
      BY SMTT(15), <2>1
    <3>2. i * ChunkSize <= (k - 1) * ChunkSize
      BY <3>1, TimesLess
    <3> QED
      BY SMTT(15), <2>1, <3>1, <3>2, TimesLess
  <2>4. k * ChunkSize = (k - 1) * ChunkSize + ChunkSize /\ (k - 1) * ChunkSize \in Nat
    <3>1. k - 1 \in Nat /\ (k - 1) + 1 = k
      BY SMTT(15), <2>1
    <3> QED
      BY <3>1, TimesLess
  <2>5. lens[k] = t - (k - 1) * ChunkSize
    BY SMTT(15), <2>1, <2>4, ChunkSizePositive
  <2>6. \A i \in 1 .. k - 1 : i \in 1 .. k /\ lens[i] = ChunkSize
    BY SMTT(15), <2>1, <2>3
  <2>7. \A i \in 1 .. k : lens[i] \in Nat
    BY SMTT(15), <2>1, <2>4, <2>5, <2>6, ChunkSizePositive
  <2>8. lens \in Seq(Nat) /\ Len(lens) = k /\ lens # <<>>
    <3>1. lens \in [1 .. k -> Nat]
      BY <2>7
    <3> HIDE DEF lens
    <3>2. lens \in Seq(Nat) /\ Len(lens) = k
      BY SMTT(15), <2>1, <3>1
    <3> QED
      BY SMTT(15), <2>1, <3>2
  <2>9. (k - 1) * ChunkSize + lens[k] = t
    BY SMTT(15), <2>1, <2>4, <2>5
  <2>10. 0 .. k - 1 \subseteq Stripes
    <3> SUFFICES ASSUME NEW s \in 0 .. k - 1
                 PROVE  s \in Stripes
      OBVIOUS
    <3>1. s \in Nat /\ k - 1 \in Nat /\ (s = k - 1 \/ s < k - 1)
      BY SMTT(15), <2>1
    <3>2. s * ChunkSize <= (k - 1) * ChunkSize
      <4>1. /\ (s + 1) * ChunkSize = s * ChunkSize + ChunkSize /\ s * ChunkSize \in Nat
            /\ s < k - 1 => (s + 1) * ChunkSize <= (k - 1) * ChunkSize
        BY <3>1, TimesLess
      <4> QED
        BY SMTT(15), <3>1, <4>1, <2>4, ChunkSizePositive
    <3>3. s * ChunkSize < t
      <4>1. s * ChunkSize \in Nat
        BY <3>1, TimesLess
      <4> QED
        BY SMTT(15), <4>1, <3>2, <2>1, <2>4
    <3> QED
      BY <3>1, <3>3, StripeOfBody DEF t
  <2> HIDE DEF lens
  <2>11. Tiles(lens, t)
    BY <2>6, <2>8, <2>9 DEF Tiles
  <2> QED
    BY <1>3, <2>1, <2>2, <2>8, <2>10, <2>11 DEF t
<1> QED
  BY <1>2, <1>3

-----------------------------------------------------------------------------
(* The invariant of the PUT side. *)

TaskStates == {"none", "run", "ok", "fail", "joined"}
FileStates == {"none", "good", "bad", "short"}
WaitingPcs == {"gate", "prepare"}
ActivePcs == {"feed", "drain", "commit", "orphan", "undo"}

PutRec == [pc: {"idle"} \cup WaitingPcs \cup ActivePcs,
           at: Nodes \cup {"none"}, mode: Modes \cup {"none"}, ifAbsent: BOOLEAN,
           body: Streams \cup {NoPut.body}, gen: 0 .. MaxGen, chunk: Nat, buf: Nat,
           filled: Nat, next: Nat, recvd: Nat, locs: SUBSET Stripes, err: BOOLEAN,
           todo: SUBSET Stripes]
ObjRec == [mode: Modes \cup {"none"}, at: Nodes \cup {"none"}, total: Nat, lens: Seq(Nat)]

PutTyped ==
    /\ conf \in Configs /\ meta \in 0 .. MaxGen /\ counter \in 0 .. MaxGen
    /\ retired \in SUBSET Gens /\ failed \in SUBSET Gens
    /\ excused \in SUBSET Gens /\ hurt \in SUBSET Gens
    /\ obj \in [Gens -> ObjRec]
    /\ task \in [Gens -> [Stripes -> TaskStates]]
    /\ file \in [Gens -> [Stripes -> FileStates]]
    /\ h \in [Putters -> PutRec]

(* There is a generation for every handler that has yet to take one. *)
Waiting == {q \in Putters : h[q].pc \in WaitingPcs}
RoomInv == counter + Cardinality(Waiting) <= conf.gens

(* A generation belongs to one handler, and to none once it is current,      *)
(* retired or given up.                                                      *)
LifeInv ==
    /\ meta <= counter /\ meta \notin retired
    /\ \A g \in retired \cup failed : g <= counter
    /\ \A p \in Putters :
        /\ IF h[p].pc \in ActivePcs THEN h[p].gen # 0 ELSE h[p].gen = 0
        /\ h[p].gen <= counter
        /\ h[p].gen # 0 =>
              /\ h[p].gen # meta /\ h[p].gen \notin retired \cup failed
              /\ \A q \in Putters \ {p} : h[q].gen # h[p].gen

(* A handler record before it has a generation, *)
Fresh(x) ==
    /\ x.body \in Streams /\ x.mode \in Modes
    /\ x.chunk = 0 /\ x.buf = 0 /\ x.filled = 0 /\ x.next = 0 /\ x.recvd = 0
    /\ x.locs = {} /\ x.err = FALSE

(* what it has received and cut, given the object it prepared: until a write *)
(* has failed the stripes tile what was received, less what is in hand, and  *)
(* are full unless the body has ended;                                       *)
Tiled(x) == x.recvd - (x.filled + x.buf)
BodyEnded(x) == x.buf = 0 /\ x.filled = 0 /\ x.chunk = Len(x.body.ends)
Cutting(x, o) ==
    /\ o.total = x.body.decl
    /\ x.chunk <= Len(x.body.ends) /\ x.filled < ChunkSize
    /\ x.recvd = IF x.chunk = 0 THEN 0 ELSE x.body.ends[x.chunk]
    /\ x.err = FALSE =>
        /\ Len(o.lens) = x.next
        /\ Tiles(o.lens, Tiled(x))
        /\ Tiled(x) = x.next * ChunkSize \/ BodyEnded(x)
        /\ x.pc # "feed" => x.filled = 0 /\ x.buf = 0
BodyOk(x, o) ==
    /\ x.body \in Streams /\ x.mode \in Modes /\ o.mode = x.mode
    /\ 0 .. Len(o.lens) - 1 \subseteq Stripes
    /\ IF x.mode = "streamed" THEN Cutting(x, o)
       ELSE x.pc # "feed" /\ Tiles(o.lens, o.total)
    /\ x.mode = "single" => Len(o.lens) = 1
    /\ x.pc \in {"commit", "orphan"} =>
          x.err = FALSE /\ (x.mode = "streamed" => x.recvd = x.body.decl)

(* and its stripe writes t, with the files f they leave; ex: a fault has     *)
(* excused the generation from being cleaned up.                             *)
StripeOk(x, o, t, f, ex, s) ==
    /\ t[s] # "none" <=> s \in 0 .. Len(o.lens) - 1
    /\ t[s] = "ok" => f[s] = "good"
    /\ s \in x.locs => t[s] = "joined"
    /\ t[s] = "joined" => s \in x.locs \/ x.err = TRUE
    /\ s \in x.locs /\ x.pc # "undo" => f[s] = "good"
    /\ x.pc \in {"commit", "orphan", "undo"} => t[s] \in {"none", "joined"}
    /\ x.mode = "single" /\ x.err = TRUE => t[s] \in {"none", "joined"} /\ s \notin x.locs
    /\ f[s] # "none" /\ ~ex /\ x.mode \in {"streamed", "single"} =>
          t[s] = "ok" \/ s \in IF x.pc = "undo" THEN x.todo ELSE x.locs
TaskOk(x, o, t, f, ex) ==
    /\ \A s \in Stripes : StripeOk(x, o, t, f, ex, s)
    /\ x.pc = "orphan" => ex

HandlersInv ==
    \A p \in Putters :
        /\ h[p].pc \in WaitingPcs => Fresh(h[p])
        /\ h[p].pc \in ActivePcs =>
              LET g == h[p].gen
              IN  BodyOk(h[p], obj[g]) /\ TaskOk(h[p], obj[g], task[g], file[g], g \in excused)

(* No handler has to do with a generation any more, and all its stripe       *)
(* writes are over.                                                          *)
Closed(g) ==
    /\ g \in Gens /\ g <= counter
    /\ \A p \in Putters : h[p].gen # g
    /\ StripesOf(g) \subseteq Stripes
    /\ \A s \in Stripes : task[g][s] = IF s \in StripesOf(g) THEN "joined" ELSE "none"

MetaInv == meta # 0 => Closed(meta) /\ CommittedWhole
FailedInv ==
    \A g \in failed \ excused : obj[g].mode \in {"streamed", "single"} =>
        \A s \in Stripes : task[g][s] \in {"none", "joined"} /\ file[g][s] = "none"
HurtInv == \A g \in Gens, s \in Stripes : file[g][s] \in {"bad", "short"} => g \in hurt

FutureInv ==
    \A g \in Gens : g > counter =>
        \A s \in Stripes : task[g][s] = "none" /\ file[g][s] = "none"

PutInv ==
    /\ PutTyped /\ RoomInv /\ LifeInv /\ HandlersInv
    /\ MetaInv /\ FailedInv /\ HurtInv /\ FutureInv

(* What no step does to a closed generation. *)
Frozen(g) ==
    /\ conf' = conf /\ obj'[g] = obj[g] /\ Closed(g)'
    /\ \A s \in Stripes : file'[g][s] = "good" => file[g][s] = "good"
    /\ g \in hurt => g \in hurt'
Kept == PutInv' /\ \A g \in Gens : Closed(g) => Frozen(g)

Same(g) ==
    /\ obj'[g] = obj[g] /\ task'[g] = task[g] /\ file'[g] = file[g]
    /\ g \in excused' <=> g \in excused

(* A step of handler p, which leaves it as x. *)
MovesTyped(x) ==
    /\ x \in PutRec /\ conf' = conf /\ hurt' = hurt
    /\ meta' \in 0 .. MaxGen /\ counter' \in 0 .. MaxGen
    /\ retired' \in SUBSET Gens /\ failed' \in SUBSET Gens /\ excused' \in SUBSET Gens
    /\ obj' \in [Gens -> ObjRec]
    /\ task' \in [Gens -> [Stripes -> TaskStates]]
    /\ file' \in [Gens -> [Stripes -> FileStates]]
MovesLife(p, x) ==
    /\ counter <= counter' /\ x.gen <= counter'
    /\ x.gen \in {0, h[p].gen, counter + 1}
    /\ IF x.pc \in ActivePcs THEN x.gen # 0 ELSE x.gen = 0
    /\ x.gen # 0 => x.gen # meta' /\ x.gen \notin retired' \cup failed'
    /\ retired' \subseteq retired \cup {meta} /\ failed' \subseteq failed \cup {h[p].gen}
    /\ meta' \in {0, meta, h[p].gen} /\ meta' \notin retired'
MovesData(p, x) ==
    /\ \A g \in Gens \ {h[p].gen, x.gen} : Same(g)
    /\ \A g \in Gens, s \in Stripes : file'[g][s] \in {file[g][s], "none"}
    /\ excused \subseteq excused'
    /\ x.pc \in WaitingPcs => Fresh(x)
    /\ x.pc \in ActivePcs =>
          /\ BodyOk(x, obj'[x.gen])
          /\ TaskOk(x, obj'[x.gen], task'[x.gen], file'[x.gen], x.gen \in excused')
Moves(p, x) ==
    /\ h' = [h EXCEPT ![p] = x]
    /\ MovesTyped(x) /\ MovesLife(p, x) /\ MovesData(p, x)

LEMMA GenBounds == MaxGen \in Nat /\ Gens = 1 .. MaxGen /\ \A g \in 0 .. MaxGen : g = 0 \/ g \in Gens
BY SMTT(15), StripedPutAssumption DEF Gens

LEMMA MovesKeep ==
    ASSUME PutInv, NEW p \in Putters, NEW x \in PutRec, Moves(p, x), RoomInv',
           meta' \in {0, meta} \/ MetaInv', failed' = failed \/ FailedInv'
    PROVE  Kept
<1>1. h \in [Putters -> PutRec] /\ h' = [h EXCEPT ![p] = x]
  BY DEF PutInv, PutTyped, Moves
<1>2. h'[p] = x /\ \A q \in Putters \ {p} : h'[q] = h[q]
  BY <1>1
<1>3. PutTyped'
  <2>1. h' \in [Putters -> PutRec]
    BY <1>1
  <2> QED
    BY <2>1 DEF PutInv, PutTyped, Moves, MovesTyped
<1>4. ASSUME NEW g \in Gens, g <= counter, h[p].gen # g
      PROVE  Same(g) /\ x.gen # g
  <2>1. g # 0 /\ g # counter + 1
    BY SMTT(15), GenBounds, <1>4 DEF PutInv, PutTyped
  <2>2. x.gen # g
    BY <2>1, <1>4 DEF Moves, MovesLife
  <2> QED
    BY <2>2, <1>4 DEF Moves, MovesData
<1>5. \A q \in Putters : h[q].gen \in 0 .. MaxGen /\ (h[q].gen # 0 => h[q].gen \in Gens)
  BY GenBounds DEF PutInv, PutTyped, PutRec
<1>6. \A q \in Putters \ {p} : h[q].gen # 0 =>
         h[q].gen # h[p].gen /\ Same(h[q].gen) /\ x.gen # h[q].gen
  BY <1>4, <1>5 DEF PutInv, LifeInv
<1>7. counter \in Nat /\ counter' \in Nat /\ counter <= counter'
  BY SMTT(15), GenBounds DEF PutInv, PutTyped, Moves, MovesLife, MovesTyped
<1>8. LifeInv'
  <2>1. \A g \in 0 .. MaxGen : g <= counter => g <= counter'
    BY SMTT(15), <1>7, GenBounds
  <2>2. h[p].gen <= counter /\ h[p].gen \in 0 .. MaxGen
    BY <1>5 DEF PutInv, LifeInv
  <2>3. meta \in 0 .. MaxGen /\ meta <= counter /\ 0 <= counter /\ 0 \in 0 .. MaxGen
    BY SMTT(15), <1>7, GenBounds DEF PutInv, PutTyped, LifeInv
  <2>4. meta' <= counter' /\ meta' \notin retired'
    BY <2>1, <2>2, <2>3 DEF Moves, MovesLife
  <2>5. \A g \in retired' \cup failed' : g <= counter'
    <3>1. \A g \in retired \cup failed : g \in 0 .. MaxGen /\ g <= counter
      BY SMTT(15), GenBounds DEF PutInv, PutTyped, LifeInv
    <3> QED
      BY <3>1, <2>1, <2>2, <2>3 DEF Moves, MovesLife
  <2>6. /\ IF x.pc \in ActivePcs THEN x.gen # 0 ELSE x.gen = 0
        /\ x.gen <= counter'
        /\ x.gen # 0 =>
              /\ x.gen # meta' /\ x.gen \notin retired' \cup failed'
              /\ \A q \in Putters \ {p} : h[q].gen # x.gen
    BY <1>6 DEF Moves, MovesLife
  <2>7. ASSUME NEW q \in Putters \ {p}
        PROVE  /\ IF h[q].pc \in ActivePcs THEN h[q].gen # 0 ELSE h[q].gen = 0
               /\ h[q].gen <= counter'
               /\ h[q].gen # 0 =>
                     /\ h[q].gen # meta' /\ h[q].gen \notin retired' \cup failed'
                     /\ x.gen # h[q].gen
                     /\ \A k \in Putters \ {p, q} : h[k].gen # h[q].gen
    <3>1. h[q].gen <= counter /\ IF h[q].pc \in ActivePcs THEN h[q].gen # 0 ELSE h[q].gen = 0
      BY DEF PutInv, LifeInv
    <3>2. h[q].gen # 0 => h[q].gen # meta /\ h[q].gen \notin retired \cup failed
                          /\ \A k \in Putters \ {q} : h[k].gen # h[q].gen
      BY DEF PutInv, LifeInv
    <3>3. h[q].gen # 0 => h[q].gen # meta' /\ h[q].gen \notin retired' \cup failed'
      BY <3>2 DEF Moves, MovesLife
    <3> QED
      BY <3>1, <3>2, <3>3, <2>1, <1>5, <1>6
  <2> QED
    BY SMTT(40), <1>2, <2>4, <2>5, <2>6, <2>7 DEF LifeInv
<1>9. HandlersInv'
  <2>1. ASSUME NEW q \in Putters \ {p}
        PROVE  /\ h'[q].pc \in WaitingPcs => Fresh(h'[q])
               /\ h'[q].pc \in ActivePcs =>
                    LET g == h'[q].gen
                    IN  BodyOk(h'[q], obj'[g])
                        /\ TaskOk(h'[q], obj'[g], task'[g], file'[g], g \in excused')
    <3>1. h[q].pc \in WaitingPcs => Fresh(h[q])
      BY DEF PutInv, HandlersInv
    <3>2. h[q].pc \in ActivePcs => h[q].gen # 0
      BY DEF PutInv, LifeInv
    <3>3. h[q].pc \in ActivePcs => BodyOk(h[q], obj[h[q].gen])
      BY DEF PutInv, HandlersInv
    <3>4. h[q].pc \in ActivePcs =>
            TaskOk(h[q], obj[h[q].gen], task[h[q].gen], file[h[q].gen], h[q].gen \in excused)
      BY DEF PutInv, HandlersInv
    <3>5. h[q].pc \in ActivePcs => (h[q].gen \in excused') = (h[q].gen \in excused)
      BY SMTT(40), <1>6, <3>2 DEF Same
    <3> QED
      BY <1>2, <1>6, <3>1, <3>2, <3>3, <3>4, <3>5 DEF Same
  <2>2. /\ x.pc \in WaitingPcs => Fresh(x)
        /\ x.pc \in ActivePcs =>
              /\ BodyOk(x, obj'[x.gen])
              /\ TaskOk(x, obj'[x.gen], task'[x.gen], file'[x.gen], x.gen \in excused')
    BY DEF Moves, MovesData
  <2> QED
    BY <1>2, <2>1, <2>2 DEF HandlersInv
<1>10. ASSUME NEW g \in Gens, Closed(g)
       PROVE  Frozen(g)
  <2>1. g <= counter /\ h[p].gen # g
    BY <1>10 DEF Closed
  <2>2. Same(g) /\ x.gen # g
    BY <1>4, <2>1
  <2>3. g <= counter'
    BY SMTT(15), <2>1, <1>7, GenBounds
  <2>4. Closed(g)'
    BY <1>2, <1>10, <2>2, <2>3 DEF Closed, Same, StripesOf
  <2> QED
    BY <2>2, <2>4 DEF Frozen, Same, Moves, MovesTyped
<1>11. MetaInv'
  <2>1. CASE meta' = meta /\ meta # 0
    <3>1. Closed(meta) /\ CommittedWhole /\ meta \in Gens
      BY <2>1 DEF PutInv, MetaInv, Closed
    <3>2. Frozen(meta) /\ Same(meta)
      <4>1. Frozen(meta)
        BY <3>1, <1>10
      <4>2. meta <= counter /\ h[p].gen # meta
        BY <3>1 DEF Closed
      <4> QED
        BY <4>1, <4>2, <3>1, <1>4
    <3>3. CommittedWhole'
      BY <2>1, <3>1, <3>2 DEF CommittedWhole, Same, StripesOf, Moves, MovesTyped
    <3> QED
      BY <2>1, <3>2, <3>3 DEF MetaInv, Frozen
  <2> QED
    BY <2>1 DEF MetaInv
<1>12. FailedInv'
  <2>1. CASE failed' = failed
    <3> SUFFICES ASSUME NEW g \in failed \ excused', obj'[g].mode \in {"streamed", "single"}
                 PROVE  \A s \in Stripes : task'[g][s] \in {"none", "joined"} /\ file'[g][s] = "none"
      BY <2>1 DEF FailedInv
    <3>1. g \in Gens /\ g <= counter /\ g \notin excused /\ g # 0
      BY GenBounds, SMTT(15) DEF PutInv, PutTyped, LifeInv, Moves, MovesData
    <3>2. h[p].gen # g
      BY <3>1 DEF PutInv, LifeInv
    <3>3. Same(g)
      BY <3>1, <3>2, <1>4
    <3> QED
      BY SMTT(40), <3>1, <3>3 DEF PutInv, FailedInv, Same
  <2> QED
    BY <2>1
<1>13. HurtInv'
  BY DEF PutInv, HurtInv, Moves, MovesData, MovesTyped
<1>14. FutureInv'
  <2> SUFFICES ASSUME NEW g \in Gens, g > counter'
               PROVE  \A s \in Stripes : task'[g][s] = "none" /\ file'[g][s] = "none"
    BY DEF FutureInv
  <2>1. h[p].gen <= counter /\ h[p].gen \in 0 .. MaxGen
    BY <1>5 DEF PutInv, LifeInv
  <2>2. x.gen <= counter' /\ x.gen \in 0 .. MaxGen
    BY DEF Moves, MovesLife, PutRec
  <2>3. g > counter /\ g # h[p].gen /\ g # x.gen
    BY SMTT(15), <2>1, <2>2, <1>7, GenBounds
  <2>4. Same(g)
    BY <2>3 DEF Moves, MovesData
  <2> QED
    BY <2>3, <2>4 DEF Same, PutInv, FutureInv
<1> QED
  BY <1>3, <1>8, <1>9, <1>10, <1>11, <1>12, <1>13, <1>14 DEF Kept, PutInv

-----------------------------------------------------------------------------
(* The steps of a handler. *)

LEMMA NoPutTyped == NoPut \in PutRec /\ NoPut.pc = "idle" /\ NoPut.gen = 0
<1>1. 0 \in 0 .. MaxGen
  BY SMTT(15), GenBounds
<1>2. 0 \in Nat
  BY SMTT(15)
<1> QED
  BY <1>1, <1>2 DEF NoPut, PutRec, WaitingPcs, ActivePcs

LEMMA PcSets ==
    /\ \A c \in ActivePcs : c \notin WaitingPcs /\ c # "idle"
    /\ \A c \in WaitingPcs : c \notin ActivePcs /\ c # "idle"
    /\ "idle" \notin WaitingPcs /\ "idle" \notin ActivePcs
BY DEF WaitingPcs, ActivePcs

LEMMA WaitingFinite ==
    ASSUME PutInv
    PROVE  IsFiniteSet(Waiting) /\ Cardinality(Waiting) \in Nat
<1>1. IsFiniteSet(Putters)
  BY StripedPutAssumption
<1>2. Waiting \in SUBSET Putters
  BY DEF Waiting
<1> QED
  BY <1>1, <1>2, FS_Subset, FS_CardinalityType

LEMMA GensBound ==
    ASSUME PutInv
    PROVE  conf.gens \in 1 .. MaxGen /\ counter \in 0 .. MaxGen
BY StripedPutAssumption DEF PutInv, PutTyped

(* A handler that neither starts nor stops waiting for a generation. *)
LEMMA RoomSame ==
    ASSUME PutInv, NEW p \in Putters, NEW x, h' = [h EXCEPT ![p] = x],
           counter' = counter, conf' = conf, x.pc \in WaitingPcs <=> h[p].pc \in WaitingPcs
    PROVE  RoomInv'
<1>1. Waiting' = Waiting
  BY DEF Waiting, PutInv, PutTyped
<1> QED
  BY <1>1 DEF PutInv, RoomInv

(* One that stops. *)
LEMMA RoomLeft ==
    ASSUME PutInv, NEW p \in Putters, NEW x, h' = [h EXCEPT ![p] = x], conf' = conf,
           h[p].pc \in WaitingPcs, x.pc \notin WaitingPcs, counter' \in {counter, counter + 1}
    PROVE  RoomInv' /\ counter + 1 \in Gens /\ counter + 1 <= conf.gens
<1>1. Waiting' = Waiting \ {p} /\ p \in Waiting
  BY DEF Waiting, PutInv, PutTyped
<1>2. IsFiniteSet(Waiting) /\ Cardinality(Waiting) \in Nat
  BY WaitingFinite
<1>3. Cardinality(Waiting \ {p}) = Cardinality(Waiting) - 1
  BY <1>1, <1>2, FS_RemoveElement
<1>4. Cardinality(Waiting) # 0
  BY <1>1, <1>2, FS_EmptySet
<1>5. counter + Cardinality(Waiting) <= conf.gens
  BY DEF PutInv, RoomInv
<1>6. counter + 1 <= conf.gens /\ counter' + Cardinality(Waiting \ {p}) <= conf.gens
  BY SMTT(15), <1>2, <1>3, <1>4, <1>5, GensBound
<1>7. counter + 1 \in Gens
  BY SMTT(15), <1>6, GensBound, GenBounds
<1> QED
  BY <1>1, <1>6, <1>7 DEF RoomInv

(* The lifecycle part of a step that leaves it alone. *)
LEMMA LifeKept ==
    ASSUME PutInv, NEW p \in Putters, NEW x \in PutRec,
           UNCHANGED <<life, counter, failed>>, x.gen = h[p].gen,
           x.pc \in ActivePcs <=> h[p].pc \in ActivePcs
    PROVE  MovesLife(p, x)
<1>1. counter <= counter' /\ meta' = meta /\ retired' = retired /\ failed' = failed
  BY SMTT(15), GenBounds DEF PutInv, PutTyped, life
<1>2. h[p].gen <= counter'
  BY DEF PutInv, LifeInv
<1> QED
  BY <1>1, <1>2 DEF PutInv, LifeInv, MovesLife

(* The lifecycle part of a step after which p has no generation. *)
LEMMA LifeLeft ==
    ASSUME PutInv, NEW p \in Putters, NEW x \in PutRec, UNCHANGED counter,
           x.gen = 0, x.pc \notin ActivePcs,
           \/ UNCHANGED life
           \/ meta # 0 /\ meta' = 0 /\ retired' = retired \cup {meta}
           \/ meta' = h[p].gen /\ meta' # 0 /\ retired' = retired \cup ({meta} \ {0}),
           failed' \subseteq failed \cup {h[p].gen}
    PROVE  MovesLife(p, x)
<1>1. counter <= counter' /\ 0 <= counter'
  BY SMTT(15), GenBounds DEF PutInv, PutTyped
<1>2. meta' \notin retired'
  <2>1. CASE UNCHANGED life
    BY <2>1 DEF PutInv, LifeInv, life
  <2>2. CASE meta # 0 /\ meta' = 0 /\ retired' = retired \cup {meta}
    <3>1. 0 \notin retired
      BY SMTT(15), GenBounds DEF PutInv, PutTyped
    <3> QED
      BY <2>2, <3>1
  <2>3. CASE meta' = h[p].gen /\ meta' # 0 /\ retired' = retired \cup ({meta} \ {0})
    BY <2>3 DEF PutInv, LifeInv
  <2> QED
    BY <2>1, <2>2, <2>3
<1>3. meta' \in {0, meta, h[p].gen} /\ retired' \subseteq retired \cup {meta}
  BY DEF life
<1> QED
  BY <1>1, <1>2, <1>3 DEF MovesLife

LEMMA DataSame ==
    ASSUME UNCHANGED <<obj, task, file, excused>>
    PROVE  /\ \A g \in Gens : Same(g)
           /\ \A g \in Gens, s \in Stripes : file'[g][s] \in {file[g][s], "none"}
           /\ excused \subseteq excused'
BY DEF Same

LEMMA TypedSame ==
    ASSUME PutInv, NEW x \in PutRec,
           UNCHANGED <<conf, hurt, counter, obj, task, file, excused>>,
           meta' \in 0 .. MaxGen, retired' \in SUBSET Gens, failed' \in SUBSET Gens
    PROVE  MovesTyped(x)
BY DEF PutInv, PutTyped, MovesTyped

LEMMA BeginKeeps ==
    ASSUME PutInv, NEW p \in Putters, PutBegin(p)
    PROVE  Kept
<1>1. PICK n \in conf.entry, b \in conf.streams, ifAbsent \in conf.absent :
        h' = [h EXCEPT ![p] = [NoPut EXCEPT !.pc = "gate", !.at = n, !.mode = ModeOf(b),
                                            !.ifAbsent = ifAbsent, !.body = b]]
  BY DEF PutBegin
<1> DEFINE x == [NoPut EXCEPT !.pc = "gate", !.at = n, !.mode = ModeOf(b),
                              !.ifAbsent = ifAbsent, !.body = b]
<1>2. n \in Nodes /\ b \in Streams /\ ifAbsent \in BOOLEAN
  BY StripedPutAssumption DEF PutInv, PutTyped
<1>3. ModeOf(b) \in Modes
  BY DEF ModeOf, Modes
<1>4. x \in PutRec /\ x.pc = "gate" /\ x.gen = 0 /\ Fresh(x)
  <2>1. 0 \in 0 .. MaxGen /\ 0 \in Nat
    BY SMTT(15), GenBounds
  <2> QED
    BY <1>2, <1>3, <2>1 DEF NoPut, PutRec, WaitingPcs, Fresh
<1>5. h' = [h EXCEPT ![p] = x]
  BY <1>1
<1> HIDE DEF x
<1>6. /\ h[p].pc = "idle" /\ UNCHANGED <<conf, life, counter, obj, task, file, ghosts, faults>>
      /\ counter + Cardinality(Waiting) < conf.gens
  BY DEF PutBegin, Waiting, WaitingPcs
<1>7. h[p].gen = 0
  BY <1>6, PcSets DEF PutInv, LifeInv
<1>8. MovesLife(p, x)
  BY <1>4, <1>6, <1>7, LifeKept, PcSets DEF ghosts, WaitingPcs
<1>9. MovesTyped(x)
  BY <1>4, <1>6, TypedSame DEF PutInv, PutTyped, ghosts, life
<1>10. MovesData(p, x)
  BY <1>4, <1>6, DataSame, PcSets DEF MovesData, ghosts, WaitingPcs
<1>11. RoomInv'
  <2>1. Waiting' = Waiting \cup {p} /\ p \notin Waiting
    BY <1>4, <1>5, <1>6, PcSets DEF Waiting, PutInv, PutTyped, WaitingPcs
  <2>2. Cardinality(Waiting \cup {p}) = Cardinality(Waiting) + 1
    BY <2>1, WaitingFinite, FS_AddElement
  <2>3. counter + (Cardinality(Waiting) + 1) <= conf.gens
    BY SMTT(15), <1>6, WaitingFinite, GensBound
  <2> QED
    BY <1>6, <2>1, <2>2, <2>3 DEF RoomInv
<1>12. Moves(p, x)
  BY <1>5, <1>8, <1>9, <1>10 DEF Moves
<1> QED
  BY <1>4, <1>6, <1>11, <1>12, MovesKeep DEF life, ghosts

(* A handler that has no generation yet gives up. *)
LEMMA GateKeeps ==
    ASSUME PutInv, NEW p \in Putters, PutGate(p)
    PROVE  Kept
<1>1. /\ h[p].pc = "gate" /\ UNCHANGED <<conf, counter, obj, task, file, excused, hurt, faults>>
  BY DEF PutGate
<1>2. h[p].gen = 0 /\ h[p].pc \in WaitingPcs /\ Fresh(h[p]) /\ h[p] \in PutRec
  BY <1>1, PcSets DEF PutInv, PutTyped, LifeInv, HandlersInv, WaitingPcs
<1>3. meta \in 0 .. MaxGen /\ retired \in SUBSET Gens /\ failed \in SUBSET Gens
  BY DEF PutInv, PutTyped
<1>4. 0 \in 0 .. MaxGen /\ (meta # 0 => meta \in Gens)
  BY SMTT(15), <1>3, GenBounds
<1>5. CASE Refuse(p) /\ UNCHANGED life
  <2>1. h' = [h EXCEPT ![p] = NoPut] /\ failed' = failed
    BY <1>2, <1>5 DEF Refuse
  <2>2. MovesLife(p, NoPut)
    BY <1>1, <1>5, <2>1, LifeLeft, NoPutTyped, PcSets
  <2>3. MovesTyped(NoPut)
    BY <1>1, <1>3, <1>5, <2>1, TypedSame, NoPutTyped DEF life
  <2>4. MovesData(p, NoPut)
    BY <1>1, DataSame, PcSets, NoPutTyped DEF MovesData
  <2>5. RoomInv'
    BY <1>1, <1>2, <2>1, RoomLeft, PcSets, NoPutTyped
  <2> QED
    BY <1>5, <2>1, <2>2, <2>3, <2>4, <2>5, NoPutTyped, MovesKeep DEF Moves, life
<1>6. CASE /\ h' = [h EXCEPT ![p].pc = "prepare"] /\ failed' = failed
           /\ \/ UNCHANGED life
              \/ meta # 0 /\ meta' = 0 /\ retired' = retired \cup {meta}
  <2> DEFINE x == [h[p] EXCEPT !.pc = "prepare"]
  <2>1. x \in PutRec /\ x.pc = "prepare" /\ x.gen = 0
    BY <1>2 DEF PutRec, WaitingPcs
  <2>2. Fresh(x)
    BY <1>2 DEF Fresh, PutRec
  <2>3. h' = [h EXCEPT ![p] = x]
    BY <1>6
  <2> HIDE DEF x
  <2>4. MovesLife(p, x)
    BY <1>1, <1>6, <2>1, LifeLeft DEF ActivePcs
  <2>5. meta' \in 0 .. MaxGen /\ retired' \in SUBSET Gens /\ meta' \in {0, meta}
    BY <1>3, <1>4, <1>6 DEF life
  <2>6. MovesTyped(x)
    BY <1>1, <1>3, <1>6, <2>1, <2>5, TypedSame
  <2>7. MovesData(p, x)
    BY <1>1, <2>1, <2>2, DataSame DEF MovesData, ActivePcs
  <2>8. RoomInv'
    BY <1>1, <1>2, <2>1, <2>3, RoomSame DEF WaitingPcs
  <2> QED
    BY <1>6, <2>1, <2>3, <2>4, <2>5, <2>6, <2>7, <2>8, MovesKeep DEF Moves
<1> QED
  BY <1>5, <1>6 DEF PutGate

LEMMA StripesNat == Stripes \subseteq Nat
<1>1. \A b \in Streams : Total(b) \in Nat
  BY SMTT(15), StripedPutAssumption DEF Total
<1>2. \A b \in Streams : \A s \in 0 .. Total(b) : s \in Nat
  BY SMTT(15), <1>1
<1> QED
  BY <1>2 DEF Stripes

LEMMA PrepareKeeps ==
    ASSUME PutInv, NEW p \in Putters, PutPrepare(p)
    PROVE  Kept
<1> DEFINE g == counter + 1
           b == h[p].body
           streamed == h[p].mode = "streamed"
           lens == IF streamed THEN <<>> ELSE WholeLens(b, h[p].mode)
           o == [mode |-> h[p].mode, at |-> h[p].at, lens |-> lens,
                 total |-> IF streamed THEN b.decl ELSE Total(b)]
           t == [s \in Stripes |-> IF s < Len(lens) THEN "run" ELSE "none"]
           pc == IF streamed THEN "feed" ELSE "drain"
           x == [h[p] EXCEPT !.gen = g, !.pc = pc]
<1>1. /\ h[p].pc = "prepare" /\ counter' = g /\ obj' = [obj EXCEPT ![g] = o]
      /\ task' = [task EXCEPT ![g] = t] /\ h' = [h EXCEPT ![p].gen = g, ![p].pc = pc]
      /\ UNCHANGED <<conf, meta, expired, retired, file, ghosts, faults>>
  BY DEF PutPrepare
<1>2. /\ h[p].gen = 0 /\ h[p].pc \in WaitingPcs /\ Fresh(h[p]) /\ h[p] \in PutRec
  BY <1>1, PcSets DEF PutInv, PutTyped, LifeInv, HandlersInv, WaitingPcs
<1>3. b \in Streams /\ h[p].mode \in Modes
  BY <1>2 DEF Fresh
<1>4. h' = [h EXCEPT ![p] = x]
  BY <1>1
<1>5. pc \in {"feed", "drain"} /\ pc \in ActivePcs /\ pc \notin WaitingPcs
  BY DEF ActivePcs, WaitingPcs
<1>6. x.pc = pc
  BY <1>2 DEF PutRec
<1>7. RoomInv' /\ g \in Gens
  <2>1. conf' = conf /\ counter' = counter + 1 /\ x.pc \notin WaitingPcs
    BY <1>1, <1>5, <1>6
  <2> HIDE DEF x, pc, o, t, lens
  <2> QED
    BY <1>2, <1>4, <2>1, RoomLeft
<1>8. g \in 0 .. MaxGen /\ g # 0 /\ g > counter /\ counter <= g /\ g <= g
  BY SMTT(15), <1>7, GenBounds DEF PutInv, PutTyped
<1>9. /\ x \in PutRec /\ x.gen = g /\ x.body = b /\ x.mode = h[p].mode
      /\ x.chunk = 0 /\ x.buf = 0 /\ x.filled = 0 /\ x.next = 0 /\ x.recvd = 0
      /\ x.locs = {} /\ x.err = FALSE
  BY <1>2, <1>5, <1>8 DEF PutRec, Fresh
<1>10. /\ lens \in Seq(Nat) /\ 0 .. Len(lens) - 1 \subseteq Stripes
       /\ ~streamed => Total(b) \in Nat /\ Tiles(lens, Total(b))
       /\ h[p].mode = "single" => Len(lens) = 1
       /\ streamed => Len(lens) = 0 /\ lens = <<>>
  <2>1. CASE streamed
    <3>1. <<>> \in Seq(Nat) /\ Len(<<>>) = 0 /\ 0 .. Len(<<>>) - 1 = {}
      BY SMTT(15)
    <3> QED
      BY <2>1, <3>1
  <2>2. CASE ~streamed
    BY <1>3, <2>2, WholeLensTiles
  <2> QED
    BY <2>1, <2>2
<1>11. b.decl \in Nat
  BY <1>3, StripedPutAssumption
<1>12. o \in ObjRec /\ o.lens = lens /\ o.mode = h[p].mode
       /\ o.total = IF streamed THEN b.decl ELSE Total(b)
  BY <1>2, <1>10, <1>11 DEF ObjRec, PutRec
<1>13. t \in [Stripes -> TaskStates] /\ \A s \in Stripes : t[s] \in {"none", "run"}
  BY DEF TaskStates
<1>14. \A s \in Stripes : t[s] # "none" <=> s \in 0 .. Len(lens) - 1
  <2>1. \A s \in Stripes : s < Len(lens) <=> s \in 0 .. Len(lens) - 1
    BY SMTT(15), StripesNat, <1>10
  <2> QED
    BY <2>1
<1> HIDE DEF g, x, o, t, lens, pc
<1>15. /\ obj' \in [Gens -> ObjRec] /\ obj'[g] = o
       /\ task' \in [Gens -> [Stripes -> TaskStates]] /\ task'[g] = t
       /\ \A k \in Gens \ {g} : obj'[k] = obj[k] /\ task'[k] = task[k]
  BY <1>1, <1>7, <1>12, <1>13 DEF PutInv, PutTyped
<1>16. BodyOk(x, o)
  <2>1. CASE streamed
    <3>1. /\ 0 <= Len(b.ends) /\ 0 < ChunkSize /\ 0 * ChunkSize = 0 /\ 0 - (0 + 0) = 0
          /\ 1 .. Len(lens) - 1 = {}
      BY SMTT(15), <1>3, <1>10, <2>1, ChunkSizePositive, StripedPutAssumption
    <3>2. Tiled(x) = 0
      BY <1>9, <3>1 DEF Tiled
    <3>3. Tiles(lens, 0)
      BY <1>10, <2>1, <3>1 DEF Tiles
    <3>4. Cutting(x, o)
      BY <1>9, <1>10, <1>12, <2>1, <3>1, <3>2, <3>3 DEF Cutting
    <3> QED
      BY ZenonT(40), <1>3, <1>5, <1>6, <1>9, <1>10, <1>12, <2>1, <3>4 DEF BodyOk
  <2>2. CASE ~streamed
    <3>1. x.pc = "drain"
      BY <1>6, <2>2 DEF pc
    <3> QED
      BY <1>3, <1>9, <1>10, <1>12, <2>2, <3>1 DEF BodyOk
  <2> QED
    BY <2>1, <2>2
<1>17. TaskOk(x, o, t, file'[g], g \in excused')
  <2>1. \A s \in Stripes : file'[g][s] = "none"
    BY <1>1, <1>7, <1>8 DEF PutInv, FutureInv
  <2> QED
    BY <1>5, <1>6, <1>9, <1>12, <1>13, <1>14, <2>1 DEF TaskOk, StripeOk
<1>18. meta' = meta /\ retired' = retired /\ failed' = failed /\ excused' = excused
       /\ hurt' = hurt /\ file' = file /\ conf' = conf
  BY <1>1 DEF ghosts
<1>19. MovesTyped(x)
  BY <1>1, <1>8, <1>9, <1>15, <1>18 DEF MovesTyped, PutInv, PutTyped
<1>20. MovesLife(p, x)
  <2>1. g # meta /\ g \notin retired \cup failed
    <3>1. meta <= counter /\ (\A k \in retired \cup failed : k <= counter) /\ ~(g <= counter)
      BY SMTT(15), <1>8, GenBounds DEF PutInv, PutTyped, LifeInv, g
    <3> QED
      BY <3>1
  <2> QED
    BY <1>1, <1>5, <1>6, <1>8, <1>9, <1>18, <2>1 DEF MovesLife, PutInv, LifeInv, g
<1>21. MovesData(p, x)
  <2>1. \A k \in Gens \ {g} : Same(k)
    BY <1>15, <1>18 DEF Same
  <2> QED
    BY <1>5, <1>6, <1>9, <1>15, <1>16, <1>17, <1>18, <2>1 DEF MovesData
<1> QED
  BY <1>4, <1>7, <1>9, <1>18, <1>19, <1>20, <1>21, MovesKeep DEF Moves

(* A step of a handler that changes nothing but its record. *)
LEMMA Quiet ==
    ASSUME PutInv, NEW p \in Putters, NEW x \in PutRec, h' = [h EXCEPT ![p] = x],
           UNCHANGED <<conf, life, counter, obj, task, file, ghosts>>,
           h[p].pc \in ActivePcs, x.pc \in ActivePcs, x.gen = h[p].gen,
           BodyOk(x, obj[x.gen]),
           TaskOk(x, obj[x.gen], task[x.gen], file[x.gen], x.gen \in excused)
    PROVE  Kept
<1>1. MovesTyped(x)
  BY TypedSame DEF PutInv, PutTyped, ghosts, life
<1>2. MovesLife(p, x)
  BY LifeKept DEF ghosts
<1>3. MovesData(p, x)
  BY DataSame, PcSets DEF MovesData, ghosts
<1>4. RoomInv'
  BY RoomSame, PcSets
<1> QED
  BY <1>1, <1>2, <1>3, <1>4, MovesKeep DEF Moves, life, ghosts

(* What the invariant says of an active handler. *)
LEMMA ActiveOk ==
    ASSUME PutInv, NEW p \in Putters, h[p].pc \in ActivePcs
    PROVE  LET g == h[p].gen
           IN  /\ h[p] \in PutRec /\ g \in Gens /\ g # 0
               /\ obj[g] \in ObjRec /\ task[g] \in [Stripes -> TaskStates]
               /\ file[g] \in [Stripes -> FileStates]
               /\ BodyOk(h[p], obj[g])
               /\ TaskOk(h[p], obj[g], task[g], file[g], g \in excused)
<1>1. h[p] \in PutRec /\ h[p].gen # 0
  BY DEF PutInv, PutTyped, LifeInv
<1>2. h[p].gen \in Gens
  BY <1>1, GenBounds DEF PutRec
<1> QED
  BY <1>1, <1>2 DEF PutInv, PutTyped, HandlersInv

(* One that receives its body. *)
LEMMA FeedOk ==
    ASSUME PutInv, NEW p \in Putters, h[p].pc = "feed"
    PROVE  /\ h[p].mode = "streamed" /\ h[p].body \in Streams
           /\ Cutting(h[p], obj[h[p].gen])
           /\ h[p].body.ends \in Seq(Nat \ {0}) /\ Len(h[p].body.ends) \in Nat
           /\ \A i, j \in 1 .. Len(h[p].body.ends) : i < j => h[p].body.ends[i] < h[p].body.ends[j]
           /\ h[p].chunk \in Nat /\ h[p].buf \in Nat /\ h[p].filled \in Nat
           /\ h[p].next \in Nat /\ h[p].recvd \in Nat /\ h[p].err \in BOOLEAN
<1>1. h[p] \in PutRec /\ BodyOk(h[p], obj[h[p].gen])
  BY ActiveOk DEF ActivePcs
<1>2. h[p].mode = "streamed" /\ h[p].body \in Streams /\ Cutting(h[p], obj[h[p].gen])
  BY <1>1 DEF BodyOk
<1>3. /\ h[p].body.ends \in Seq(Nat \ {0})
      /\ \A i, j \in 1 .. Len(h[p].body.ends) : i < j => h[p].body.ends[i] < h[p].body.ends[j]
  BY <1>2, StripedPutAssumption
<1>4. Len(h[p].body.ends) \in Nat
  BY SMTT(15), <1>3
<1> QED
  BY <1>1, <1>2, <1>3, <1>4 DEF PutRec

LEMMA TaskFeed ==
    ASSUME NEW x \in PutRec, NEW y \in PutRec, NEW o, NEW t, NEW f, NEW ex,
           TaskOk(x, o, t, f, ex), x.pc = "feed", y.pc \in {"feed", "drain"},
           y.locs = x.locs, y.err = x.err, y.mode = x.mode
    PROVE  TaskOk(y, o, t, f, ex)
BY DEF TaskOk, StripeOk

LEMMA ReceiveKeeps ==
    ASSUME PutInv, NEW p \in Putters, PutReceive(p)
    PROVE  Kept
<1>1. h[p].pc = "feed" /\ UNCHANGED <<conf, life, counter, obj, task, file, ghosts, faults>>
  BY DEF PutReceive
<1>2. h[p].pc \in ActivePcs
  BY <1>1 DEF ActivePcs
<1> DEFINE b == h[p].body
           o == obj[h[p].gen]
<1>3. /\ h[p].mode = "streamed" /\ b \in Streams /\ Cutting(h[p], o)
      /\ b.ends \in Seq(Nat \ {0}) /\ Len(b.ends) \in Nat
      /\ \A i, j \in 1 .. Len(b.ends) : i < j => b.ends[i] < b.ends[j]
      /\ h[p].chunk \in Nat /\ h[p].buf \in Nat /\ h[p].filled \in Nat
      /\ h[p].next \in Nat /\ h[p].recvd \in Nat /\ h[p].err \in BOOLEAN
  BY <1>1, FeedOk
<1>4. /\ h[p] \in PutRec /\ BodyOk(h[p], o)
      /\ TaskOk(h[p], o, task[h[p].gen], file[h[p].gen], h[p].gen \in excused)
  BY <1>2, ActiveOk
<1> HIDE DEF b, o
<1>5. /\ o.total = b.decl /\ h[p].chunk <= Len(b.ends) /\ h[p].filled < ChunkSize
      /\ h[p].recvd = IF h[p].chunk = 0 THEN 0 ELSE b.ends[h[p].chunk]
      /\ h[p].err = FALSE => /\ Len(o.lens) = h[p].next /\ Tiles(o.lens, Tiled(h[p]))
                             /\ Tiled(h[p]) = h[p].next * ChunkSize \/ BodyEnded(h[p])
  BY <1>3 DEF Cutting, b
(* Enough to show for the record it becomes. *)
<1>6. ASSUME NEW y \in PutRec, h' = [h EXCEPT ![p] = y], y.pc = "feed", y.gen = h[p].gen,
             y.body = b, y.mode = h[p].mode, y.err = h[p].err, y.locs = h[p].locs,
             Cutting(y, o)
      PROVE  Kept
  <2>1. BodyOk(y, o)
    BY <1>3, <1>4, <1>6 DEF BodyOk
  <2>2. TaskOk(y, o, task[h[p].gen], file[h[p].gen], h[p].gen \in excused)
    BY <1>1, <1>4, <1>6, TaskFeed
  <2> QED
    BY <1>1, <1>2, <1>6, <2>1, <2>2, Quiet DEF o
<1>7. CASE h[p].buf = 0 /\ ~Ended(p)
           /\ h' = [h EXCEPT ![p].chunk = @ + 1, ![p].recvd = b.ends[h[p].chunk + 1],
                             ![p].buf = b.ends[h[p].chunk + 1] - h[p].recvd]
  <2> DEFINE k == h[p].chunk + 1
             end == b.ends[k]
             n == end - h[p].recvd
             y == [h[p] EXCEPT !.chunk = k, !.recvd = end, !.buf = n]
  <2>1. h[p].chunk # Len(b.ends) /\ h[p].err = FALSE
    BY <1>7, <1>3 DEF Ended, b
  <2>2. k \in 1 .. Len(b.ends) /\ k # 0 /\ k \in Nat /\ k <= Len(b.ends)
    BY SMTT(40), <1>3, <1>5, <2>1
  <2>3. end \in Nat \ {0}
    BY SMTT(15), <1>3, <2>2
  <2>4. h[p].recvd < end
    <3>1. CASE h[p].chunk = 0
      BY SMTT(15), <1>5, <2>3, <3>1
    <3>2. CASE h[p].chunk # 0
      <4>1. h[p].chunk \in 1 .. Len(b.ends) /\ h[p].chunk < k
        BY SMTT(15), <1>3, <1>5, <3>2
      <4> QED
        BY <1>3, <1>5, <2>2, <3>2, <4>1
    <3> QED
      BY <3>1, <3>2
  <2>5. n \in Nat /\ end - (h[p].filled + n) = h[p].recvd - (h[p].filled + 0)
    BY SMTT(40), <1>3, <2>3, <2>4
  <2>6. h' = [h EXCEPT ![p] = y]
    BY <1>7
  <2>7. end \in Nat
    BY <2>3
  <2> HIDE DEF n, end, k
  <2>8. /\ y \in PutRec /\ y.pc = "feed" /\ y.gen = h[p].gen /\ y.body = b
        /\ y.mode = h[p].mode /\ y.err = h[p].err /\ y.locs = h[p].locs
        /\ y.chunk = k /\ y.recvd = end /\ y.buf = n /\ y.filled = h[p].filled
        /\ y.next = h[p].next
    BY <1>1, <1>4, <2>2, <2>5, <2>7 DEF PutRec, b
  <2> HIDE DEF y
  <2>9. Tiled(y) = Tiled(h[p])
    BY <1>7, <2>5, <2>8 DEF Tiled
  <2>10. ~BodyEnded(h[p])
    BY <2>1 DEF BodyEnded, b
  <2>11. Cutting(y, o)
    BY <1>5, <2>1, <2>2, <2>8, <2>9, <2>10 DEF Cutting, end
  <2> QED
    BY <1>6, <2>6, <2>8, <2>11
<1>8. CASE h[p].buf > 0 /\ ~Full(p)
           /\ h' = [h EXCEPT ![p].filled = @ + h[p].buf, ![p].buf = 0]
  <2> DEFINE n == h[p].filled + h[p].buf
             y == [h[p] EXCEPT !.filled = n, !.buf = 0]
  <2>1. n \in Nat /\ n < ChunkSize /\ 0 \in Nat /\ h[p].buf # 0 /\ n + 0 = n
    BY SMTT(15), <1>3, <1>8, ChunkSizePositive DEF Full
  <2>2. h' = [h EXCEPT ![p] = y]
    BY <1>8
  <2> HIDE DEF n
  <2>3. /\ y \in PutRec /\ y.pc = "feed" /\ y.gen = h[p].gen /\ y.body = b
        /\ y.mode = h[p].mode /\ y.err = h[p].err /\ y.locs = h[p].locs
        /\ y.chunk = h[p].chunk /\ y.recvd = h[p].recvd /\ y.buf = 0 /\ y.filled = n
        /\ y.next = h[p].next
    BY <1>1, <1>4, <2>1 DEF PutRec, b
  <2> HIDE DEF y
  <2>4. Tiled(y) = Tiled(h[p])
    BY <2>1, <2>3 DEF Tiled, n
  <2>5. ~BodyEnded(h[p])
    BY <2>1 DEF BodyEnded
  <2>6. Cutting(y, o)
    BY <1>5, <2>1, <2>3, <2>4, <2>5 DEF Cutting
  <2> QED
    BY <1>6, <2>2, <2>3, <2>6
<1> QED
  BY <1>7, <1>8 DEF PutReceive, b

LEMMA EndedKeeps ==
    ASSUME PutInv, NEW p \in Putters, PutEnded(p)
    PROVE  Kept
<1>1. /\ h[p].pc = "feed" /\ UNCHANGED <<conf, life, counter, obj, task, file, ghosts, faults>>
      /\ h[p].buf = 0 /\ (h[p].filled = 0 \/ h[p].err) /\ h' = [h EXCEPT ![p].pc = "drain"]
  BY DEF PutEnded, Ended
<1> DEFINE y == [h[p] EXCEPT !.pc = "drain"]
           o == obj[h[p].gen]
<1>2. h[p].pc \in ActivePcs
  BY <1>1 DEF ActivePcs
<1>3. /\ h[p] \in PutRec /\ BodyOk(h[p], o)
      /\ TaskOk(h[p], o, task[h[p].gen], file[h[p].gen], h[p].gen \in excused)
  BY <1>2, ActiveOk
<1>4. h[p].mode = "streamed" /\ Cutting(h[p], o) /\ h[p].err \in BOOLEAN
  BY <1>1, FeedOk
<1>5. h' = [h EXCEPT ![p] = y]
  BY <1>1
<1>6. /\ y \in PutRec /\ y.pc = "drain" /\ y.gen = h[p].gen /\ y.body = h[p].body
      /\ y.mode = h[p].mode /\ y.err = h[p].err /\ y.locs = h[p].locs
      /\ y.chunk = h[p].chunk /\ y.recvd = h[p].recvd /\ y.buf = h[p].buf
      /\ y.filled = h[p].filled /\ y.next = h[p].next
  BY <1>3 DEF PutRec, ActivePcs
<1> HIDE DEF y, o
<1>7. Tiled(y) = Tiled(h[p]) /\ (BodyEnded(y) <=> BodyEnded(h[p]))
  BY <1>6 DEF Tiled, BodyEnded
<1>8. Cutting(y, o)
  BY <1>1, <1>4, <1>6, <1>7 DEF Cutting
<1>9. BodyOk(y, o)
  BY <1>3, <1>4, <1>6, <1>8 DEF BodyOk
<1>10. TaskOk(y, o, task[h[p].gen], file[h[p].gen], h[p].gen \in excused)
  BY <1>1, <1>3, <1>6, TaskFeed
<1> QED
  BY <1>1, <1>2, <1>5, <1>6, <1>9, <1>10, Quiet DEF o, ActivePcs

(* What has been received lies within the body. *)
LEMMA ReceivedWithin ==
    ASSUME PutInv, NEW p \in Putters, h[p].pc = "feed"
    PROVE  Total(h[p].body) \in Nat /\ h[p].recvd <= Total(h[p].body)
<1> DEFINE e == h[p].body.ends
           c == h[p].chunk
<1>1. /\ e \in Seq(Nat \ {0}) /\ Len(e) \in Nat /\ c \in Nat /\ h[p].body \in Streams
      /\ \A i, j \in 1 .. Len(e) : i < j => e[i] < e[j]
  BY FeedOk
<1>2. c <= Len(e) /\ h[p].recvd = IF c = 0 THEN 0 ELSE e[c]
  BY FeedOk DEF Cutting
<1>3. e # <<>>
  BY <1>1, StripedPutAssumption
<1> HIDE DEF e, c
<1>4. Len(e) \in 1 .. Len(e) /\ e[Len(e)] \in Nat
  BY SMTT(15), <1>1, <1>3
<1>5. CASE c = 0
  BY SMTT(15), <1>2, <1>4, <1>5 DEF Total, e
<1>6. CASE c # 0 /\ c # Len(e)
  <2>1. c \in 1 .. Len(e) /\ c < Len(e) /\ e[c] \in Nat
    BY SMTT(15), <1>1, <1>2, <1>6
  <2>2. e[c] < e[Len(e)]
    BY <1>1, <1>4, <2>1
  <2> QED
    BY SMTT(15), <1>2, <1>4, <1>6, <2>1, <2>2 DEF Total, e
<1>7. CASE c # 0 /\ c = Len(e)
  <2>1. e[c] <= e[Len(e)]
    BY SMTT(15), <1>4, <1>7
  <2> QED
    BY <1>2, <1>4, <1>7, <2>1 DEF Total, e
<1> QED
  BY <1>5, <1>6, <1>7

LEMMA DispatchKeeps ==
    ASSUME PutInv, NEW p \in Putters, PutDispatch(p)
    PROVE  Kept
<1> DEFINE g == h[p].gen
           s == h[p].next
           b == h[p].body
           o == obj[g]
           flush == Flushes(p)
           len == IF flush THEN h[p].filled ELSE ChunkSize
           rest == h[p].buf - (ChunkSize - h[p].filled)
           left == IF flush THEN 0 ELSE rest
           y == [h[p] EXCEPT !.next = s + 1, !.filled = 0, !.buf = left]
<1>1. /\ h[p].pc = "feed"
      /\ (h[p].buf > 0 /\ Full(p)) \/ flush
      /\ h' = [h EXCEPT ![p].next = s + 1, ![p].filled = 0,
                        ![p].buf = IF flush THEN 0 ELSE @ - (ChunkSize - h[p].filled)]
      /\ IF h[p].err THEN UNCHANGED <<task, obj>>
         ELSE /\ task' = [task EXCEPT ![g][s] = "run"]
              /\ obj' = [obj EXCEPT ![g].lens = Append(@, len)]
      /\ UNCHANGED <<conf, life, counter, file, ghosts, faults>>
  BY DEF PutDispatch, Dispatches
<1>2. h[p].pc = "feed"
  BY <1>1
<1>3. h[p].pc \in ActivePcs
  BY <1>2 DEF ActivePcs
<1>4. /\ h[p].mode = "streamed" /\ b \in Streams /\ Cutting(h[p], o)
      /\ h[p].chunk \in Nat /\ h[p].buf \in Nat /\ h[p].filled \in Nat
      /\ s \in Nat /\ h[p].recvd \in Nat /\ h[p].err \in BOOLEAN
  BY <1>2, FeedOk
<1>5. /\ h[p] \in PutRec /\ g \in Gens /\ g # 0 /\ o \in ObjRec /\ BodyOk(h[p], o)
      /\ task[g] \in [Stripes -> TaskStates] /\ file[g] \in [Stripes -> FileStates]
      /\ TaskOk(h[p], o, task[g], file[g], g \in excused)
  BY <1>3, ActiveOk
<1>6. /\ o.total = b.decl /\ h[p].chunk <= Len(b.ends) /\ h[p].filled < ChunkSize
      /\ h[p].recvd = IF h[p].chunk = 0 THEN 0 ELSE b.ends[h[p].chunk]
      /\ h[p].err = FALSE => /\ Len(o.lens) = s /\ Tiles(o.lens, Tiled(h[p]))
                             /\ Tiled(h[p]) = s * ChunkSize \/ BodyEnded(h[p])
  BY <1>4 DEF Cutting
<1>7. flush => /\ h[p].buf = 0 /\ h[p].filled > 0 /\ h[p].err = FALSE
               /\ h[p].chunk = Len(b.ends)
  BY <1>4 DEF Flushes, Ended
<1>8. ~flush => rest \in Nat /\ h[p].buf > 0
  <2>1. ~flush => h[p].buf > 0 /\ h[p].buf >= ChunkSize - h[p].filled
    BY <1>1 DEF Full
  <2> HIDE DEF flush
  <2> QED
    BY SMTT(15), <1>4, <2>1, ChunkSizePositive
<1>9. h' = [h EXCEPT ![p] = y]
  BY <1>1
<1> HIDE DEF flush, rest
<1>10. left \in Nat /\ s + 1 \in Nat /\ 0 \in Nat /\ 0 < ChunkSize
  BY SMTT(15), <1>4, <1>8, ChunkSizePositive
<1> HIDE DEF left
<1>11. /\ y \in PutRec /\ y.pc = "feed" /\ y.gen = g /\ y.body = b
       /\ y.mode = h[p].mode /\ y.err = h[p].err /\ y.locs = h[p].locs
       /\ y.chunk = h[p].chunk /\ y.recvd = h[p].recvd /\ y.buf = left /\ y.filled = 0
       /\ y.next = s + 1
  BY <1>2, <1>5, <1>10 DEF PutRec
<1> HIDE DEF y
<1>12. CASE h[p].err = TRUE
  <2>1. Cutting(y, o)
    BY <1>6, <1>10, <1>11, <1>12 DEF Cutting
  <2>2. BodyOk(y, o)
    BY <1>2, <1>5, <1>11, <2>1 DEF BodyOk
  <2>3. TaskOk(y, o, task[g], file[g], g \in excused)
    BY <1>2, <1>5, <1>11, TaskFeed
  <2>4. UNCHANGED <<conf, life, counter, obj, task, file, ghosts>>
    BY <1>1, <1>12
  <2> QED
    BY <1>3, <1>9, <1>11, <2>2, <2>3, <2>4, Quiet DEF ActivePcs
<1>13. CASE h[p].err = FALSE
  <2> DEFINE o1 == [o EXCEPT !.lens = Append(o.lens, len)]
             t1 == [task[g] EXCEPT ![s] = "run"]
  <2>1. ~BodyEnded(h[p])
    <3>1. h[p].buf # 0 \/ h[p].filled # 0
      BY SMTT(15), <1>4, <1>7, <1>8
    <3> QED
      BY <3>1 DEF BodyEnded
  <2>2. Tiled(h[p]) = s * ChunkSize /\ Len(o.lens) = s /\ Tiles(o.lens, s * ChunkSize)
    BY <1>6, <1>13, <2>1
  <2>3. s * ChunkSize \in Nat /\ (s + 1) * ChunkSize = s * ChunkSize + ChunkSize
    BY <1>4, TimesLess
  <2>4. len \in Nat
    BY <1>4, ChunkSizePositive
  <2>5. Tiled(y) = s * ChunkSize + len
    <3> DEFINE B == h[p].buf
               F == h[p].filled
               R == h[p].recvd
               S == s * ChunkSize
    <3>1. B \in Nat /\ F \in Nat /\ R \in Nat /\ S \in Nat /\ R - (F + B) = S
      BY <1>4, <2>2, <2>3 DEF Tiled
    <3>2. Tiled(y) = R - (0 + left)
      BY <1>11 DEF Tiled
    <3>3. CASE flush
      <4>1. B = 0 /\ left = 0 /\ len = F
        BY <1>7, <3>3 DEF left
      <4> HIDE DEF B, F, R, S
      <4>2. R - (0 + left) = S + len
        BY SMTT(15), <3>1, <4>1
      <4> QED
        BY <3>2, <4>2 DEF S
    <3>4. CASE ~flush
      <4>1. left = B - (ChunkSize - F) /\ len = ChunkSize
        BY <3>4 DEF left, rest
      <4> HIDE DEF B, F, R, S
      <4>2. R - (0 + left) = S + len
        BY SMTT(15), <3>1, <4>1, ChunkSizePositive
      <4> QED
        BY <3>2, <4>2 DEF S
    <3> QED
      BY <3>3, <3>4
  <2>6. s \in Stripes
    <3>1. s * ChunkSize < h[p].recvd
      BY SMTT(40), <1>4, <1>7, <1>8, <2>2, <2>3 DEF Tiled
    <3>2. s * ChunkSize < Total(b)
      <4>1. Total(b) \in Nat /\ h[p].recvd <= Total(b)
        BY <1>2, ReceivedWithin
      <4> HIDE DEF b
      <4> QED
        BY SMTT(15), <1>4, <2>3, <3>1, <4>1
    <3> QED
      BY <1>4, <3>2, StripeOfBody
  <2>7. o.lens \in Seq(Nat)
    BY <1>5 DEF ObjRec
  <2>8. /\ Append(o.lens, len) \in Seq(Nat) /\ Len(Append(o.lens, len)) = s + 1
        /\ Tiles(Append(o.lens, len), s * ChunkSize + len)
    BY <2>2, <2>4, <2>7, TilesAppend
  <2> HIDE DEF len
  <2>9. /\ o1 \in ObjRec /\ o1.mode = o.mode /\ o1.total = o.total
        /\ o1.lens = Append(o.lens, len)
    BY <1>5, <2>8 DEF ObjRec
  <2>10. t1 \in [Stripes -> TaskStates] /\ t1[s] = "run"
         /\ \A k \in Stripes \ {s} : t1[k] = task[g][k]
    BY <1>5, <2>6 DEF TaskStates
  <2>11. obj' = [obj EXCEPT ![g] = o1] /\ task' = [task EXCEPT ![g] = t1]
    BY <1>1, <1>13
  <2> HIDE DEF o1, t1, o, g
  <2>12. 0 .. Len(o1.lens) - 1 = (0 .. Len(o.lens) - 1) \cup {s} /\ s \notin 0 .. Len(o.lens) - 1
    BY SMTT(40), <1>4, <2>2, <2>8, <2>9
  <2>13. BodyOk(y, o1)
    <3>1. Tiled(y) = (s + 1) * ChunkSize \/ BodyEnded(y)
      <4>1. CASE flush
        BY <1>7, <1>11, <4>1 DEF BodyEnded, left
      <4>2. CASE ~flush
        BY <2>3, <2>5, <4>2 DEF len
      <4> QED
        BY <4>1, <4>2
    <3>2. Cutting(y, o1)
      BY <1>6, <1>10, <1>11, <2>5, <2>8, <2>9, <3>1 DEF Cutting
    <3>3. 0 .. Len(o1.lens) - 1 \subseteq Stripes
      BY <1>5, <2>6, <2>12 DEF BodyOk
    <3> QED
      BY <1>4, <1>5, <1>11, <2>9, <3>2, <3>3 DEF BodyOk
  <2>14. TaskOk(y, o1, t1, file[g], g \in excused)
    <3>1. \A k \in Stripes : StripeOk(h[p], o, task[g], file[g], g \in excused, k)
      BY <1>5 DEF TaskOk
    <3>2. \A k \in Stripes \ {s} : StripeOk(y, o1, t1, file[g], g \in excused, k)
      <4> SUFFICES ASSUME NEW k \in Stripes \ {s}
                   PROVE  StripeOk(y, o1, t1, file[g], g \in excused, k)
        OBVIOUS
      <4>1. StripeOk(h[p], o, task[g], file[g], g \in excused, k)
        BY <3>1
      <4>2. k \in 0 .. Len(o1.lens) - 1 <=> k \in 0 .. Len(o.lens) - 1
        BY <2>12
      <4> QED
        BY <1>2, <1>11, <2>10, <4>1, <4>2 DEF StripeOk
    <3>3. task[g][s] = "none" /\ s \notin h[p].locs
      BY <2>6, <2>12, <3>1 DEF StripeOk
    <3>4. StripeOk(y, o1, t1, file[g], g \in excused, s)
      <4>1. StripeOk(h[p], o, task[g], file[g], g \in excused, s)
        BY <2>6, <3>1
      <4>2. s \in 0 .. Len(o1.lens) - 1
        BY <2>12
      <4> QED
        BY <1>2, <1>4, <1>11, <1>13, <2>10, <3>3, <4>1, <4>2 DEF StripeOk
    <3> QED
      BY <1>11, <3>2, <3>4 DEF TaskOk
  <2>15. /\ obj' \in [Gens -> ObjRec] /\ obj'[g] = o1
         /\ task' \in [Gens -> [Stripes -> TaskStates]] /\ task'[g] = t1
         /\ \A k \in Gens \ {g} : obj'[k] = obj[k] /\ task'[k] = task[k]
    BY <1>5, <2>9, <2>10, <2>11 DEF PutInv, PutTyped
  <2>16. /\ meta' = meta /\ retired' = retired /\ failed' = failed /\ excused' = excused
         /\ hurt' = hurt /\ file' = file /\ conf' = conf /\ counter' = counter
    BY <1>1 DEF ghosts, life
  <2>17. UNCHANGED <<life, counter, failed>>
    BY <1>1 DEF ghosts
  <2>18. MovesTyped(y)
    BY <1>11, <2>15, <2>16 DEF MovesTyped, PutInv, PutTyped
  <2>19. MovesLife(p, y)
    BY <1>2, <1>11, <2>16, <2>17, LifeKept, PcSets DEF ActivePcs, g
  <2>20. MovesData(p, y)
    <3>1. \A k \in Gens \ {g} : Same(k)
      BY <2>15, <2>16 DEF Same
    <3>2. y.pc \notin WaitingPcs
      BY <1>11 DEF WaitingPcs
    <3> QED
      BY <1>11, <2>13, <2>14, <2>15, <2>16, <3>1, <3>2 DEF MovesData, g
  <2>21. RoomInv'
    BY <1>3, <1>9, <1>11, <2>16, RoomSame, PcSets DEF ActivePcs
  <2> QED
    BY ZenonT(40), <1>9, <1>11, <2>16, <2>18, <2>19, <2>20, <2>21, MovesKeep DEF Moves
<1> QED
  BY <1>4, <1>12, <1>13

(* A step of a handler that goes on with its generation. *)
LEMMA GoesOn ==
    ASSUME PutInv, NEW p \in Putters, NEW y \in PutRec, NEW t1, NEW f1,
           h[p].pc \in ActivePcs, h' = [h EXCEPT ![p] = y], y.pc \in ActivePcs,
           y.gen = h[p].gen, UNCHANGED <<conf, life, counter, obj, failed, hurt>>,
           task' = [task EXCEPT ![h[p].gen] = t1], t1 \in [Stripes -> TaskStates],
           file' = [file EXCEPT ![h[p].gen] = f1], f1 \in [Stripes -> FileStates],
           \A s \in Stripes : f1[s] \in {file[h[p].gen][s], "none"},
           excused' = excused \/ excused' = excused \cup {h[p].gen},
           BodyOk(y, obj[h[p].gen]),
           TaskOk(y, obj[h[p].gen], t1, f1, h[p].gen \in excused')
    PROVE  Kept
<1> DEFINE g == h[p].gen
<1>1. g \in Gens
  BY ActiveOk
<1>2. /\ task' \in [Gens -> [Stripes -> TaskStates]] /\ task'[g] = t1
      /\ file' \in [Gens -> [Stripes -> FileStates]] /\ file'[g] = f1
      /\ \A k \in Gens \ {g} : task'[k] = task[k] /\ file'[k] = file[k]
  BY <1>1 DEF PutInv, PutTyped
<1>3. excused' \in SUBSET Gens /\ excused \subseteq excused'
      /\ \A k \in Gens \ {g} : k \in excused' <=> k \in excused
  BY <1>1 DEF PutInv, PutTyped
<1>4. MovesTyped(y)
  BY <1>2, <1>3 DEF MovesTyped, PutInv, PutTyped, life
<1>5. MovesLife(p, y)
  BY LifeKept
<1>6. MovesData(p, y)
  <2>1. \A k \in Gens \ {g} : Same(k)
    BY <1>2, <1>3 DEF Same
  <2>2. \A k \in Gens, s \in Stripes : file'[k][s] \in {file[k][s], "none"}
    BY <1>2
  <2> QED
    BY ZenonT(40), <1>2, <1>3, <2>1, <2>2, PcSets DEF MovesData
<1>7. RoomInv'
  BY RoomSame, PcSets
<1> QED
  BY <1>4, <1>5, <1>6, <1>7, MovesKeep DEF Moves, life

(* A handler leaves its generation, committed or not. *)
LEMMA Leaves ==
    ASSUME PutInv, NEW p \in Putters, h[p].pc \in ActivePcs, h' = [h EXCEPT ![p] = NoPut],
           UNCHANGED <<conf, counter, obj, task, file, hurt>>,
           excused' = excused \/ excused' = excused \cup {h[p].gen},
           \/ /\ UNCHANGED life /\ failed' = failed \cup {h[p].gen}
              /\ \/ h[p].gen \in excused'
                 \/ \A s \in Stripes : /\ task[h[p].gen][s] \in {"none", "joined"}
                                       /\ obj[h[p].gen].mode \in {"streamed", "single"}
                                             => file[h[p].gen][s] = "none"
           \/ /\ meta' = h[p].gen /\ retired' = retired \cup ({meta} \ {0})
              /\ failed' = failed /\ MetaInv'
    PROVE  Kept
<1> DEFINE g == h[p].gen
<1>1. g \in Gens /\ g \in 0 .. MaxGen /\ g # 0
  BY ActiveOk DEF PutRec
<1>2. excused' \in SUBSET Gens /\ excused \subseteq excused'
      /\ \A k \in Gens \ {g} : k \in excused' <=> k \in excused
  BY <1>1 DEF PutInv, PutTyped
<1>3. /\ meta \in 0 .. MaxGen /\ retired \in SUBSET Gens /\ failed \in SUBSET Gens
      /\ meta # 0 => meta \in Gens
  BY GenBounds DEF PutInv, PutTyped
<1>4. meta' \in 0 .. MaxGen /\ retired' \in SUBSET Gens /\ failed' \in SUBSET Gens
  BY <1>1, <1>3 DEF life
<1>5. MovesTyped(NoPut)
  BY <1>2, <1>4, NoPutTyped DEF MovesTyped, PutInv, PutTyped
<1>6. MovesLife(p, NoPut)
  BY <1>1, LifeLeft, NoPutTyped, PcSets
<1>7. MovesData(p, NoPut)
  <2>1. \A k \in Gens \ {g} : Same(k)
    BY <1>2 DEF Same
  <2> QED
    BY <1>2, <2>1, NoPutTyped, PcSets DEF MovesData
<1>8. RoomInv'
  BY RoomSame, NoPutTyped, PcSets
<1>9. FailedInv'
  <2>1. \A k \in failed \ excused' : k \in failed \ excused
    BY <1>2
  <2>2. CASE failed' = failed
    BY <2>1, <2>2 DEF PutInv, FailedInv
  <2>3. CASE failed' = failed \cup {g} /\ g \in excused'
    <3>1. failed' \ excused' = failed \ excused'
      BY <2>3
    <3> QED
      BY <2>1, <3>1 DEF PutInv, FailedInv
  <2>4. CASE failed' = failed \cup {g}
             /\ \A s \in Stripes : /\ task[g][s] \in {"none", "joined"}
                                   /\ obj[g].mode \in {"streamed", "single"} => file[g][s] = "none"
    <3>1. \A k \in failed' \ excused' : k = g \/ k \in failed \ excused
      BY <2>1, <2>4
    <3>2. \A k \in failed \ excused : obj[k].mode \in {"streamed", "single"} =>
              \A s \in Stripes : task[k][s] \in {"none", "joined"} /\ file[k][s] = "none"
      BY DEF PutInv, FailedInv
    <3> HIDE DEF g
    <3>3. \A k \in failed' \ excused' : obj[k].mode \in {"streamed", "single"} =>
              \A s \in Stripes : task[k][s] \in {"none", "joined"} /\ file[k][s] = "none"
      BY ZenonT(40), <2>4, <3>1, <3>2
    <3> QED
      BY <3>3 DEF FailedInv
  <2> QED
    BY <2>2, <2>3, <2>4
<1>10. meta' \in {0, meta} \/ MetaInv'
  BY DEF life
<1> QED
  BY <1>5, <1>6, <1>7, <1>8, <1>9, <1>10, NoPutTyped, MovesKeep DEF Moves

LEMMA AbsorbKeeps ==
    ASSUME PutInv, NEW p \in Putters, PutAbsorb(p)
    PROVE  Kept
<1> DEFINE g == h[p].gen
           o == obj[g]
           ex == g \in excused
<1>1. h[p].pc \in {"feed", "drain"}
  BY DEF PutAbsorb, Dispatches
<1>2. h[p].pc \in ActivePcs
  BY <1>1 DEF ActivePcs
<1>3. PICK s \in Stripes :
        /\ task[g][s] \in {"ok", "fail"}
        /\ task' = [task EXCEPT ![g][s] = "joined"]
        /\ h' = [h EXCEPT ![p].locs = IF task[g][s] = "ok" THEN @ \cup {s} ELSE @,
                          ![p].err = @ \/ task[g][s] = "fail"]
  BY DEF PutAbsorb
<1>4. /\ h[p] \in PutRec /\ g \in Gens /\ BodyOk(h[p], o)
      /\ task[g] \in [Stripes -> TaskStates] /\ file[g] \in [Stripes -> FileStates]
      /\ TaskOk(h[p], o, task[g], file[g], ex)
  BY <1>2, ActiveOk
<1> DEFINE L == IF task[g][s] = "ok" THEN h[p].locs \cup {s} ELSE h[p].locs
           E == h[p].err \/ task[g][s] = "fail"
           t1 == [task[g] EXCEPT ![s] = "joined"]
           y == [h[p] EXCEPT !.locs = L, !.err = E]
<1>5. h' = [h EXCEPT ![p] = y] /\ task' = [task EXCEPT ![g] = t1]
  BY <1>3
<1>6. h[p].err \in BOOLEAN /\ h[p].locs \in SUBSET Stripes
  BY <1>4 DEF PutRec
<1>7. L \in SUBSET Stripes /\ E \in BOOLEAN
  BY <1>3, <1>6
<1>8. /\ E = FALSE => h[p].err = FALSE /\ task[g][s] = "ok"
      /\ h[p].err = TRUE => E = TRUE
      /\ E = TRUE => h[p].err = TRUE \/ task[g][s] = "fail"
      /\ task[g][s] = "fail" => E = TRUE
  BY <1>3, <1>6
<1>9. \A k \in Stripes \ {s} : k \in L <=> k \in h[p].locs
  OBVIOUS
<1>10. task[g][s] = "ok" => s \in L
  OBVIOUS
<1>11. task[g][s] # "ok" => L = h[p].locs
  OBVIOUS
<1> HIDE DEF L, E
<1>12. /\ y \in PutRec /\ y.pc = h[p].pc /\ y.gen = g /\ y.body = h[p].body
       /\ y.mode = h[p].mode /\ y.err = E /\ y.locs = L
       /\ y.chunk = h[p].chunk /\ y.recvd = h[p].recvd /\ y.buf = h[p].buf
       /\ y.filled = h[p].filled /\ y.next = h[p].next
  BY <1>4, <1>7 DEF PutRec
<1>13. t1 \in [Stripes -> TaskStates] /\ t1[s] = "joined"
       /\ \A k \in Stripes \ {s} : t1[k] = task[g][k]
  BY <1>4 DEF TaskStates
<1> HIDE DEF y, t1
<1>14. BodyOk(y, o)
  <2>1. Tiled(y) = Tiled(h[p]) /\ (BodyEnded(y) <=> BodyEnded(h[p]))
    BY <1>12 DEF Tiled, BodyEnded
  <2>2. Cutting(h[p], o) => Cutting(y, o)
    BY <1>8, <1>12, <2>1 DEF Cutting
  <2> QED
    BY <1>1, <1>4, <1>12, <2>2 DEF BodyOk
<1>15. \A k \in Stripes : StripeOk(h[p], o, task[g], file[g], ex, k)
  BY <1>4 DEF TaskOk
<1> HIDE DEF ex
<1>16. ASSUME h[p].mode = "single", E = TRUE, NEW k \in Stripes
       PROVE  t1[k] \in {"none", "joined"} /\ k \notin L
  <2>1. h[p].err # TRUE /\ task[g][s] = "fail"
    <3>1. h[p].err = TRUE => task[g][s] \in {"none", "joined"}
      BY <1>15, <1>16 DEF StripeOk
    <3> QED
      BY <1>3, <1>8, <1>16, <3>1
  <2>2. L = h[p].locs
    BY <1>11, <2>1
  <2>3. 0 .. Len(o.lens) - 1 = {0}
    <3>1. Len(o.lens) = 1
      BY <1>4, <1>16 DEF BodyOk
    <3> QED
      BY SMTT(15), <3>1
  <2>4. s = 0
    BY <1>3, <1>15, <2>3 DEF StripeOk
  <2>5. CASE k = s
    BY <1>13, <1>15, <2>1, <2>2, <2>5 DEF StripeOk
  <2>6. CASE k # s
    <3>1. task[g][k] = "none" /\ k \notin h[p].locs
      BY <1>15, <2>3, <2>4, <2>6 DEF StripeOk
    <3> QED
      BY <1>13, <2>2, <2>6, <3>1
  <2> QED
    BY <2>5, <2>6
<1>17. ASSUME NEW k \in Stripes
       PROVE  StripeOk(y, o, t1, file[g], ex, k)
  <2>1. StripeOk(h[p], o, task[g], file[g], ex, k)
    BY <1>15
  <2>2. y.mode = "single" /\ y.err = TRUE => t1[k] \in {"none", "joined"} /\ k \notin y.locs
    BY <1>12, <1>16
  <2>3. CASE k # s
    <3>1. t1[k] = task[g][k] /\ (k \in y.locs <=> k \in h[p].locs)
      BY <1>9, <1>12, <1>13, <2>3
    <3>2. h[p].err = TRUE => y.err = TRUE
      BY <1>8, <1>12
    <3> QED
      BY ZenonT(40), <1>1, <1>12, <2>1, <2>2, <3>1, <3>2 DEF StripeOk
  <2>4. CASE k = s
    <3>1. task[g][s] = "ok" => s \in y.locs
      BY <1>10, <1>12
    <3>2. task[g][s] = "fail" => y.err = TRUE /\ y.locs = h[p].locs
      BY <1>8, <1>11, <1>12
    <3>3. t1[s] = "joined" /\ y.pc = h[p].pc /\ y.mode = h[p].mode
      BY <1>12, <1>13
    <3> QED
      BY ZenonT(40), <1>1, <1>3, <2>1, <2>2, <2>4, <3>1, <3>2, <3>3 DEF StripeOk
  <2> QED
    BY <2>3, <2>4
<1>18. TaskOk(y, o, t1, file[g], ex)
  BY <1>1, <1>12, <1>17 DEF TaskOk
<1>19. /\ UNCHANGED <<conf, life, counter, obj, failed, hurt>>
       /\ file' = file /\ excused' = excused
  BY DEF PutAbsorb, ghosts
<1>20. file' = [file EXCEPT ![g] = file[g]]
  BY <1>4, <1>19 DEF PutInv, PutTyped
<1> QED
  BY <1>2, <1>4, <1>5, <1>12, <1>13, <1>14, <1>18, <1>19, <1>20, GoesOn DEF ex

(* A handler goes on to remove the files of stripes ss. *)
LEMMA ToUndo ==
    ASSUME PutInv, NEW p \in Putters, NEW ss \in SUBSET Stripes, Undo(p, ss),
           h[p].pc \in {"drain", "commit"},
           h[p].mode \in {"streamed", "single"} => h[p].locs \subseteq ss,
           \A s \in Stripes : task[h[p].gen][s] \in {"none", "joined"},
           UNCHANGED <<conf, life, counter, obj, task, file, ghosts>>
    PROVE  Kept
<1> DEFINE g == h[p].gen
           o == obj[g]
           y == [h[p] EXCEPT !.pc = "undo", !.todo = ss]
           ex == g \in excused
<1>1. h[p].pc \in ActivePcs /\ h' = [h EXCEPT ![p] = y]
  BY DEF ActivePcs, Undo
<1>2. h[p] \in PutRec /\ BodyOk(h[p], o) /\ TaskOk(h[p], o, task[g], file[g], ex)
  BY <1>1, ActiveOk
<1>3. /\ y \in PutRec /\ y.pc = "undo" /\ y.gen = g /\ y.body = h[p].body
      /\ y.mode = h[p].mode /\ y.err = h[p].err /\ y.locs = h[p].locs /\ y.todo = ss
      /\ y.chunk = h[p].chunk /\ y.recvd = h[p].recvd /\ y.buf = h[p].buf
      /\ y.filled = h[p].filled /\ y.next = h[p].next
  BY <1>2 DEF PutRec, ActivePcs
<1> HIDE DEF y, ex
<1>4. BodyOk(y, o)
  <2>1. Tiled(y) = Tiled(h[p]) /\ (BodyEnded(y) <=> BodyEnded(h[p]))
    BY <1>3 DEF Tiled, BodyEnded
  <2>2. Cutting(h[p], o) => Cutting(y, o)
    BY <1>3, <2>1 DEF Cutting
  <2> QED
    BY <1>2, <1>3, <2>2 DEF BodyOk
<1>5. TaskOk(y, o, task[g], file[g], ex)
  <2> SUFFICES ASSUME NEW s \in Stripes
               PROVE  StripeOk(y, o, task[g], file[g], ex, s)
    BY <1>3 DEF TaskOk
  <2>1. StripeOk(h[p], o, task[g], file[g], ex, s)
    BY <1>2 DEF TaskOk
  <2> QED
    BY <1>3, <2>1 DEF StripeOk
<1> QED
  BY <1>1, <1>3, <1>4, <1>5, Quiet DEF ActivePcs, ex

LEMMA JoinedKeeps ==
    ASSUME PutInv, NEW p \in Putters, PutJoined(p)
    PROVE  Kept
<1> DEFINE g == h[p].gen
           o == obj[g]
           ex == g \in excused
<1>1. /\ h[p].pc = "drain" /\ Inflight(g) = {}
      /\ UNCHANGED <<conf, life, counter, obj, task, file, ghosts, faults>>
  BY DEF PutJoined
<1>2. h[p].pc \in ActivePcs
  BY <1>1 DEF ActivePcs
<1>3. /\ h[p] \in PutRec /\ BodyOk(h[p], o) /\ task[g] \in [Stripes -> TaskStates]
      /\ TaskOk(h[p], o, task[g], file[g], ex)
  BY <1>2, ActiveOk
<1>4. \A s \in Stripes : task[g][s] \in {"none", "joined"}
  BY <1>1, <1>3 DEF Inflight, TaskStates
<1>5. h[p].locs \in SUBSET Stripes /\ h[p].err \in BOOLEAN
  BY <1>3 DEF PutRec
<1>6. CASE (h[p].err \/ (h[p].mode = "streamed" /\ h[p].recvd # h[p].body.decl))
           /\ Undo(p, Unwound(p))
  <2>1. Unwound(p) \in SUBSET Stripes
    BY <1>5 DEF Unwound
  <2>2. h[p].mode = "streamed" => h[p].locs \subseteq Unwound(p)
    BY DEF Unwound
  <2>3. h[p].mode = "single" => h[p].locs = {}
    <3>1. h[p].mode = "single" => h[p].err = TRUE
      BY <1>5, <1>6
    <3> QED
      BY <1>3, <1>5, <3>1 DEF TaskOk, StripeOk
  <2> QED
    BY <1>1, <1>4, <1>6, <2>1, <2>2, <2>3, ToUndo
<1>7. CASE h[p].mode = "bytes" /\ Undo(p, h[p].locs)
  BY <1>1, <1>4, <1>5, <1>7, ToUndo
<1>8. CASE /\ ~(h[p].err \/ (h[p].mode = "streamed" /\ h[p].recvd # h[p].body.decl))
           /\ h' = [h EXCEPT ![p].pc = "commit"]
  <2> DEFINE y == [h[p] EXCEPT !.pc = "commit"]
  <2>1. h' = [h EXCEPT ![p] = y]
    BY <1>8
  <2>2. /\ y \in PutRec /\ y.pc = "commit" /\ y.gen = g /\ y.body = h[p].body
        /\ y.mode = h[p].mode /\ y.err = h[p].err /\ y.locs = h[p].locs
        /\ y.chunk = h[p].chunk /\ y.recvd = h[p].recvd /\ y.buf = h[p].buf
        /\ y.filled = h[p].filled /\ y.next = h[p].next
    BY <1>3 DEF PutRec, ActivePcs
  <2> HIDE DEF y, ex
  <2>3. BodyOk(y, o)
    <3>1. Tiled(y) = Tiled(h[p]) /\ (BodyEnded(y) <=> BodyEnded(h[p]))
      BY <2>2 DEF Tiled, BodyEnded
    <3>2. Cutting(h[p], o) => Cutting(y, o)
      BY <1>1, <2>2, <3>1 DEF Cutting
    <3>3. y.err = FALSE /\ (y.mode = "streamed" => y.recvd = y.body.decl)
      BY <1>5, <1>8, <2>2
    <3> QED
      BY <1>3, <2>2, <3>2, <3>3 DEF BodyOk
  <2>4. TaskOk(y, o, task[g], file[g], ex)
    <3> SUFFICES ASSUME NEW s \in Stripes
                 PROVE  StripeOk(y, o, task[g], file[g], ex, s)
      BY <2>2 DEF TaskOk
    <3>1. StripeOk(h[p], o, task[g], file[g], ex, s)
      BY <1>3 DEF TaskOk
    <3> QED
      BY <1>1, <1>4, <2>2, <3>1 DEF StripeOk
  <2> QED
    BY <1>1, <1>2, <2>1, <2>2, <2>3, <2>4, Quiet DEF ActivePcs, ex
<1> QED
  BY <1>6, <1>7, <1>8 DEF PutJoined

(* A handler about to commit has the object in place. *)
LEMMA CommitReady ==
    ASSUME PutInv, NEW p \in Putters, h[p].pc \in {"commit", "orphan"}
    PROVE  LET g == h[p].gen
           IN  /\ Tiles(obj[g].lens, obj[g].total) /\ StripesOf(g) \subseteq Stripes
               /\ \A s \in Stripes : task[g][s] = IF s \in StripesOf(g) THEN "joined" ELSE "none"
               /\ \A s \in StripesOf(g) : file[g][s] = "good"
<1> DEFINE g == h[p].gen
           o == obj[g]
           ex == g \in excused
<1>1. h[p].pc \in ActivePcs
  BY DEF ActivePcs
<1>2. /\ h[p] \in PutRec /\ BodyOk(h[p], o) /\ TaskOk(h[p], o, task[g], file[g], ex)
  BY <1>1, ActiveOk
<1>3. h[p].err = FALSE /\ h[p].recvd \in Nat
  BY <1>2 DEF BodyOk, PutRec
<1>4. Tiles(o.lens, o.total)
  <2>1. CASE h[p].mode = "streamed"
    <3>1. /\ o.total = h[p].recvd /\ h[p].filled = 0 /\ h[p].buf = 0
          /\ Tiles(o.lens, Tiled(h[p]))
      BY <1>2, <1>3, <2>1 DEF BodyOk, Cutting
    <3>2. h[p].recvd - (0 + 0) = h[p].recvd
      BY SMTT(15), <1>3
    <3>3. Tiled(h[p]) = o.total
      BY <3>1, <3>2 DEF Tiled
    <3> QED
      BY <3>1, <3>3
  <2>2. CASE h[p].mode # "streamed"
    BY <1>2, <2>2 DEF BodyOk
  <2> QED
    BY <2>1, <2>2
<1>5. StripesOf(g) = 0 .. Len(o.lens) - 1 /\ StripesOf(g) \subseteq Stripes
  BY <1>2 DEF StripesOf, BodyOk
<1> HIDE DEF ex
<1>6. \A s \in Stripes : StripeOk(h[p], o, task[g], file[g], ex, s)
  BY <1>2 DEF TaskOk
<1>7. ASSUME NEW s \in Stripes
      PROVE  /\ task[g][s] = IF s \in StripesOf(g) THEN "joined" ELSE "none"
             /\ s \in StripesOf(g) => file[g][s] = "good"
  <2>1. StripeOk(h[p], o, task[g], file[g], ex, s)
    BY <1>6
  <2>2. task[g][s] \in {"none", "joined"} /\ (task[g][s] # "none" <=> s \in StripesOf(g))
    BY <1>5, <2>1 DEF StripeOk
  <2>3. task[g][s] = "joined" => s \in h[p].locs
    BY <1>3, <2>1 DEF StripeOk
  <2>4. s \in h[p].locs => file[g][s] = "good"
    BY <2>1 DEF StripeOk
  <2> QED
    BY <2>2, <2>3, <2>4
<1> QED
  BY <1>4, <1>5, <1>7

LEMMA CommitKeeps ==
    ASSUME PutInv, NEW p \in Putters, PutCommit(p)
    PROVE  Kept
<1> DEFINE g == h[p].gen
<1>1. /\ h[p].pc \in {"commit", "orphan"}
      /\ UNCHANGED <<conf, counter, obj, task, file, excused, hurt, faults>>
  BY DEF PutCommit
<1>2. h[p].pc \in ActivePcs
  BY <1>1 DEF ActivePcs
<1>3. /\ h[p] \in PutRec /\ g \in Gens /\ g # 0
      /\ TaskOk(h[p], obj[g], task[g], file[g], g \in excused)
  BY <1>2, ActiveOk
<1>4. CASE h[p].pc = "orphan" /\ Refuse(p) /\ UNCHANGED life
  <2>1. g \in excused
    BY <1>3, <1>4 DEF TaskOk
  <2>2. h' = [h EXCEPT ![p] = NoPut] /\ failed' = failed \cup {g}
    BY <1>3, <1>4 DEF Refuse
  <2> QED
    BY <1>1, <1>2, <1>4, <2>1, <2>2, Leaves
<1>5. CASE h[p].pc = "commit" /\ Undo(p, h[p].locs) /\ UNCHANGED failed /\ UNCHANGED life
  <2>1. \A s \in Stripes : task[g][s] \in {"none", "joined"}
    BY <1>3, <1>5 DEF TaskOk, StripeOk
  <2>2. h[p].locs \in SUBSET Stripes
    BY <1>3 DEF PutRec
  <2> QED
    BY <1>1, <1>5, <2>1, <2>2, ToUndo DEF ghosts
<1>6. CASE /\ meta' = g /\ retired' = retired \cup ({meta} \ {0})
           /\ h' = [h EXCEPT ![p] = NoPut] /\ UNCHANGED failed
  <2>1. /\ Tiles(obj[g].lens, obj[g].total) /\ StripesOf(g) \subseteq Stripes
        /\ \A s \in Stripes : task[g][s] = IF s \in StripesOf(g) THEN "joined" ELSE "none"
        /\ \A s \in StripesOf(g) : file[g][s] = "good"
    BY <1>1, CommitReady
  <2>2. g <= counter /\ \A q \in Putters \ {p} : h[q].gen # g
    BY <1>3 DEF PutInv, LifeInv
  <2>3. \A q \in Putters : h'[q].gen # g
    BY <1>3, <1>6, <2>2, NoPutTyped DEF PutInv, PutTyped
  <2> HIDE DEF g
  <2>4. MetaInv'
    <3>1. StripesOf(meta)' = StripesOf(g)
      BY <1>1, <1>6 DEF StripesOf
    <3>2. Closed(meta)'
      BY ZenonT(40), <1>1, <1>3, <1>6, <2>1, <2>2, <2>3, <3>1 DEF Closed
    <3>3. CommittedWhole'
      BY <1>1, <1>6, <2>1, <3>1 DEF CommittedWhole
    <3> QED
      BY <3>2, <3>3 DEF MetaInv
  <2> QED
    BY <1>1, <1>2, <1>6, <2>4, Leaves DEF g
<1> QED
  BY <1>1, <1>4, <1>5, <1>6 DEF PutCommit

LEMMA CommitFailsKeeps ==
    ASSUME PutInv, NEW p \in Putters, PutCommitFails(p)
    PROVE  Kept
<1> DEFINE g == h[p].gen
<1>1. /\ h[p].pc = "commit" /\ UNCHANGED <<conf, life, counter, obj, task, file, hurt>>
  BY DEF PutCommitFails
<1>2. h[p].pc \in ActivePcs
  BY <1>1 DEF ActivePcs
<1>3. /\ h[p] \in PutRec /\ g # 0 /\ TaskOk(h[p], obj[g], task[g], file[g], g \in excused)
  BY <1>2, ActiveOk
<1>4. CASE Refuse(p) /\ excused' = excused \cup {g}
  <2>1. h' = [h EXCEPT ![p] = NoPut] /\ failed' = failed \cup {g} /\ g \in excused'
    BY <1>3, <1>4 DEF Refuse
  <2> QED
    BY <1>1, <1>2, <1>4, <2>1, Leaves
<1>5. CASE Undo(p, h[p].locs) /\ UNCHANGED <<failed, excused>>
  <2>1. \A s \in Stripes : task[g][s] \in {"none", "joined"}
    BY <1>1, <1>3 DEF TaskOk, StripeOk
  <2>2. h[p].locs \in SUBSET Stripes
    BY <1>3 DEF PutRec
  <2> QED
    BY <1>1, <1>5, <2>1, <2>2, ToUndo DEF ghosts
<1> QED
  BY <1>4, <1>5 DEF PutCommitFails

LEMMA UndoKeeps ==
    ASSUME PutInv, NEW p \in Putters, PutUndo(p)
    PROVE  Kept
<1> DEFINE g == h[p].gen
           o == obj[g]
<1>1. h[p].pc = "undo" /\ UNCHANGED <<conf, life, counter, obj, task, hurt>>
  BY DEF PutUndo
<1>2. h[p].pc \in ActivePcs
  BY <1>1 DEF ActivePcs
<1>3. /\ h[p] \in PutRec /\ g \in Gens /\ g # 0 /\ BodyOk(h[p], o)
      /\ task[g] \in [Stripes -> TaskStates] /\ file[g] \in [Stripes -> FileStates]
      /\ TaskOk(h[p], o, task[g], file[g], g \in excused)
  BY <1>2, ActiveOk
<1>4. \A s \in Stripes : StripeOk(h[p], o, task[g], file[g], g \in excused, s)
  BY <1>3 DEF TaskOk
<1>5. CASE h[p].todo = {} /\ Refuse(p) /\ UNCHANGED <<file, excused, faults>>
  <2>1. h' = [h EXCEPT ![p] = NoPut] /\ failed' = failed \cup {g}
    BY <1>3, <1>5 DEF Refuse
  <2>2. o.mode = h[p].mode
    BY <1>3 DEF BodyOk
  <2>3. g \notin excused => \A s \in Stripes :
            /\ task[g][s] \in {"none", "joined"}
            /\ o.mode \in {"streamed", "single"} => file[g][s] = "none"
    BY <1>1, <1>4, <1>5, <2>2 DEF StripeOk
  <2> QED
    BY <1>1, <1>2, <1>5, <2>1, <2>3, Leaves
<1>6. ASSUME NEW s \in h[p].todo, h' = [h EXCEPT ![p].todo = @ \ {s}], UNCHANGED failed,
             \/ file' = [file EXCEPT ![g][s] = "none"] /\ UNCHANGED excused
             \/ excused' = excused \cup {g} /\ UNCHANGED file
      PROVE  Kept
  <2> DEFINE y == [h[p] EXCEPT !.todo = @ \ {s}]
  <2>1. h[p].todo \in SUBSET Stripes
    BY <1>3 DEF PutRec
  <2>2. h' = [h EXCEPT ![p] = y]
    BY <1>6
  <2>3. /\ y \in PutRec /\ y.pc = "undo" /\ y.gen = g /\ y.body = h[p].body
        /\ y.mode = h[p].mode /\ y.err = h[p].err /\ y.locs = h[p].locs
        /\ y.todo = h[p].todo \ {s}
        /\ y.chunk = h[p].chunk /\ y.recvd = h[p].recvd /\ y.buf = h[p].buf
        /\ y.filled = h[p].filled /\ y.next = h[p].next
    BY <1>1, <1>3, <2>1 DEF PutRec, ActivePcs
  <2> HIDE DEF y
  <2>4. BodyOk(y, o)
    <3>1. Tiled(y) = Tiled(h[p]) /\ (BodyEnded(y) <=> BodyEnded(h[p]))
      BY <2>3 DEF Tiled, BodyEnded
    <3>2. Cutting(h[p], o) => Cutting(y, o)
      BY <1>1, <2>3, <3>1 DEF Cutting
    <3> QED
      BY <1>1, <1>3, <2>3, <3>2 DEF BodyOk
  <2>5. task' = [task EXCEPT ![g] = task[g]]
    BY <1>1 DEF PutInv, PutTyped
  <2>6. CASE file' = [file EXCEPT ![g][s] = "none"] /\ UNCHANGED excused
    <3> DEFINE f1 == [file[g] EXCEPT ![s] = "none"]
    <3>1. file' = [file EXCEPT ![g] = f1] /\ f1 \in [Stripes -> FileStates]
      BY <1>3, <2>6 DEF FileStates
    <3>2. /\ \A z \in Stripes : f1[z] = IF z = s THEN "none" ELSE file[g][z]
      BY <1>3
    <3> HIDE DEF f1
    <3>3. ASSUME NEW z \in Stripes
          PROVE  StripeOk(y, o, task[g], f1, g \in excused', z)
      <4>1. StripeOk(h[p], o, task[g], file[g], g \in excused, z)
        BY <1>4
      <4>2. task[g][z] # "ok"
        BY <1>1, <4>1 DEF StripeOk
      <4> QED
        BY <1>1, <2>3, <2>6, <3>2, <4>1, <4>2 DEF StripeOk
    <3>4. TaskOk(y, o, task[g], f1, g \in excused')
      BY <2>3, <3>3 DEF TaskOk
    <3>5. \A z \in Stripes : f1[z] \in {file[g][z], "none"}
      BY <3>2
    <3>6. y \in PutRec /\ y.pc \in ActivePcs /\ y.gen = g /\ task[g] \in [Stripes -> TaskStates]
      BY <1>1, <1>2, <1>3, <2>3
    <3>7. UNCHANGED <<conf, life, counter, obj, failed, hurt>> /\ excused' = excused
      BY <1>1, <1>6, <2>6
    <3> QED
      BY ZenonT(40), <1>2, <2>2, <2>4, <2>5, <3>1, <3>4, <3>5, <3>6, <3>7, GoesOn
  <2>7. CASE excused' = excused \cup {g} /\ UNCHANGED file
    <3>1. file' = [file EXCEPT ![g] = file[g]]
      BY <2>7 DEF PutInv, PutTyped
    <3>2. g \in excused'
      BY <2>7
    <3>3. ASSUME NEW z \in Stripes
          PROVE  StripeOk(y, o, task[g], file[g], g \in excused', z)
      <4>1. StripeOk(h[p], o, task[g], file[g], g \in excused, z)
        BY <1>4
      <4> QED
        BY <1>1, <2>3, <3>2, <4>1 DEF StripeOk
    <3>4. TaskOk(y, o, task[g], file[g], g \in excused')
      BY <2>3, <3>3 DEF TaskOk
    <3>5. \A z \in Stripes : file[g][z] \in {file[g][z], "none"}
      OBVIOUS
    <3>6. /\ y \in PutRec /\ y.pc \in ActivePcs /\ y.gen = g
          /\ task[g] \in [Stripes -> TaskStates] /\ file[g] \in [Stripes -> FileStates]
      BY <1>1, <1>2, <1>3, <2>3
    <3>7. UNCHANGED <<conf, life, counter, obj, failed, hurt>> /\ excused' = excused \cup {g}
      BY <1>1, <1>6, <2>7
    <3> QED
      BY ZenonT(40), <1>2, <2>2, <2>4, <2>5, <3>1, <3>4, <3>5, <3>6, <3>7, GoesOn
  <2> QED
    BY <1>6, <2>6, <2>7
<1> QED
  BY <1>5, <1>6 DEF PutUndo

LEMMA DroppedKeeps ==
    ASSUME PutInv, NEW p \in Putters, PutDropped(p)
    PROVE  Kept
<1> DEFINE g == h[p].gen
           o == obj[g]
<1>1. /\ h[p].pc \in {"feed", "drain", "commit", "undo"} /\ excused' = excused \cup {g}
      /\ UNCHANGED <<conf, life, counter, obj, task, file, hurt>>
  BY DEF PutDropped
<1>2. h[p].pc \in ActivePcs
  BY <1>1 DEF ActivePcs
<1>3. /\ h[p] \in PutRec /\ g \in Gens /\ g # 0 /\ BodyOk(h[p], o)
      /\ task[g] \in [Stripes -> TaskStates] /\ file[g] \in [Stripes -> FileStates]
      /\ TaskOk(h[p], o, task[g], file[g], g \in excused)
  BY <1>2, ActiveOk
<1>4. CASE Refuse(p)
  <2>1. h' = [h EXCEPT ![p] = NoPut] /\ failed' = failed \cup {g}
    BY <1>3, <1>4 DEF Refuse
  <2> QED
    BY <1>1, <1>2, <2>1, Leaves
<1>5. CASE h[p].pc = "commit" /\ h' = [h EXCEPT ![p].pc = "orphan"] /\ UNCHANGED failed
  <2> DEFINE y == [h[p] EXCEPT !.pc = "orphan"]
  <2>1. h' = [h EXCEPT ![p] = y]
    BY <1>5
  <2>2. /\ y \in PutRec /\ y.pc = "orphan" /\ y.gen = g /\ y.body = h[p].body
        /\ y.mode = h[p].mode /\ y.err = h[p].err /\ y.locs = h[p].locs
        /\ y.chunk = h[p].chunk /\ y.recvd = h[p].recvd /\ y.buf = h[p].buf
        /\ y.filled = h[p].filled /\ y.next = h[p].next
    BY <1>3 DEF PutRec, ActivePcs
  <2> HIDE DEF y
  <2>3. BodyOk(y, o)
    <3>1. Tiled(y) = Tiled(h[p]) /\ (BodyEnded(y) <=> BodyEnded(h[p]))
      BY <2>2 DEF Tiled, BodyEnded
    <3>2. Cutting(h[p], o) => Cutting(y, o)
      BY <1>5, <2>2, <3>1 DEF Cutting
    <3> QED
      BY <1>3, <1>5, <2>2, <3>2 DEF BodyOk
  <2>4. TaskOk(y, o, task[g], file[g], g \in excused')
    <3> SUFFICES ASSUME NEW s \in Stripes
                 PROVE  StripeOk(y, o, task[g], file[g], g \in excused', s)
      BY <1>1 DEF TaskOk
    <3>1. StripeOk(h[p], o, task[g], file[g], g \in excused, s)
      BY <1>3 DEF TaskOk
    <3> QED
      BY <1>1, <1>5, <2>2, <3>1 DEF StripeOk
  <2>5. task' = [task EXCEPT ![g] = task[g]] /\ file' = [file EXCEPT ![g] = file[g]]
    BY <1>1 DEF PutInv, PutTyped
  <2>6. \A s \in Stripes : file[g][s] \in {file[g][s], "none"}
    OBVIOUS
  <2>7. /\ y \in PutRec /\ y.pc \in ActivePcs /\ y.gen = g
        /\ task[g] \in [Stripes -> TaskStates] /\ file[g] \in [Stripes -> FileStates]
    BY <1>3, <2>2 DEF ActivePcs
  <2>8. UNCHANGED <<conf, life, counter, obj, failed, hurt>> /\ excused' = excused \cup {g}
    BY <1>1, <1>5
  <2> QED
    BY ZenonT(40), <1>2, <2>1, <2>3, <2>4, <2>5, <2>6, <2>7, <2>8, GoesOn
<1> QED
  BY <1>4, <1>5 DEF PutDropped

-----------------------------------------------------------------------------
(* The steps that are not a handler's. *)

(* The parts of the invariant that the files and the stripe writes have no   *)
(* say in.                                                                   *)
LEMMA Unhandled ==
    ASSUME PutInv, UNCHANGED <<conf, counter, h, failed>>, meta' \in {0, meta}, meta' \notin retired',
           retired' \subseteq retired \cup ({meta} \ {0})
    PROVE  RoomInv' /\ LifeInv' /\ meta' \in 0 .. MaxGen /\ retired' \in SUBSET Gens
<1>1. RoomInv'
  BY DEF PutInv, RoomInv, Waiting
<1>2. /\ meta \in 0 .. MaxGen /\ (meta # 0 => meta \in Gens) /\ meta <= counter /\ 0 <= counter
      /\ 0 \in 0 .. MaxGen
  <2>1. meta \in 0 .. MaxGen /\ meta <= counter
    BY DEF PutInv, PutTyped, LifeInv
  <2>2. 0 <= counter /\ 0 \in 0 .. MaxGen
    BY SMTT(15), GenBounds DEF PutInv, PutTyped
  <2> QED
    BY <2>1, <2>2, GenBounds
<1>3. meta' \in 0 .. MaxGen /\ retired' \in SUBSET Gens /\ meta' <= counter'
  BY <1>2 DEF PutInv, PutTyped
<1>4. \A g \in retired' \cup failed' : g <= counter'
  BY <1>2 DEF PutInv, LifeInv
<1>5. ASSUME NEW p \in Putters
      PROVE  /\ IF h'[p].pc \in ActivePcs THEN h'[p].gen # 0 ELSE h'[p].gen = 0
             /\ h'[p].gen <= counter'
             /\ h'[p].gen # 0 =>
                   /\ h'[p].gen # meta' /\ h'[p].gen \notin retired' \cup failed'
                   /\ \A q \in Putters \ {p} : h'[q].gen # h'[p].gen
  BY <1>2 DEF PutInv, LifeInv
<1>6. LifeInv'
  BY <1>3, <1>4, <1>5 DEF LifeInv
<1> QED
  BY <1>1, <1>3, <1>6

(* Only what is current, and what is to be collected, changes. *)
LEMMA MetaGone ==
    ASSUME PutInv, UNCHANGED <<conf, counter, obj, task, file, h, ghosts>>,
           \/ UNCHANGED <<meta, retired>>
           \/ meta' = 0 /\ retired' \in {retired, retired \cup ({meta} \ {0})}
    PROVE  Kept
<1>1. UNCHANGED <<failed, excused, hurt>>
  BY DEF ghosts
<1>2. 0 \notin retired
  BY SMTT(15), GenBounds DEF PutInv, PutTyped
<1>3. /\ meta' \in {0, meta} /\ meta' \notin retired'
      /\ retired' \subseteq retired \cup ({meta} \ {0})
  BY <1>2 DEF PutInv, LifeInv
<1>4. RoomInv' /\ LifeInv' /\ meta' \in 0 .. MaxGen /\ retired' \in SUBSET Gens
  BY <1>1, <1>3, Unhandled
<1>5. PutTyped'
  BY <1>1, <1>4 DEF PutInv, PutTyped
<1>6. HandlersInv' /\ HurtInv' /\ FutureInv' /\ FailedInv'
  <2>1. HandlersInv'
    BY <1>1 DEF PutInv, HandlersInv
  <2>2. HurtInv' /\ FutureInv' /\ FailedInv'
    BY <1>1 DEF PutInv, HurtInv, FutureInv, FailedInv
  <2> QED
    BY <2>1, <2>2
<1>7. \A g \in Gens : (Closed(g) <=> Closed(g)')
  BY DEF Closed, StripesOf
<1>8. MetaInv'
  <2>1. CASE meta' = 0
    BY <2>1 DEF MetaInv
  <2>2. CASE meta' = meta
    <3>1. Closed(meta) => Closed(meta)'
      BY <2>2 DEF Closed, StripesOf
    <3>2. CommittedWhole => CommittedWhole'
      BY <1>1, <2>2 DEF CommittedWhole, StripesOf
    <3> QED
      BY <2>2, <3>1, <3>2 DEF PutInv, MetaInv
  <2> QED
    BY <1>3, <2>1, <2>2
<1>9. \A g \in Gens : Closed(g) => Frozen(g)
  BY <1>1, <1>7 DEF Frozen
<1> QED
  BY <1>4, <1>5, <1>6, <1>8, <1>9 DEF Kept, PutInv

(* The write of stripe s of generation g ends. *)
LEMMA StripeEnds ==
    ASSUME PutInv, NEW g \in Gens, NEW s \in Stripes, NEW out \in {"ok", "fail"}, NEW f1,
           task[g][s] = "run", task' = [task EXCEPT ![g][s] = out],
           file' = [file EXCEPT ![g][s] = f1], f1 \in {file[g][s], "good"},
           out = "ok" => f1 = "good",
           excused' = excused \/ excused' = excused \cup {g},
           out = "fail" => f1 = file[g][s] \/ g \in excused',
           UNCHANGED <<conf, life, counter, obj, h, failed, hurt>>
    PROVE  Kept
<1>1. /\ task \in [Gens -> [Stripes -> TaskStates]] /\ file \in [Gens -> [Stripes -> FileStates]]
      /\ excused \in SUBSET Gens
  BY DEF PutInv, PutTyped
<1>2. f1 \in FileStates /\ out \in TaskStates
  BY <1>1 DEF FileStates, TaskStates
<1>3. /\ task' \in [Gens -> [Stripes -> TaskStates]] /\ file' \in [Gens -> [Stripes -> FileStates]]
      /\ excused' \in SUBSET Gens /\ excused \subseteq excused'
      /\ \A k \in Gens \ {g} : k \in excused' => k \in excused
  BY <1>1, <1>2
<1>4. /\ \A k \in Gens \ {g} : task'[k] = task[k] /\ file'[k] = file[k]
      /\ \A z \in Stripes \ {s} : task'[g][z] = task[g][z] /\ file'[g][z] = file[g][z]
      /\ task'[g][s] = out /\ file'[g][s] = f1
  BY <1>1
<1>5. UNCHANGED <<meta, retired>>
  BY DEF life
<1>6. RoomInv' /\ LifeInv'
  BY <1>5, Unhandled DEF PutInv, LifeInv
<1>7. PutTyped'
  BY <1>3, <1>5 DEF PutInv, PutTyped
<1>8. ASSUME NEW k \in Gens, Closed(k)
      PROVE  k # g
  BY <1>8 DEF Closed
<1>9. HandlersInv'
  <2>1. ASSUME NEW p \in Putters, h[p].pc \in ActivePcs
        PROVE  LET k == h[p].gen
               IN  /\ BodyOk(h[p], obj[k])
                   /\ TaskOk(h[p], obj[k], task'[k], file'[k], k \in excused')
    <3> DEFINE k == h[p].gen
               o == obj[k]
    <3>1. /\ k \in Gens /\ BodyOk(h[p], o) /\ TaskOk(h[p], o, task[k], file[k], k \in excused)
      BY ZenonT(40), <2>1, ActiveOk
    <3>2. CASE k # g
      BY SMTT(40), <1>3, <1>4, <3>1, <3>2
    <3>3. CASE k = g
      <4>1. \A z \in Stripes : StripeOk(h[p], o, task[g], file[g], g \in excused, z)
        BY <3>1, <3>3 DEF TaskOk
      <4>2. StripeOk(h[p], o, task[g], file[g], g \in excused, s)
        BY <4>1
      <4>3. /\ h[p].pc \notin {"commit", "orphan", "undo"} /\ s \notin h[p].locs
            /\ ~(h[p].mode = "single" /\ h[p].err = TRUE)
            /\ s \in 0 .. Len(o.lens) - 1
        BY <4>2 DEF StripeOk
      <4>4. g \notin excused /\ h[p].mode \in {"streamed", "single"} => file[g][s] = "none"
        BY <4>2, <4>3 DEF StripeOk
      <4>5. StripeOk(h[p], o, task'[g], file'[g], g \in excused', s)
        <5>1. ~(g \in excused') => g \notin excused
          BY <1>3
        <5> HIDE DEF o
        <5>2. f1 # "none" /\ ~(g \in excused') /\ h[p].mode \in {"streamed", "single"} => out = "ok"
          BY <4>4, <5>1
        <5>3. out \notin {"none", "joined", "run"}
          OBVIOUS
        <5> QED
          BY <1>4, <4>3, <5>2, <5>3 DEF StripeOk
      <4>6. ASSUME NEW z \in Stripes \ {s}
            PROVE  StripeOk(h[p], o, task'[g], file'[g], g \in excused', z)
        <5>1. StripeOk(h[p], o, task[g], file[g], g \in excused, z)
          BY <4>1
        <5> QED
          BY <1>3, <1>4, <5>1 DEF StripeOk
      <4>7. h[p].pc # "orphan"
        BY <4>3
      <4> QED
        BY <3>1, <3>3, <4>5, <4>6, <4>7 DEF TaskOk
    <3> QED
      BY <3>2, <3>3
  <2> QED
    BY <2>1 DEF PutInv, HandlersInv
<1>10. MetaInv'
  <2>1. SUFFICES ASSUME meta # 0
                 PROVE  Closed(meta)' /\ CommittedWhole'
    BY <1>5 DEF MetaInv
  <2>2. Closed(meta) /\ CommittedWhole /\ meta \in Gens
    BY <2>1 DEF PutInv, MetaInv, Closed
  <2>3. task'[meta] = task[meta] /\ file'[meta] = file[meta] /\ meta # g
    BY <1>4, <1>8, <2>2
  <2>4. StripesOf(meta)' = StripesOf(meta)
    BY <1>5 DEF StripesOf
  <2> QED
    BY ZenonT(40), <1>5, <2>2, <2>3, <2>4 DEF Closed, CommittedWhole
<1>11. FailedInv'
  <2>1. ASSUME NEW k \in failed \ excused', obj[k].mode \in {"streamed", "single"}, NEW z \in Stripes
        PROVE  task'[k][z] \in {"none", "joined"} /\ file'[k][z] = "none"
    <3>1. k \in failed \ excused /\ k \in Gens
      BY <1>3 DEF PutInv, PutTyped
    <3>2. \A x \in Stripes : task[k][x] \in {"none", "joined"} /\ file[k][x] = "none"
      BY <2>1, <3>1 DEF PutInv, FailedInv
    <3>3. k # g
      BY <3>2
    <3> QED
      BY <1>4, <3>1, <3>2, <3>3
  <2> QED
    BY <2>1 DEF FailedInv
<1>12. HurtInv' /\ FutureInv'
  <2>1. ~(g > counter)
    BY DEF PutInv, FutureInv
  <2>2. \A k \in Gens, z \in Stripes : file'[k][z] \in {file[k][z], "good"}
    BY <1>4
  <2>3. HurtInv'
    BY <2>2 DEF PutInv, HurtInv
  <2>4. FutureInv'
    BY SMTT(40), <1>4, <2>1 DEF PutInv, FutureInv
  <2> QED
    BY <2>3, <2>4
<1>13. ASSUME NEW k \in Gens, Closed(k)
       PROVE  Frozen(k)
  <2>1. task'[k] = task[k] /\ file'[k] = file[k]
    BY <1>4, <1>8, <1>13
  <2>2. StripesOf(k)' = StripesOf(k)
    BY DEF StripesOf
  <2> QED
    BY <1>13, <2>1, <2>2 DEF Frozen, Closed
<1> QED
  BY ZenonT(40), <1>6, <1>7, <1>9, <1>10, <1>11, <1>12, <1>13 DEF Kept, PutInv

LEMMA StripeWriteKeeps ==
    ASSUME PutInv, NEW g \in Gens, NEW s \in Stripes, StripeWrite(g, s)
    PROVE  Kept
<1>1. /\ task[g][s] = "run" /\ task' = [task EXCEPT ![g][s] = "ok"]
      /\ file' = [file EXCEPT ![g][s] = "good"]
      /\ UNCHANGED <<conf, life, counter, obj, h, failed, hurt>> /\ excused' = excused
  BY DEF StripeWrite, Ends, ghosts
<1> QED
  BY <1>1, StripeEnds

LEMMA StripeFailsKeeps ==
    ASSUME PutInv, NEW g \in Gens, NEW s \in Stripes, StripeFails(g, s)
    PROVE  Kept
<1>1. /\ task[g][s] = "run" /\ task' = [task EXCEPT ![g][s] = "fail"]
      /\ UNCHANGED <<conf, life, counter, obj, h, failed, hurt>>
  BY DEF StripeFails, Ends
<1>2. CASE UNCHANGED <<file, excused>>
  <2>1. file' = [file EXCEPT ![g][s] = file[g][s]]
    BY <1>2 DEF PutInv, PutTyped
  <2> QED
    BY <1>1, <1>2, <2>1, StripeEnds
<1>3. CASE file' = [file EXCEPT ![g][s] = "good"] /\ excused' = excused \cup {g}
  <2>1. g \in excused'
    BY <1>3
  <2> QED
    BY <1>1, <1>3, <2>1, StripeEnds
<1> QED
  BY <1>2, <1>3 DEF StripeFails

(* The files of a generation no handler has are lost or damaged. *)
LEMMA FilesLost ==
    ASSUME PutInv, NEW g \in Gens, NEW f1 \in [Stripes -> FileStates],
           file' = [file EXCEPT ![g] = f1], \A p \in Putters : h[p].gen # g,
           \A s \in Stripes : f1[s] = "good" => file[g][s] = "good",
           \A s \in Stripes : f1[s] \in {file[g][s], "none"} \/ (g \in hurt' /\ file[g][s] # "none"),
           hurt' = hurt \/ hurt' = hurt \cup {g}, g = meta => g \in hurt',
           UNCHANGED <<conf, meta, counter, obj, task, h, failed, excused>>,
           meta' \notin retired', retired' \subseteq retired
    PROVE  Kept
<1>1. /\ file \in [Gens -> [Stripes -> FileStates]] /\ hurt \in SUBSET Gens
  BY DEF PutInv, PutTyped
<1>2. /\ file' \in [Gens -> [Stripes -> FileStates]] /\ file'[g] = f1
      /\ hurt' \in SUBSET Gens /\ hurt \subseteq hurt'
      /\ \A k \in Gens \ {g} : file'[k] = file[k]
  BY <1>1
<1>3. RoomInv' /\ LifeInv' /\ retired' \in SUBSET Gens
  BY Unhandled
<1>4. PutTyped'
  BY <1>2, <1>3 DEF PutInv, PutTyped
<1>5. HandlersInv'
  <2>1. ASSUME NEW p \in Putters, h[p].pc \in ActivePcs
        PROVE  file'[h[p].gen] = file[h[p].gen]
    BY <1>2, <2>1, ActiveOk
  <2> QED
    BY <2>1 DEF PutInv, HandlersInv
<1>6. \A k \in Gens : Closed(k) => Closed(k)'
  BY DEF Closed, StripesOf
<1>7. \A k \in Gens, s \in Stripes : file'[k][s] = "good" => file[k][s] = "good"
  BY <1>2
<1>8. MetaInv'
  <2>1. SUFFICES ASSUME meta # 0
                 PROVE  Closed(meta)' /\ CommittedWhole'
    BY DEF MetaInv
  <2>2. Closed(meta) /\ CommittedWhole /\ meta \in Gens
    BY <2>1 DEF PutInv, MetaInv, Closed
  <2>3. Closed(meta)'
    BY <2>2 DEF Closed, StripesOf
  <2>4. meta \in hurt' \/ (file'[meta] = file[meta] /\ (meta \in hurt => meta \in hurt'))
    BY <1>2, <2>2
  <2>5. StripesOf(meta)' = StripesOf(meta)
    BY DEF StripesOf
  <2>6. CommittedWhole'
    BY ZenonT(40), <2>2, <2>4, <2>5 DEF CommittedWhole
  <2> QED
    BY <2>3, <2>6
<1>9. ASSUME NEW k \in Gens, NEW s \in Stripes
      PROVE  /\ file[k][s] = "none" => file'[k][s] = "none"
             /\ file'[k][s] \in {file[k][s], "none"} \/ k \in hurt'
  BY <1>2
<1>10. FailedInv'
  <2>1. failed \subseteq Gens
    BY DEF PutInv, PutTyped
  <2> QED
    BY ZenonT(40), <1>9, <2>1 DEF PutInv, FailedInv
<1>11. HurtInv' /\ FutureInv'
  <2>1. HurtInv'
    BY <1>2, <1>9 DEF PutInv, HurtInv
  <2>2. FutureInv'
    BY ZenonT(40), <1>9 DEF PutInv, FutureInv
  <2> QED
    BY <2>1, <2>2
<1>12. \A k \in Gens : Closed(k) => Frozen(k)
  BY <1>2, <1>6, <1>7 DEF Frozen
<1> QED
  BY ZenonT(40), <1>3, <1>4, <1>5, <1>8, <1>10, <1>11, <1>12 DEF Kept, PutInv

LEMMA DamageKeeps ==
    ASSUME PutInv, NEW g \in Gens, NEW s \in Stripes, Damage(g, s)
    PROVE  Kept
<1>1. /\ meta = g /\ file[g][s] = "good" /\ hurt' = hurt \cup {g}
      /\ UNCHANGED <<conf, life, counter, obj, task, h, failed, excused>>
  BY DEF Damage
<1>2. PICK f \in {"none", "bad", "short"} : file' = [file EXCEPT ![g][s] = f]
  BY DEF Damage
<1> DEFINE f1 == [file[g] EXCEPT ![s] = f]
<1>3. file \in [Gens -> [Stripes -> FileStates]]
  BY DEF PutInv, PutTyped
<1>4. /\ f1 \in [Stripes -> FileStates] /\ file' = [file EXCEPT ![g] = f1]
      /\ f1[s] = f /\ \A z \in Stripes \ {s} : f1[z] = file[g][z]
  BY <1>2, <1>3 DEF FileStates
<1> HIDE DEF f1
<1>5. \A p \in Putters : h[p].gen # g
  <2>1. g # 0
    BY SMTT(15), GenBounds
  <2> QED
    BY <1>1, <2>1 DEF PutInv, LifeInv
<1>6. \A z \in Stripes : /\ f1[z] = "good" => file[g][z] = "good"
                         /\ f1[z] \in {file[g][z], "none"} \/ (g \in hurt' /\ file[g][z] # "none")
  BY ZenonT(40), <1>1, <1>4
<1>7. UNCHANGED <<conf, meta, retired, counter, obj, task, h, failed, excused>>
  BY <1>1 DEF life
<1>8. meta' \notin retired' /\ retired' \subseteq retired /\ g \in hurt'
  BY ZenonT(40), <1>1, <1>7 DEF PutInv, LifeInv
<1> QED
  BY ZenonT(40), <1>1, <1>4, <1>5, <1>6, <1>7, <1>8, FilesLost

LEMMA CollectKeeps ==
    ASSUME PutInv, NEW g \in Gens, Collect(g)
    PROVE  Kept
<1> DEFINE f1 == [s \in Stripes |-> "none"]
<1>1. /\ g \in retired /\ retired' = retired \ {g} /\ file' = [file EXCEPT ![g] = f1]
      /\ UNCHANGED <<conf, meta, counter, obj, task, h, failed, excused>> /\ hurt' = hurt
  BY DEF Collect, ghosts
<1>2. f1 \in [Stripes -> FileStates] /\ \A s \in Stripes : f1[s] = "none"
  BY DEF FileStates
<1> HIDE DEF f1
<1>3. g # 0
  BY SMTT(15), GenBounds
<1>4. g # meta /\ meta \notin retired /\ \A p \in Putters : h[p].gen # g
  BY <1>1, <1>3 DEF PutInv, LifeInv
<1>5. /\ meta' \notin retired' /\ retired' \subseteq retired
      /\ \A s \in Stripes : f1[s] = "good" => file[g][s] = "good"
      /\ \A s \in Stripes : f1[s] \in {file[g][s], "none"}
  BY <1>1, <1>2, <1>4
<1> QED
  BY ZenonT(40), <1>1, <1>2, <1>4, <1>5, FilesLost

LEMMA DeleteKeeps == PutInv /\ (Delete \/ TtlPasses) => Kept
<1> SUFFICES ASSUME PutInv, Delete \/ TtlPasses
             PROVE  Kept
  OBVIOUS
<1>1. /\ UNCHANGED <<conf, counter, obj, task, file, h, ghosts>>
      /\ \/ UNCHANGED <<meta, retired>>
         \/ meta' = 0 /\ retired' = retired \cup ({meta} \ {0})
  <2>1. CASE Delete
    BY <2>1 DEF Delete, Retire
  <2>2. CASE TtlPasses
    BY <2>2 DEF TtlPasses
  <2> QED
    BY ZenonT(40), <2>1, <2>2
<1> QED
  BY <1>1, MetaGone

(* Every step of a PUT, of a stripe write and of the object's life keeps the *)
(* invariant, and leaves closed generations as they are but for lost and     *)
(* damaged files.                                                            *)
LEMMA PutNextKeeps ==
    ASSUME PutInv, PutNext \/ UNCHANGED putVars
    PROVE  Kept
<1>1. ASSUME NEW p \in Putters, PutBegin(p) \/ PutStep(p) \/ PutCommitFails(p) \/ PutDropped(p)
      PROVE  Kept
  <2>1. CASE PutStep(p)
    BY ZenonT(40), <2>1, GateKeeps, PrepareKeeps, ReceiveKeeps, DispatchKeeps, AbsorbKeeps, EndedKeeps,
       JoinedKeeps, CommitKeeps, UndoKeeps DEF PutStep
  <2> QED
    BY ZenonT(40), <1>1, <2>1, BeginKeeps, CommitFailsKeeps, DroppedKeeps
<1>2. ASSUME NEW g \in Gens, NEW s \in Stripes,
             StripeWrite(g, s) \/ StripeFails(g, s) \/ Damage(g, s)
      PROVE  Kept
  BY <1>2, StripeWriteKeeps, StripeFailsKeeps, DamageKeeps
<1>3. ASSUME NEW g \in Gens, Collect(g)
      PROVE  Kept
  BY <1>3, CollectKeeps
<1>4. CASE Delete \/ TtlPasses
  BY <1>4, DeleteKeeps
<1>5. CASE UNCHANGED putVars
  BY <1>5, MetaGone DEF putVars, life
<1> QED
  BY ZenonT(40), <1>1, <1>2, <1>3, <1>4, <1>5 DEF PutNext

LEMMA PutInitOk == Init => PutInv
<1> SUFFICES ASSUME Init
             PROVE  PutInv
  OBVIOUS
<1>1. 0 \in 0 .. MaxGen /\ <<>> \in Seq(Nat) /\ 0 \in Nat /\ 0 <= 0 /\ 0 \notin Gens
  BY SMTT(15), GenBounds
<1>2. \A p \in Putters : h[p] = NoPut
  BY DEF Init
<1>3. PutTyped
  <2>1. NoObj \in ObjRec
    BY <1>1 DEF NoObj, ObjRec
  <2>2. "none" \in TaskStates /\ "none" \in FileStates
    BY DEF TaskStates, FileStates
  <2> QED
    BY <1>1, <2>1, <2>2, NoPutTyped DEF Init, PutTyped
<1>4. RoomInv
  <2>1. Waiting = {}
    BY <1>2, NoPutTyped DEF Waiting, WaitingPcs
  <2>2. Cardinality(Waiting) = 0
    BY ZenonT(40), <2>1, FS_EmptySet
  <2>3. conf.gens \in Nat /\ counter = 0
    BY SMTT(15), StripedPutAssumption, <1>3 DEF Init
  <2> QED
    BY SMTT(15), <2>2, <2>3 DEF RoomInv
<1>5. LifeInv
  BY <1>1, <1>2, NoPutTyped, PcSets DEF Init, LifeInv, ActivePcs
<1>6. HandlersInv
  BY <1>2, NoPutTyped DEF HandlersInv, WaitingPcs, ActivePcs
<1>7. MetaInv /\ FailedInv
  BY DEF Init, MetaInv, FailedInv
<1>8. HurtInv /\ FutureInv
  BY DEF Init, HurtInv, FutureInv
<1> QED
  BY ZenonT(40), <1>3, <1>4, <1>5, <1>6, <1>7, <1>8 DEF PutInv

-----------------------------------------------------------------------------
(* The invariant of the GET side. *)

Kinds == {"get", "ptr", "placed", "stream", "rdma", "subset"}
Contents == FileStates \cup {"err"}
Pieces == Stripes \X Nat
Results == UNION {[D -> Contents] : D \in SUBSET Pieces}
Events == [rd: Pieces, c: Contents \cup {"fail"}, pos: Nat]
ReadRec == [pc: {"idle", "read", "done"}, kind: Kinds \cup {"none"}, at: Nodes \cup {"none"},
            desc: 0 .. MaxGen, gen: 0 .. MaxGen, want: SUBSET Pieces, res: Results,
            sent: SUBSET Events, out: {"none", "ok", "miss", "error"}]

(* Verifies and Handled for a reader's record x, and the object o it reads   *)
(* under the configuration cf.                                               *)
Checked(x, cf, o, s) ==
    /\ o.mode # "single"
    /\ cf.verify[IF x.kind # "placed" THEN x.at
                 ELSE IF o.mode \in {"streamed", "bytes"} THEN Owner[s] ELSE o.at]
Given(x) == {e.rd : e \in x.sent}

(* What the request is about; *)
WantOk(x, o) ==
    /\ x.at \in Nodes /\ x.kind \in Kinds /\ x.desc \in {0, x.gen}
    /\ x.kind \notin Subranged => x.want = {<<s, 1>> : s \in 0 .. Len(o.lens) - 1}
    /\ \A rd \in x.want : rd[1] \in 0 .. Len(o.lens) - 1
(* what a read has found: anything but the bytes stored is the device's      *)
(* doing, and the file f is not good again after that;                       *)
FoundOk(x, f, dam) ==
    /\ DOMAIN x.res \subseteq x.want
    /\ \A rd \in DOMAIN x.res :
        /\ x.res[rd] \in {"bad", "short"} => dam
        /\ x.res[rd] \in {"none", "bad", "short"} => f[rd[1]] # "good"
(* a piece that was handed on is what was read, in its place, and is good or *)
(* unverified; a verified stripe is handed on in one go;                     *)
PieceOk(x, cf, o, dam, e) ==
    IF e.c = "fail" THEN x.kind \in Subranged
    ELSE /\ e.rd \in DOMAIN x.res /\ e.c = x.res[e.rd]
         /\ e.c = "good" \/ (dam /\ ~Checked(x, cf, o, e.rd[1]))
         /\ IF x.kind \in Subranged
            THEN Checked(x, cf, o, e.rd[1]) =>
                    \A rd \in x.want : rd[1] = e.rd[1] => rd \in Given(x)
            ELSE e.pos = e.rd[1]
SentOk(x, cf, o, dam) ==
    /\ \A e \in x.sent : PieceOk(x, cf, o, dam, e)
    /\ x.pc = "read" => x.out = "none"
    /\ x.out = "ok" => Given(x) = x.want
ReadOk(x, cf, o, f, dam) == WantOk(x, o) /\ FoundOk(x, f, dam) /\ SentOk(x, cf, o, dam)

(* A reader has one generation, closed, or none yet. *)
NoneYet(x) == x.sent = {} /\ DOMAIN x.res = {} /\ x.out # "ok" /\ x.pc # "read"
GetInv ==
    /\ r \in [Readers -> ReadRec]
    /\ \A q \in Readers :
        /\ r[q].pc = "idle" => r[q].gen = 0 /\ r[q].out = "none"
        /\ IF r[q].gen = 0 THEN NoneYet(r[q])
           ELSE /\ Closed(r[q].gen)
                /\ ReadOk(r[q], conf, obj[r[q].gen], file[r[q].gen], r[q].gen \in hurt)

LEMMA PairFirst == \A s, i : <<s, i>>[1] = s
BY SMTT(15)

LEMMA NoReadOk == NoRead \in ReadRec /\ NoRead.gen = 0 /\ NoRead.out = "none" /\ NoneYet(NoRead)
<1>1. 0 \in 0 .. MaxGen
  BY SMTT(15), GenBounds
<1> DEFINE empty == [rd \in {} |-> "none"]
<1>2. empty \in [{} -> Contents] /\ DOMAIN empty = {}
  OBVIOUS
<1>3. empty \in Results
  BY <1>2 DEF Results
<1> HIDE DEF empty
<1>4. NoRead = [pc |-> "idle", kind |-> "none", at |-> "none", desc |-> 0, gen |-> 0,
                want |-> {}, res |-> empty, sent |-> {}, out |-> "none"]
  BY DEF NoRead, empty
<1> QED
  BY ZenonT(40), <1>1, <1>2, <1>3, <1>4 DEF ReadRec, NoneYet

(* Files may be lost and generations damaged under a reader. *)
LEMMA PutKeepsRead ==
    ASSUME PutInv, GetInv, Kept, r' = r
    PROVE  GetInv'
<1> SUFFICES ASSUME NEW q \in Readers, r[q].gen # 0
             PROVE  /\ Closed(r[q].gen)'
                    /\ ReadOk(r[q], conf', obj'[r[q].gen], file'[r[q].gen], r[q].gen \in hurt')
  BY DEF GetInv
<1>1. /\ r[q] \in ReadRec /\ Closed(r[q].gen)
      /\ ReadOk(r[q], conf, obj[r[q].gen], file[r[q].gen], r[q].gen \in hurt)
  BY DEF GetInv
<1>2. PICK g \in Gens : g = r[q].gen
  BY <1>1 DEF Closed
<1>3. Frozen(g)
  BY <1>1, <1>2 DEF Kept
<1>4. Closed(r[q].gen)'
  BY <1>2, <1>3 DEF Frozen, Closed, StripesOf
<1>5. r[q].want \subseteq Pieces
  BY <1>1 DEF ReadRec
<1>6. /\ conf' = conf /\ obj'[g] = obj[g] /\ (g \in hurt => g \in hurt')
      /\ \A s \in Stripes : file'[g][s] = "good" => file[g][s] = "good"
  BY <1>3 DEF Frozen
<1>7. ReadOk(r[q], conf, obj[g], file[g], g \in hurt)
  BY <1>1, <1>2
<1>8. ReadOk(r[q], conf, obj[g], file'[g], g \in hurt')
  <2>1. \A rd \in r[q].want : rd[1] \in Stripes
    BY SMTT(15), <1>5 DEF Pieces
  <2>2. FoundOk(r[q], file'[g], g \in hurt')
    BY ZenonT(40), <1>6, <1>7, <2>1 DEF ReadOk, FoundOk
  <2>3. SentOk(r[q], conf, obj[g], g \in hurt')
    BY ZenonT(40), <1>6, <1>7 DEF ReadOk, SentOk, PieceOk
  <2> QED
    BY ZenonT(40), <1>7, <2>2, <2>3 DEF ReadOk
<1> QED
  BY ZenonT(40), <1>2, <1>4, <1>6, <1>8

(* A step of reader q, which leaves it as y, and the metadata alone but for  *)
(* dropping or retiring it.                                                  *)
LEMMA ReaderMoves ==
    ASSUME PutInv, GetInv, NEW q \in Readers, NEW y \in ReadRec, r' = [r EXCEPT ![q] = y],
           UNCHANGED files,
           \/ UNCHANGED <<meta, retired>>
           \/ meta' = 0 /\ retired' \in {retired, retired \cup ({meta} \ {0})},
           y.pc = "idle" => y.gen = 0 /\ y.out = "none",
           y.gen = 0 => NoneYet(y),
           y.gen # 0 => Closed(y.gen) /\ ReadOk(y, conf, obj[y.gen], file[y.gen], y.gen \in hurt)
    PROVE  PutInv' /\ GetInv'
<1>1. UNCHANGED <<conf, counter, obj, task, file, h, ghosts>>
  BY DEF files
<1>2. PutInv'
  BY <1>1, MetaGone DEF Kept
<1>3. hurt' = hurt
  BY <1>1 DEF ghosts
<1>4. r'[q] = y /\ (\A k \in Readers \ {q} : r'[k] = r[k]) /\ r' \in [Readers -> ReadRec]
  BY DEF GetInv
<1>5. \A k \in Readers : r[k].gen # 0 =>
        Closed(r[k].gen) /\ ReadOk(r[k], conf, obj[r[k].gen], file[r[k].gen], r[k].gen \in hurt)
  BY DEF GetInv
<1>6. ASSUME NEW k \in Readers, r'[k].gen # 0
      PROVE  /\ Closed(r[k].gen)'
             /\ ReadOk(r'[k], conf', obj'[r'[k].gen], file'[r'[k].gen], r'[k].gen \in hurt')
  <2>1. PICK x \in ReadRec : x = r'[k] /\ (k = q => x = y) /\ (k # q => x = r[k])
    BY <1>4
  <2>2. Closed(x.gen) /\ ReadOk(x, conf, obj[x.gen], file[x.gen], x.gen \in hurt)
    BY <1>5, <1>6, <2>1
  <2>3. Closed(r[k].gen)'
    <3>1. PICK g \in Gens : g = x.gen
      BY <2>2 DEF Closed
    <3> QED
      BY ZenonT(40), <1>1, <2>1, <2>2, <3>1 DEF Closed, StripesOf
  <2>4. ReadOk(x, conf', obj'[x.gen], file'[x.gen], x.gen \in hurt')
    BY <1>1, <1>3, <2>2
  <2> QED
    BY <2>1, <2>3, <2>4
<1>7. \A k \in Readers : /\ r'[k].pc = "idle" => r'[k].gen = 0 /\ r'[k].out = "none"
                         /\ r'[k].gen = 0 => NoneYet(r'[k])
  BY <1>4 DEF GetInv
<1>8. GetInv'
  BY <1>4, <1>6, <1>7 DEF GetInv
<1> QED
  BY <1>2, <1>8

(* What readers do to the metadata. *)
Touch ==
    \/ UNCHANGED <<meta, retired>>
    \/ meta' = 0 /\ retired' \in {retired, retired \cup ({meta} \ {0})}

LEMMA Touches ==
    /\ UNCHANGED life => Touch
    /\ PurgeExpired => Touch
    /\ \A g : DropMatching(g) => Touch
<1>1. UNCHANGED life => Touch
  BY DEF life, Touch
<1>2. PurgeExpired => Touch
  BY <1>1 DEF PurgeExpired, Retire, Touch
<1>3. \A g : DropMatching(g) => Touch
  BY <1>1 DEF DropMatching, Touch
<1> QED
  BY <1>1, <1>2, <1>3

(* What the invariant says of a reader under way. *)
LEMMA ReaderOk ==
    ASSUME PutInv, GetInv, NEW q \in Readers, r[q].gen # 0
    PROVE  LET x == r[q]
               o == obj[x.gen]
           IN  /\ x \in ReadRec /\ x.gen \in Gens /\ Closed(x.gen)
               /\ WantOk(x, o) /\ FoundOk(x, file[x.gen], x.gen \in hurt)
               /\ SentOk(x, conf, o, x.gen \in hurt)
               /\ StripesOf(x.gen) = 0 .. Len(o.lens) - 1 /\ StripesOf(x.gen) \subseteq Stripes
               /\ \A s : Verifies(q, s) <=> Checked(x, conf, o, s)
<1>1. r[q] \in ReadRec /\ Closed(r[q].gen)
      /\ ReadOk(r[q], conf, obj[r[q].gen], file[r[q].gen], r[q].gen \in hurt)
  BY DEF GetInv
<1>2. \A s : Verifies(q, s) <=> Checked(r[q], conf, obj[r[q].gen], s)
  BY DEF Verifies, Checked, Reader, NodeOf
<1> QED
  BY <1>1, <1>2 DEF ReadOk, Closed, StripesOf

LEMMA ReadingHas ==
    ASSUME GetInv, NEW q \in Readers, r[q].pc = "read"
    PROVE  r[q].gen # 0
BY DEF GetInv, NoneYet

LEMMA LookupKeeps ==
    ASSUME PutInv, GetInv, NEW q \in Readers, Lookup(q)
    PROVE  PutInv' /\ GetInv'
<1>1. r[q].pc = "idle" /\ UNCHANGED files /\ Touch
  BY Touches DEF Lookup
<1>2. r[q] \in ReadRec /\ r[q].gen = 0 /\ r[q].out = "none" /\ NoneYet(r[q])
  BY <1>1 DEF GetInv
<1>3. r' = [r EXCEPT ![q] = r[q]] \/ r' = [r EXCEPT ![q].desc = meta]
  BY DEF Lookup, GetInv
<1>4. CASE r' = [r EXCEPT ![q] = r[q]]
  BY <1>1, <1>2, <1>4, ReaderMoves DEF Touch
<1>5. CASE r' = [r EXCEPT ![q].desc = meta]
  <2> DEFINE y == [r[q] EXCEPT !.desc = meta]
  <2>1. r' = [r EXCEPT ![q] = y]
    BY <1>5
  <2>2. meta \in 0 .. MaxGen
    BY DEF PutInv, PutTyped
  <2>3. /\ y \in ReadRec /\ y.gen = 0 /\ y.out = "none" /\ y.sent = r[q].sent
        /\ y.res = r[q].res /\ y.pc = r[q].pc
    BY <1>2, <2>2 DEF ReadRec
  <2> HIDE DEF y
  <2>4. NoneYet(y)
    BY <1>2, <2>3 DEF NoneYet
  <2> QED
    BY ZenonT(40), <1>1, <2>1, <2>3, <2>4, ReaderMoves DEF Touch
<1> QED
  BY <1>3, <1>4, <1>5

LEMMA BeginReadKeeps ==
    ASSUME PutInv, GetInv, NEW q \in Readers, GetBegin(q)
    PROVE  PutInv' /\ GetInv'
<1>1. r[q].pc = "idle" /\ meta # 0 /\ UNCHANGED files /\ Touch
  BY Touches DEF GetBegin
<1>2. r[q] \in ReadRec /\ r[q].gen = 0 /\ r[q].out = "none" /\ NoneYet(r[q])
  BY <1>1 DEF GetInv
<1>3. CASE r' = [r EXCEPT ![q].pc = "done", ![q].out = "miss"]
  <2> DEFINE y == [r[q] EXCEPT !.pc = "done", !.out = "miss"]
  <2>1. r' = [r EXCEPT ![q] = y]
    BY <1>3
  <2>2. /\ y \in ReadRec /\ y.gen = 0 /\ y.out = "miss" /\ y.pc = "done"
        /\ y.sent = r[q].sent /\ y.res = r[q].res
    BY <1>2 DEF ReadRec
  <2> HIDE DEF y
  <2>3. NoneYet(y)
    BY <1>2, <2>2 DEF NoneYet
  <2> QED
    BY ZenonT(40), <1>1, <2>1, <2>2, <2>3, ReaderMoves DEF Touch
<1>4. ASSUME NEW kind \in conf.kinds, NEW n \in Nodes, r[q].desc = 0 \/ r[q].desc = meta,
             r' = [r EXCEPT ![q].pc = "read", ![q].kind = kind, ![q].at = n, ![q].gen = meta,
                            ![q].want = ReadsOf(kind, meta, Share(kind, meta, n))]
      PROVE  PutInv' /\ GetInv'
  <2> DEFINE w == ReadsOf(kind, meta, Share(kind, meta, n))
             y == [r[q] EXCEPT !.pc = "read", !.kind = kind, !.at = n, !.gen = meta, !.want = w]
             o == obj[meta]
  <2>1. r' = [r EXCEPT ![q] = y]
    BY <1>4
  <2>2. meta \in 0 .. MaxGen /\ meta \in Gens /\ Closed(meta) /\ kind \in Kinds
    <3>1. kind \in Kinds
      BY StripedReadAssumption DEF PutInv, PutTyped, Kinds
    <3> QED
      BY <1>1, <3>1 DEF PutInv, PutTyped, MetaInv, Closed
  <2>3. StripesOf(meta) = 0 .. Len(o.lens) - 1 /\ StripesOf(meta) \subseteq Stripes
        /\ o.lens \in Seq(Nat)
    BY <2>2 DEF StripesOf, Closed, PutInv, PutTyped, ObjRec
  <2>4. /\ Share(kind, meta, n) \subseteq StripesOf(meta)
        /\ kind \notin Subranged => Share(kind, meta, n) = StripesOf(meta)
    BY DEF Share, Subranged
  <2>5. kind \notin Subranged => w = {<<s, 1>> : s \in StripesOf(meta)}
    BY <2>4 DEF ReadsOf
  <2>6. \A rd \in w : \E s \in StripesOf(meta), i \in Nat : rd = <<s, i>>
    <3>1. \A m : 1 .. m \subseteq Nat
      BY SMTT(15)
    <3>2. 1 \in Nat
      BY SMTT(15)
    <3> QED
      BY <2>4, <3>1, <3>2 DEF ReadsOf
  <2>7. w \subseteq Pieces /\ \A rd \in w : rd[1] \in StripesOf(meta)
    <3>1. \A s \in StripesOf(meta), i \in Nat : <<s, i>> \in Pieces /\ <<s, i>>[1] = s
      BY SMTT(15), <2>3 DEF Pieces
    <3> QED
      BY ZenonT(40), <2>6, <3>1
  <2>8. /\ y \in ReadRec /\ y.gen = meta /\ y.out = "none" /\ y.pc = "read" /\ y.kind = kind
        /\ y.at = n /\ y.desc = r[q].desc /\ y.want = w
        /\ y.sent = r[q].sent /\ y.res = r[q].res
    BY <1>2, <2>2, <2>7 DEF ReadRec
  <2> HIDE DEF y, w
  <2>9. WantOk(y, o)
    BY ZenonT(40), <1>4, <2>2, <2>3, <2>5, <2>7, <2>8 DEF WantOk
  <2>10. y.sent = {} /\ DOMAIN y.res = {}
    BY <1>2, <2>8 DEF NoneYet
  <2>11. FoundOk(y, file[meta], meta \in hurt) /\ SentOk(y, conf, o, meta \in hurt)
    BY <2>8, <2>10 DEF FoundOk, SentOk
  <2> QED
    BY ZenonT(40), <1>1, <2>1, <2>2, <2>8, <2>9, <2>11, ReaderMoves DEF Touch, ReadOk
<1>5. CASE ~Live \/ (r[q].desc # 0 /\ r[q].desc # meta)
  BY <1>3, <1>5 DEF GetBegin
<1>6. CASE ~(~Live \/ (r[q].desc # 0 /\ r[q].desc # meta))
  BY <1>4, <1>6 DEF GetBegin
<1> QED
  BY <1>5, <1>6

(* A step of a reader that goes on with the request it has. *)
LEMMA ReaderGoesOn ==
    ASSUME PutInv, GetInv, NEW q \in Readers, NEW y \in ReadRec, r[q].gen # 0,
           r' = [r EXCEPT ![q] = y], UNCHANGED files, Touch,
           y.pc # "idle", y.gen = r[q].gen, y.at = r[q].at, y.kind = r[q].kind,
           y.desc = r[q].desc, y.want = r[q].want,
           FoundOk(y, file[r[q].gen], r[q].gen \in hurt),
           SentOk(y, conf, obj[r[q].gen], r[q].gen \in hurt)
    PROVE  PutInv' /\ GetInv'
<1>1. Closed(r[q].gen) /\ WantOk(r[q], obj[r[q].gen])
  BY ReaderOk
<1>2. WantOk(y, obj[r[q].gen])
  BY <1>1 DEF WantOk
<1>3. ReadOk(y, conf, obj[y.gen], file[y.gen], y.gen \in hurt) /\ Closed(y.gen)
  BY <1>1, <1>2 DEF ReadOk
<1> QED
  BY <1>3, ReaderMoves DEF Touch

LEMMA ReadOneKeeps ==
    ASSUME PutInv, GetInv, NEW q \in Readers, NEW rd \in r[q].want, ReadOne(q, rd)
    PROVE  PutInv' /\ GetInv'
<1> DEFINE x == r[q]
           g == x.gen
           o == obj[g]
<1>1. /\ x.pc = "read" /\ rd \notin DOMAIN x.res /\ UNCHANGED files /\ Touch
  BY Touches DEF ReadOne
<1>2. PICK c \in {"err", Content(x.kind, g, rd)} :
        r' = [r EXCEPT ![q].res = [d \in DOMAIN @ \cup {rd} |-> IF d = rd THEN c ELSE @[d]]]
  BY DEF ReadOne
<1>3. g # 0
  BY <1>1, ReadingHas
<1>4. /\ x \in ReadRec /\ g \in Gens /\ FoundOk(x, file[g], g \in hurt)
      /\ SentOk(x, conf, o, g \in hurt)
  BY <1>3, ReaderOk
<1>5. x.want \in SUBSET Pieces /\ x.res \in Results
  BY <1>4 DEF ReadRec
<1>6. DOMAIN x.res \in SUBSET Pieces /\ x.res \in [DOMAIN x.res -> Contents]
  BY <1>5 DEF Results
<1>7. rd \in Pieces /\ rd[1] \in Stripes
  BY SMTT(15), <1>5 DEF Pieces
<1>8. file[g][rd[1]] \in FileStates /\ (file[g][rd[1]] \in {"bad", "short"} => g \in hurt)
  BY <1>4, <1>7 DEF PutInv, PutTyped, HurtInv
<1>9. /\ c \in Contents /\ (c \in {"bad", "short"} => g \in hurt)
      /\ c \in {"none", "bad", "short"} => file[g][rd[1]] # "good"
  BY <1>8 DEF Content, Contents, FileStates
<1> DEFINE R == [d \in DOMAIN x.res \cup {rd} |-> IF d = rd THEN c ELSE x.res[d]]
           y == [x EXCEPT !.res = R]
<1>10. r' = [r EXCEPT ![q] = y]
  BY <1>2
<1>11. /\ R \in [DOMAIN x.res \cup {rd} -> Contents] /\ DOMAIN R = DOMAIN x.res \cup {rd}
       /\ R[rd] = c /\ \A d \in DOMAIN x.res : R[d] = x.res[d]
  BY <1>1, <1>6, <1>9
<1> HIDE DEF R
<1>12. R \in Results
  <2>1. DOMAIN x.res \cup {rd} \in SUBSET Pieces
    BY <1>6, <1>7
  <2> QED
    BY <1>11, <2>1 DEF Results
<1>13. /\ y \in ReadRec /\ y.pc = "read" /\ y.gen = g /\ y.at = x.at /\ y.kind = x.kind
       /\ y.desc = x.desc /\ y.want = x.want /\ y.sent = x.sent /\ y.out = x.out /\ y.res = R
  BY <1>1, <1>4, <1>12 DEF ReadRec
<1> HIDE DEF y
<1>14. FoundOk(y, file[g], g \in hurt)
  BY ZenonT(40), <1>4, <1>9, <1>11, <1>13 DEF FoundOk
<1>15. SentOk(y, conf, o, g \in hurt)
  <2>1. Given(y) = Given(x) /\ \A s : Checked(y, conf, o, s) <=> Checked(x, conf, o, s)
    BY <1>13 DEF Given, Checked
  <2>2. \A e \in x.sent : PieceOk(x, conf, o, g \in hurt, e) => PieceOk(y, conf, o, g \in hurt, e)
    BY <1>11, <1>13, <2>1 DEF PieceOk
  <2> QED
    BY <1>1, <1>4, <1>13, <2>1, <2>2 DEF SentOk
<1> QED
  BY ZenonT(40), <1>1, <1>3, <1>10, <1>13, <1>14, <1>15, ReaderGoesOn

(* What passes as good: everything but the damage of an unverified stripe.   *)
LEMMA VerdictOk ==
    ASSUME PutInv, GetInv, NEW q \in Readers, r[q].gen # 0, NEW s, Verdict(q, s) = "ok",
           NEW rd \in DOMAIN r[q].res, rd[1] = s
    PROVE  /\ r[q].res[rd] \in Contents
           /\ r[q].res[rd] = "good" \/ (r[q].gen \in hurt /\ ~Verifies(q, s))
<1> DEFINE found == {r[q].res[z] : z \in {x \in DOMAIN r[q].res : x[1] = s}}
           unverified == Verifies(q, s) /\ (~HasSum(r[q].gen, s) \/ found # {"good"})
<1>1. r[q] \in ReadRec /\ FoundOk(r[q], file[r[q].gen], r[q].gen \in hurt)
  BY ReaderOk
<1>2. r[q].res[rd] \in Contents
  BY SMTT(40), <1>1 DEF ReadRec, Results
<1>3. r[q].res[rd] \in found
  OBVIOUS
<1>4. "err" \notin found /\ "none" \notin found /\ ~unverified
  <2> HIDE DEF found
  <2> QED
    BY DEF Verdict, found
<1>5. Verifies(q, s) => r[q].res[rd] = "good"
  <2> HIDE DEF found
  <2> QED
    BY <1>3, <1>4
<1>6. r[q].res[rd] \in {"good", "bad", "short"}
  BY <1>2, <1>3, <1>4 DEF Contents, FileStates
<1> QED
  BY <1>1, <1>2, <1>5, <1>6 DEF FoundOk

(* A stripe that cannot be served: its file is gone or not what was stored,  *)
(* or a checksum is asked for that there is none of.                         *)
LEMMA VerdictMissing ==
    ASSUME PutInv, GetInv, NEW q \in Readers, r[q].gen # 0, r[q].kind # "placed",
           NEW s \in StripesOf(r[q].gen), Verdict(q, s) = "missing",
           \E rd \in DOMAIN r[q].res : rd[1] = s
    PROVE  Spoilt(r[q].gen)
<1> DEFINE g == r[q].gen
           found == {r[q].res[z] : z \in {x \in DOMAIN r[q].res : x[1] = s}}
           unverified == Verifies(q, s) /\ (~HasSum(g, s) \/ found # {"good"})
           tooShort == "short" \in found /\ r[q].kind = "ptr" /\ obj[g].mode # "single"
<1>1. r[q] \in ReadRec /\ FoundOk(r[q], file[g], g \in hurt) /\ r[q].at \in Nodes
  BY ReaderOk DEF WantOk
<1>2. \A c \in found : c \in Contents /\ (c \in {"none", "bad", "short"} => file[g][s] # "good")
  BY SMTT(40), <1>1 DEF ReadRec, Results, FoundOk
<1>3. "err" \notin found /\ ("none" \in found \/ tooShort \/ unverified) /\ found # {}
  <2>1. found # {}
    OBVIOUS
  <2> HIDE DEF found
  <2>2. "err" \notin found /\ ("none" \in found \/ tooShort \/ unverified)
    BY DEF Verdict, found
  <2> QED
    BY <2>1, <2>2
<1> HIDE DEF found
<1>4. CASE "none" \in found \/ tooShort
  BY <1>2, <1>4 DEF Spoilt
<1>5. CASE Verifies(q, s) /\ ~HasSum(g, s)
  <2>1. conf.verify[r[q].at]
    BY <1>5 DEF Verifies, Reader
  <2> QED
    BY <1>1, <1>5, <2>1 DEF Spoilt
<1>6. CASE found # {"good"}
  <2>1. PICK c \in found : c # "good"
    BY <1>3, <1>6
  <2>2. c \in {"none", "bad", "short"}
    BY <1>2, <1>3, <2>1 DEF Contents, FileStates
  <2> QED
    BY <1>2, <2>1, <2>2 DEF Spoilt
<1> QED
  BY <1>3, <1>4, <1>5, <1>6

(* Reader q hands on the pieces n. *)
LEMMA HandsOn ==
    ASSUME PutInv, GetInv, NEW q \in Readers, r[q].pc = "read", NEW n \in SUBSET Events,
           r' = [r EXCEPT ![q].sent = @ \cup n], UNCHANGED files, Touch,
           \A e \in n :
              IF e.c = "fail" THEN r[q].kind \in Subranged
              ELSE /\ e.rd \in DOMAIN r[q].res /\ e.c = r[q].res[e.rd]
                   /\ e.c = "good" \/ (r[q].gen \in hurt /\ ~Verifies(q, e.rd[1]))
                   /\ IF r[q].kind \in Subranged
                      THEN Verifies(q, e.rd[1]) =>
                              \A rd \in ReadsOn(q, e.rd[1]) : \E d \in n : d.rd = rd
                      ELSE e.pos = e.rd[1]
    PROVE  PutInv' /\ GetInv'
<1> DEFINE x == r[q]
           g == x.gen
           o == obj[g]
           y == [x EXCEPT !.sent = @ \cup n]
<1>1. r' = [r EXCEPT ![q] = y]
  OBVIOUS
<1>2. g # 0
  BY ReadingHas
<1>3. /\ x \in ReadRec /\ FoundOk(x, file[g], g \in hurt) /\ SentOk(x, conf, o, g \in hurt)
      /\ \A s : Verifies(q, s) <=> Checked(x, conf, o, s)
  BY <1>2, ReaderOk
<1>4. /\ y \in ReadRec /\ y.pc = "read" /\ y.gen = g /\ y.at = x.at /\ y.kind = x.kind
      /\ y.desc = x.desc /\ y.want = x.want /\ y.sent = x.sent \cup n /\ y.out = x.out
      /\ y.res = x.res
  BY <1>3 DEF ReadRec
<1> HIDE DEF y
<1>5. FoundOk(y, file[g], g \in hurt)
  BY <1>3, <1>4 DEF FoundOk
<1>6. Given(x) \subseteq Given(y) /\ \A d \in n : d.rd \in Given(y)
  BY <1>4 DEF Given
<1>7. \A s : Checked(y, conf, o, s) <=> Checked(x, conf, o, s)
  BY <1>4 DEF Checked
<1>8. \A e \in x.sent : PieceOk(x, conf, o, g \in hurt, e) => PieceOk(y, conf, o, g \in hurt, e)
  BY <1>4, <1>6, <1>7 DEF PieceOk
<1>9. ASSUME NEW e \in n
      PROVE  PieceOk(y, conf, o, g \in hurt, e)
  <2>1. CASE e.c = "fail"
    BY <1>4, <2>1 DEF PieceOk
  <2>2. CASE e.c # "fail"
    <3>1. /\ e.rd \in DOMAIN y.res /\ e.c = y.res[e.rd]
          /\ e.c = "good" \/ (g \in hurt /\ ~Checked(y, conf, o, e.rd[1]))
      BY <1>3, <1>4, <1>7, <2>2
    <3>2. ASSUME x.kind \in Subranged, Checked(y, conf, o, e.rd[1]),
                 NEW rd \in y.want, rd[1] = e.rd[1]
          PROVE  rd \in Given(y)
      <4>1. rd \in ReadsOn(q, e.rd[1])
        BY <1>4, <3>2 DEF ReadsOn
      <4>2. Verifies(q, e.rd[1])
        BY <1>3, <1>7, <3>2
      <4>3. \E d \in n : d.rd = rd
        BY ZenonT(40), <2>2, <3>2, <4>1, <4>2
      <4> QED
        BY <1>6, <4>3
    <3>3. x.kind \notin Subranged => e.pos = e.rd[1]
      BY <2>2
    <3> QED
      BY ZenonT(40), <1>4, <2>2, <3>1, <3>2, <3>3 DEF PieceOk
  <2> QED
    BY <2>1, <2>2
<1>10. SentOk(y, conf, o, g \in hurt)
  BY <1>3, <1>4, <1>8, <1>9 DEF SentOk
<1> QED
  BY ZenonT(40), <1>1, <1>2, <1>4, <1>5, <1>10, ReaderGoesOn

(* Reader q is done without having succeeded. *)
LEMMA GivesUp ==
    ASSUME PutInv, GetInv, NEW q \in Readers, r[q].pc = "read", NEW out \in {"miss", "error"},
           r' = [r EXCEPT ![q].pc = "done", ![q].out = out], UNCHANGED files, Touch
    PROVE  PutInv' /\ GetInv'
<1> DEFINE x == r[q]
           g == x.gen
           o == obj[g]
           y == [x EXCEPT !.pc = "done", !.out = out]
<1>1. r' = [r EXCEPT ![q] = y]
  OBVIOUS
<1>2. g # 0
  BY ReadingHas
<1>3. x \in ReadRec /\ FoundOk(x, file[g], g \in hurt) /\ SentOk(x, conf, o, g \in hurt)
  BY <1>2, ReaderOk
<1>4. /\ y \in ReadRec /\ y.pc = "done" /\ y.gen = g /\ y.at = x.at /\ y.kind = x.kind
      /\ y.desc = x.desc /\ y.want = x.want /\ y.sent = x.sent /\ y.out = out /\ y.res = x.res
  BY <1>3 DEF ReadRec
<1> HIDE DEF y
<1>5. FoundOk(y, file[g], g \in hurt)
  BY <1>3, <1>4 DEF FoundOk
<1>6. Given(y) = Given(x) /\ \A s : Checked(y, conf, o, s) <=> Checked(x, conf, o, s)
  BY <1>4 DEF Checked, Given
<1>7. \A e \in x.sent : PieceOk(x, conf, o, g \in hurt, e) => PieceOk(y, conf, o, g \in hurt, e)
  BY <1>4, <1>6 DEF PieceOk
<1>8. SentOk(y, conf, o, g \in hurt)
  BY <1>3, <1>4, <1>7 DEF SentOk
<1> QED
  BY ZenonT(40), <1>1, <1>2, <1>4, <1>5, <1>8, ReaderGoesOn

(* The pieces a reader sends are events. *)
LEMMA SendsEvents ==
    ASSUME GetInv, NEW q \in Readers, NEW rds, rds \subseteq DOMAIN r[q].res, NEW pos \in Nat
    PROVE  /\ Sends(q, rds, pos) \in SUBSET Events
           /\ \A e \in Sends(q, rds, pos) : /\ e.rd \in rds /\ e.pos = pos /\ e.c = r[q].res[e.rd]
                                            /\ e.c # "fail"
           /\ \A rd \in rds : \E e \in Sends(q, rds, pos) : e.rd = rd
<1>1. r[q].res \in Results
  BY DEF GetInv, ReadRec
<1>2. \A rd \in rds : rd \in Pieces /\ r[q].res[rd] \in Contents
  BY <1>1 DEF Results
<1>3. "fail" \notin Contents
  BY DEF Contents, FileStates
<1>4. ASSUME NEW rd \in rds
      PROVE  LET e == [rd |-> rd, c |-> r[q].res[rd], pos |-> pos]
             IN  /\ e \in Events /\ e.rd = rd /\ e.pos = pos /\ e.c = r[q].res[rd]
                 /\ e.c # "fail" /\ e \in Sends(q, rds, pos)
  BY <1>2, <1>3 DEF Events, Sends
<1>5. \A e \in Sends(q, rds, pos) : \E rd \in rds : e = [rd |-> rd, c |-> r[q].res[rd], pos |-> pos]
  BY DEF Sends
<1>6. ASSUME NEW e \in Sends(q, rds, pos)
      PROVE  e \in Events /\ e.rd \in rds /\ e.pos = pos /\ e.c = r[q].res[e.rd] /\ e.c # "fail"
  <2>1. PICK rd \in rds : e = [rd |-> rd, c |-> r[q].res[rd], pos |-> pos]
    BY <1>5
  <2> QED
    BY <1>4, <2>1
<1>7. \A rd \in rds : \E e \in Sends(q, rds, pos) : e.rd = rd
  BY <1>4
<1> QED
  BY <1>6, <1>7

LEMMA FailsEvent ==
    ASSUME NEW rd \in Pieces
    PROVE  Fails(rd) \in SUBSET Events /\ \A e \in Fails(rd) : e.c = "fail"
<1>1. 0 \in Nat
  BY SMTT(15)
<1> QED
  BY <1>1 DEF Fails, Events

LEMMA StreamSendKeeps ==
    ASSUME PutInv, GetInv, NEW q \in Readers, StreamSend(q)
    PROVE  PutInv' /\ GetInv'
<1> DEFINE s == Cardinality(r[q].sent)
           n == Sends(q, ReadsOn(q, s), s)
<1>1. /\ r[q].pc = "read" /\ r[q].kind = "stream" /\ s \in StripesOf(r[q].gen)
      /\ ReadsOn(q, s) \subseteq DOMAIN r[q].res /\ UNCHANGED files /\ Touch
  BY Touches DEF StreamSend, Complete
<1>2. r[q].gen # 0
  BY <1>1, ReadingHas
<1>3. s \in Nat
  BY <1>1, <1>2, ReaderOk, StripesNat
<1> HIDE DEF s
<1>4. CASE Verdict(q, s) = "ok" /\ r' = [r EXCEPT ![q].sent = @ \cup n]
  <2>1. n \in SUBSET Events
        /\ \A e \in n : e.rd \in ReadsOn(q, s) /\ e.pos = s /\ e.c = r[q].res[e.rd] /\ e.c # "fail"
    BY SMTT(40), <1>1, <1>3, SendsEvents
  <2>2. \A rd \in ReadsOn(q, s) : rd[1] = s /\ rd \in DOMAIN r[q].res
    BY <1>1 DEF ReadsOn
  <2>3. \A rd \in ReadsOn(q, s) :
            r[q].res[rd] = "good" \/ (r[q].gen \in hurt /\ ~Verifies(q, s))
    BY <1>2, <1>4, <2>2, VerdictOk
  <2>4. r[q].kind \notin Subranged
    BY <1>1 DEF Subranged
  <2> HIDE DEF n
  <2> QED
    BY ZenonT(40), <1>1, <1>4, <2>1, <2>2, <2>3, <2>4, HandsOn
<1>5. CASE r' = [r EXCEPT ![q].pc = "done", ![q].out = "error"]
  BY <1>1, <1>5, GivesUp
<1> QED
  BY <1>4, <1>5 DEF StreamSend, s

LEMMA StripeEventKeeps ==
    ASSUME PutInv, GetInv, NEW q \in Readers, NEW s \in Stripes, r[q].kind \in Subranged,
           StripeEvent(q, s), Touch
    PROVE  PutInv' /\ GetInv'
<1> DEFINE n == Sends(q, ReadsOn(q, s), 0)
<1>1. /\ r[q].pc = "read" /\ ReadsOn(q, s) \subseteq DOMAIN r[q].res /\ UNCHANGED files
  BY DEF StripeEvent, Complete
<1>2. r[q].gen # 0
  BY <1>1, ReadingHas
<1>3. CASE Verdict(q, s) = "ok" /\ r' = [r EXCEPT ![q].sent = @ \cup n]
  <2>1. 0 \in Nat
    BY SMTT(15)
  <2>2. /\ n \in SUBSET Events
        /\ \A e \in n : e.rd \in ReadsOn(q, s) /\ e.c = r[q].res[e.rd] /\ e.c # "fail"
        /\ \A rd \in ReadsOn(q, s) : \E e \in n : e.rd = rd
    BY SMTT(40), <1>1, <2>1, SendsEvents
  <2>3. \A rd \in ReadsOn(q, s) : rd[1] = s /\ rd \in DOMAIN r[q].res
    BY <1>1 DEF ReadsOn
  <2>4. \A rd \in ReadsOn(q, s) :
            r[q].res[rd] = "good" \/ (r[q].gen \in hurt /\ ~Verifies(q, s))
    BY ZenonT(40), <1>2, <1>3, <2>3, VerdictOk
  <2> HIDE DEF n
  <2>5. ASSUME NEW e \in n
        PROVE  /\ e.c # "fail" /\ e.rd \in DOMAIN r[q].res /\ e.c = r[q].res[e.rd]
               /\ e.c = "good" \/ (r[q].gen \in hurt /\ ~Verifies(q, e.rd[1]))
               /\ \A rd \in ReadsOn(q, e.rd[1]) : \E d \in n : d.rd = rd
    <3>1. e.rd \in ReadsOn(q, s) /\ e.c = r[q].res[e.rd] /\ e.c # "fail" /\ e.rd[1] = s
      BY <2>2, <2>3
    <3> QED
      BY SMTT(40), <2>2, <2>3, <2>4, <3>1
  <2> QED
    BY ZenonT(40), <1>1, <1>3, <2>2, <2>5, HandsOn
<1>4. CASE r' = [r EXCEPT ![q].sent = @ \cup Fails(<<s, 1>>)]
  <2>1. <<s, 1>> \in Pieces
    BY SMTT(15) DEF Pieces
  <2> QED
    BY ZenonT(40), <1>1, <1>4, <2>1, FailsEvent, HandsOn
<1> QED
  BY <1>3, <1>4 DEF StripeEvent

LEMMA SubrangeEventKeeps ==
    ASSUME PutInv, GetInv, NEW q \in Readers, NEW rd \in r[q].want, r[q].kind \in Subranged,
           SubrangeEvent(q, rd), Touch
    PROVE  PutInv' /\ GetInv'
<1> DEFINE n == Sends(q, {rd}, 0)
           g == r[q].gen
<1>1. /\ r[q].pc = "read" /\ ~Verifies(q, rd[1]) /\ rd \in DOMAIN r[q].res /\ UNCHANGED files
  BY DEF SubrangeEvent
<1>2. g # 0
  BY <1>1, ReadingHas
<1>3. r[q] \in ReadRec /\ FoundOk(r[q], file[g], g \in hurt)
  BY ZenonT(40), <1>2, ReaderOk
<1>4. rd \in Pieces /\ r[q].res[rd] \in Contents
  BY SMTT(40), <1>1, <1>3 DEF ReadRec, Results
<1>5. CASE r' = [r EXCEPT ![q].sent = @ \cup Fails(rd)]
  BY ZenonT(40), <1>1, <1>4, <1>5, FailsEvent, HandsOn
<1>6. CASE r[q].res[rd] \notin {"none", "err"} /\ r' = [r EXCEPT ![q].sent = @ \cup n]
  <2>1. 0 \in Nat
    BY SMTT(15)
  <2>2. /\ n \in SUBSET Events
        /\ \A e \in n : e.rd \in {rd} /\ e.c = r[q].res[e.rd] /\ e.c # "fail"
    BY SMTT(40), <1>1, <2>1, SendsEvents
  <2>3. r[q].res[rd] = "good" \/ g \in hurt
    BY <1>1, <1>3, <1>4, <1>6 DEF FoundOk, Contents, FileStates
  <2> HIDE DEF n
  <2> QED
    BY ZenonT(40), <1>1, <1>6, <2>2, <2>3, HandsOn
<1> QED
  BY <1>5, <1>6 DEF SubrangeEvent

LEMMA AnswerKeeps ==
    ASSUME PutInv, GetInv, NEW q \in Readers, NEW drops, r[q].kind \notin Subranged,
           Answer(q, drops)
    PROVE  PutInv' /\ GetInv'
<1> DEFINE x == r[q]
           g == x.gen
           o == obj[g]
           n == UNION {Sends(q, {<<s, 1>>}, s) : s \in StripesOf(g)}
<1>1. x.pc = "read" /\ DOMAIN x.res = x.want /\ UNCHANGED files /\ Touch
  BY Touches DEF Answer, AllRead
<1>2. g # 0
  BY <1>1, ReadingHas
<1>3. /\ x \in ReadRec /\ WantOk(x, o) /\ FoundOk(x, file[g], g \in hurt)
      /\ StripesOf(g) = 0 .. Len(o.lens) - 1 /\ StripesOf(g) \subseteq Stripes
      /\ \A s : Verifies(q, s) <=> Checked(x, conf, o, s)
  BY <1>2, ReaderOk
<1>4. x.want = {<<s, 1>> : s \in StripesOf(g)}
  BY <1>3 DEF WantOk
<1>5. CASE /\ \A s \in StripesOf(g) : Verdict(q, s) = "ok"
           /\ r' = [r EXCEPT ![q].pc = "done", ![q].out = "ok", ![q].sent = n]
  <2> DEFINE y == [x EXCEPT !.pc = "done", !.out = "ok", !.sent = n]
  <2>1. r' = [r EXCEPT ![q] = y]
    BY <1>5
  <2>2. ASSUME NEW s \in StripesOf(g)
        PROVE  /\ Sends(q, {<<s, 1>>}, s) \in SUBSET Events
               /\ \A e \in Sends(q, {<<s, 1>>}, s) :
                     /\ e.rd = <<s, 1>> /\ e.pos = s /\ e.rd[1] = s /\ e.rd \in DOMAIN x.res
                     /\ e.c = x.res[e.rd] /\ e.c # "fail"
                     /\ e.c = "good" \/ (g \in hurt /\ ~Checked(x, conf, o, s))
               /\ \E e \in Sends(q, {<<s, 1>>}, s) : e.rd = <<s, 1>>
    <3>1. {<<s, 1>>} \subseteq DOMAIN x.res /\ <<s, 1>> \in DOMAIN x.res /\ s \in Nat
      BY <1>1, <1>3, <1>4, StripesNat
    <3>2. x.res[<<s, 1>>] = "good" \/ (g \in hurt /\ ~Verifies(q, s))
      BY ZenonT(40), <1>2, <1>5, <3>1, PairFirst, VerdictOk
    <3>3. /\ Sends(q, {<<s, 1>>}, s) \in SUBSET Events
          /\ \A e \in Sends(q, {<<s, 1>>}, s) : /\ e.rd \in {<<s, 1>>} /\ e.pos = s
                                                /\ e.c = x.res[e.rd] /\ e.c # "fail"
          /\ \A rd \in {<<s, 1>>} : \E e \in Sends(q, {<<s, 1>>}, s) : e.rd = rd
      BY SMTT(40), <3>1, SendsEvents
    <3>4. <<s, 1>>[1] = s /\ (Verifies(q, s) <=> Checked(x, conf, o, s))
      BY <1>3, PairFirst
    <3> DEFINE u == <<s, 1>>
               m == Sends(q, {u}, s)
    <3>5. /\ m \in SUBSET Events
          /\ \A e \in m : e.rd = u /\ e.pos = s /\ e.c = x.res[e.rd] /\ e.c # "fail"
          /\ \E e \in m : e.rd = u
      BY <3>3
    <3>6. /\ u[1] = s /\ u \in DOMAIN x.res
          /\ x.res[u] = "good" \/ (g \in hurt /\ ~Checked(x, conf, o, s))
      BY <3>1, <3>2, <3>4
    <3> HIDE DEF u, m
    <3>7. \A e \in m : /\ e.rd = u /\ e.pos = s /\ e.rd[1] = s /\ e.rd \in DOMAIN x.res
                       /\ e.c = x.res[e.rd] /\ e.c # "fail"
                       /\ e.c = "good" \/ (g \in hurt /\ ~Checked(x, conf, o, s))
      BY <3>5, <3>6
    <3> QED
      BY <3>5, <3>7 DEF u, m
  <2>3. /\ n \in SUBSET Events /\ \A e \in n : \E s \in StripesOf(g) : e \in Sends(q, {<<s, 1>>}, s)
        /\ \A s \in StripesOf(g) : Sends(q, {<<s, 1>>}, s) \subseteq n
    <3>1. \A e \in n : \E s \in StripesOf(g) : e \in Sends(q, {<<s, 1>>}, s)
      OBVIOUS
    <3>2. \A s \in StripesOf(g) : Sends(q, {<<s, 1>>}, s) \subseteq n
      OBVIOUS
    <3>3. \A s \in StripesOf(g) : Sends(q, {<<s, 1>>}, s) \subseteq Events
      BY <2>2
    <3> HIDE DEF n
    <3> QED
      BY <3>1, <3>2, <3>3
  <2> HIDE DEF n
  <2>4. /\ y \in ReadRec /\ y.pc = "done" /\ y.gen = g /\ y.at = x.at /\ y.kind = x.kind
        /\ y.desc = x.desc /\ y.want = x.want /\ y.sent = n /\ y.out = "ok" /\ y.res = x.res
    BY <1>3, <2>3 DEF ReadRec
  <2> HIDE DEF y
  <2>5. FoundOk(y, file[g], g \in hurt)
    BY <1>3, <2>4 DEF FoundOk
  <2>6. \A s : Checked(y, conf, o, s) <=> Checked(x, conf, o, s)
    BY <2>4 DEF Checked
  <2>7. ASSUME NEW e \in n
        PROVE  PieceOk(y, conf, o, g \in hurt, e) /\ e.rd \in x.want
    <3>1. PICK s \in StripesOf(g) : e \in Sends(q, {<<s, 1>>}, s)
      BY <2>3
    <3>2. /\ e.pos = s /\ e.rd[1] = s /\ e.rd \in DOMAIN x.res /\ e.c = x.res[e.rd]
          /\ e.c # "fail" /\ (e.c = "good" \/ (g \in hurt /\ ~Checked(x, conf, o, s)))
      BY <2>2, <3>1
    <3> QED
      BY ZenonT(40), <1>1, <2>4, <2>6, <3>2 DEF PieceOk
  <2>8. Given(y) = x.want
    <3>1. Given(y) \subseteq x.want
      BY <2>4, <2>7 DEF Given
    <3>2. ASSUME NEW s \in StripesOf(g)
          PROVE  <<s, 1>> \in Given(y)
      BY <2>2, <2>3, <2>4 DEF Given
    <3> QED
      BY <1>4, <3>1, <3>2
  <2>9. SentOk(y, conf, o, g \in hurt)
    BY <2>4, <2>7, <2>8 DEF SentOk
  <2> QED
    BY ZenonT(40), <1>1, <1>2, <2>1, <2>4, <2>5, <2>9, ReaderGoesOn
<1>6. CASE \E out \in {"miss", "error"} : r' = [r EXCEPT ![q].pc = "done", ![q].out = out]
  BY <1>1, <1>6, GivesUp
<1>7. {s \in StripesOf(g) : Verdict(q, s) # "ok"} = {} =>
        \A s \in StripesOf(g) : Verdict(q, s) = "ok"
  OBVIOUS
<1> QED
  BY <1>5, <1>6, <1>7 DEF Answer

LEMMA DrainedKeeps ==
    ASSUME PutInv, GetInv, NEW q \in Readers, GetDrained(q)
    PROVE  PutInv' /\ GetInv'
<1> DEFINE x == r[q]
           g == x.gen
           o == obj[g]
           out == IF \E e \in x.sent : e.c = "fail" THEN "error" ELSE "ok"
           y == [x EXCEPT !.pc = "done", !.out = out]
<1>1. /\ x.pc = "read" /\ DOMAIN x.res = x.want /\ UNCHANGED files /\ Touch
      /\ {rd[1] : rd \in Handled(q)} = {rd[1] : rd \in x.want}
      /\ \A rd \in x.want : rd \in Handled(q) \/ Verifies(q, rd[1])
      /\ r' = [r EXCEPT ![q].pc = "done", ![q].out = out]
  BY Touches DEF GetDrained, AllRead
<1>2. r' = [r EXCEPT ![q] = y]
  BY <1>1
<1>3. g # 0
  BY <1>1, ReadingHas
<1>4. /\ x \in ReadRec /\ WantOk(x, o) /\ FoundOk(x, file[g], g \in hurt)
      /\ SentOk(x, conf, o, g \in hurt) /\ \A s : Verifies(q, s) <=> Checked(x, conf, o, s)
  BY <1>3, ReaderOk
<1>5. /\ out \in {"ok", "error"} /\ (out = "ok" => \A e \in x.sent : e.c # "fail")
  OBVIOUS
<1> HIDE DEF out
<1>6. /\ y \in ReadRec /\ y.pc = "done" /\ y.gen = g /\ y.at = x.at /\ y.kind = x.kind
      /\ y.desc = x.desc /\ y.want = x.want /\ y.sent = x.sent /\ y.out = out /\ y.res = x.res
  BY <1>4, <1>5 DEF ReadRec
<1> HIDE DEF y
<1>7. FoundOk(y, file[g], g \in hurt)
  BY <1>4, <1>6 DEF FoundOk
<1>8. Given(y) = Given(x) /\ Given(x) = Handled(q)
      /\ \A s : Checked(y, conf, o, s) <=> Checked(x, conf, o, s)
  BY <1>6 DEF Checked, Given, Handled
<1>9. \A e \in x.sent : PieceOk(x, conf, o, g \in hurt, e)
  BY <1>4 DEF SentOk
<1>10. \A e \in x.sent : PieceOk(y, conf, o, g \in hurt, e)
  BY <1>6, <1>8, <1>9 DEF PieceOk
<1>11. ASSUME out = "ok"
       PROVE  Given(x) = x.want
  <2>1. Given(x) \subseteq x.want
    BY ZenonT(40), <1>1, <1>5, <1>9, <1>11 DEF PieceOk, Given
  <2>2. ASSUME NEW rd \in x.want, rd \notin Given(x)
        PROVE  FALSE
    <3>1. Checked(x, conf, o, rd[1])
      BY <1>1, <1>4, <1>8, <2>2
    <3>2. PICK d \in Handled(q) : d[1] = rd[1]
      BY <1>1
    <3>3. PICK e \in x.sent : e.rd = d
      BY DEF Handled
    <3>4. PieceOk(x, conf, o, g \in hurt, e) /\ e.c # "fail" /\ e.rd[1] = rd[1]
      BY ZenonT(40), <1>5, <1>9, <1>11, <3>2, <3>3
    <3>5. CASE x.kind \in Subranged
      BY ZenonT(40), <2>2, <3>1, <3>4, <3>5 DEF PieceOk
    <3>6. CASE x.kind \notin Subranged
      <4>1. x.want = {<<s, 1>> : s \in 0 .. Len(o.lens) - 1}
        BY <1>4, <3>6 DEF WantOk
      <4>2. e.rd \in x.want /\ e.rd \in Given(x)
        BY <2>1 DEF Given
      <4>3. \A d1, d2 \in x.want : d1[1] = d2[1] => d1 = d2
        BY SMTT(40), <4>1, PairFirst
      <4> QED
        BY <2>2, <3>4, <4>2, <4>3
    <3> QED
      BY <3>5, <3>6
  <2> QED
    BY <2>1, <2>2
<1>12. SentOk(y, conf, o, g \in hurt)
  BY ZenonT(40), <1>6, <1>8, <1>10, <1>11 DEF SentOk
<1> QED
  BY ZenonT(40), <1>1, <1>2, <1>3, <1>6, <1>7, <1>12, ReaderGoesOn

LEMMA ForgetKeeps ==
    ASSUME PutInv, GetInv, NEW q \in Readers, GetForget(q)
    PROVE  PutInv' /\ GetInv'
<1>1. r' = [r EXCEPT ![q] = NoRead] /\ UNCHANGED files /\ Touch
  BY Touches DEF GetForget, putVars, files
<1> QED
  BY <1>1, NoReadOk, ReaderMoves DEF Touch

LEMMA StepKeeps ==
    ASSUME PutInv, GetInv, NEW q \in Readers, GetStep(q)
    PROVE  PutInv' /\ GetInv'
<1>1. ASSUME NEW rd \in r[q].want, ReadOne(q, rd)
      PROVE  PutInv' /\ GetInv'
  BY <1>1, ReadOneKeeps
<1>2. ASSUME NEW rd \in r[q].want, ObjectSubrange(q, rd) \/ SubsetSubrange(q, rd)
      PROVE  PutInv' /\ GetInv'
  <2>1. SubrangeEvent(q, rd) /\ Touch /\ r[q].kind \in Subranged
    BY <1>2, Touches DEF ObjectSubrange, SubsetSubrange, Subranged
  <2> QED
    BY <2>1, SubrangeEventKeeps
<1>3. ASSUME NEW s \in Stripes, ObjectStripe(q, s) \/ SubsetStripe(q, s)
      PROVE  PutInv' /\ GetInv'
  <2>1. StripeEvent(q, s) /\ Touch /\ r[q].kind \in Subranged
    BY <1>3, Touches DEF ObjectStripe, SubsetStripe, Subranged
  <2> QED
    BY <2>1, StripeEventKeeps
<1>4. CASE GetChunks(q) \/ GetIntoPtr(q) \/ ReadChunksByPlacement(q)
  <2>1. r[q].kind \notin Subranged /\ (Answer(q, TRUE) \/ Answer(q, FALSE))
    BY <1>4 DEF GetChunks, GetIntoPtr, ReadChunksByPlacement, Subranged
  <2> QED
    BY <2>1, AnswerKeeps
<1> QED
  BY ZenonT(40), <1>1, <1>2, <1>3, <1>4, StreamSendKeeps, DrainedKeeps DEF GetStep

StripedInv == PutInv /\ GetInv

LEMMA StripedStep == StripedInv /\ [Next]_vars => StripedInv'
<1> SUFFICES ASSUME PutInv, GetInv, [Next]_vars
             PROVE  PutInv' /\ GetInv'
  BY DEF StripedInv
<1>1. CASE PutNext /\ UNCHANGED <<r, shaken>>
  <2>1. Kept
    BY <1>1, PutNextKeeps
  <2> QED
    BY <1>1, <2>1, PutKeepsRead DEF Kept
<1>2. CASE UNCHANGED vars
  <2>1. UNCHANGED putVars /\ r' = r
    BY <1>2 DEF vars
  <2>2. Kept
    BY <2>1, PutNextKeeps
  <2> QED
    BY <2>1, <2>2, PutKeepsRead DEF Kept
<1>3. ASSUME NEW q \in Readers, Lookup(q) \/ GetBegin(q) \/ GetStep(q) \/ GetForget(q)
      PROVE  PutInv' /\ GetInv'
  BY ZenonT(40), <1>3, LookupKeeps, BeginReadKeeps, StepKeeps, ForgetKeeps
<1> QED
  BY <1>1, <1>2, <1>3 DEF Next

LEMMA StripedInitially == ReadInit => StripedInv
<1> SUFFICES ASSUME ReadInit
             PROVE  PutInv /\ GetInv
  BY DEF StripedInv
<1>1. PutInv
  BY PutInitOk DEF ReadInit
<1>2. GetInv
  BY NoReadOk DEF ReadInit, GetInv
<1> QED
  BY <1>1, <1>2

LEMMA StripedAlways == Spec => []StripedInv
BY StripedInitially, StripedStep, PTL DEF Spec

-----------------------------------------------------------------------------
(* What an upload publishes is whole, for any number of handlers, bodies,    *)
(* stripe and window sizes: distributed_put_from_stream, and the other PUT   *)
(* paths, make an object current only with every stripe written and joined   *)
(* and the stripes cut to exactly the declared bytes.                        *)
THEOREM PublishesWhole == Spec => []CommittedWhole
<1>1. StripedInv => CommittedWhole
  BY ZenonT(40) DEF StripedInv, PutInv, MetaInv, CommittedWhole
<1> QED
  BY <1>1, StripedAlways, PTL

(* A refused streamed or single-file PUT has removed every stripe it wrote,  *)
(* unless a fault excused it: abort_stripes and the error paths of the       *)
(* handlers miss no stripe whatever the order the writes finish in.          *)
THEOREM RefusedLeavesNothing == Spec => []RolledBack
<1>1. StripedInv => RolledBack
  BY DEF StripedInv, PutInv, FailedInv, RolledBack
<1> QED
  BY <1>1, StripedAlways, PTL

(* A GET that succeeds has handed over all of one generation, and no piece a *)
(* node verified is wrong, on each of the six read paths and whatever PUTs,  *)
(* deletions, collections and damage come between its reads.                 *)
THEOREM GetDelivers == Spec => []Delivered
<1>1. StripedInv => Delivered
  <2> SUFFICES ASSUME PutInv, GetInv, NEW q \in Readers
               PROVE  /\ r[q].out = "ok" =>
                          /\ Handled(q) = r[q].want /\ r[q].desc \in {0, r[q].gen}
                          /\ r[q].kind \notin Subranged => \A e \in r[q].sent : e.pos = e.rd[1]
                      /\ \A e \in r[q].sent :
                          e.c \in {"good", "fail"} \/ (r[q].gen \in hurt /\ ~Verifies(q, e.rd[1]))
    BY DEF StripedInv, Delivered
  <2>1. CASE r[q].gen = 0
    BY <2>1 DEF GetInv, NoneYet
  <2>2. CASE r[q].gen # 0
    <3> DEFINE x == r[q]
               o == obj[x.gen]
    <3>1. /\ WantOk(x, o) /\ SentOk(x, conf, o, x.gen \in hurt)
          /\ \A s : Verifies(q, s) <=> Checked(x, conf, o, s)
      BY <2>2, ReaderOk
    <3>2. \A e \in x.sent : PieceOk(x, conf, o, x.gen \in hurt, e)
      BY <3>1 DEF SentOk
    <3>3. \A e \in x.sent :
            e.c \in {"good", "fail"} \/ (x.gen \in hurt /\ ~Verifies(q, e.rd[1]))
      BY <3>1, <3>2 DEF PieceOk
    <3>4. x.kind \notin Subranged => \A e \in x.sent : e.pos = e.rd[1]
      BY <3>2 DEF PieceOk
    <3>5. x.out = "ok" => Handled(q) = x.want /\ x.desc \in {0, x.gen}
      BY <3>1 DEF SentOk, WantOk, Given, Handled
    <3> QED
      BY ZenonT(40), <3>3, <3>4, <3>5
  <2> QED
    BY <2>1, <2>2
<1> QED
  BY <1>1, StripedAlways, PTL

(* Metadata that leaves without being retired. *)
Dropped == meta # 0 /\ meta' = 0 /\ meta \notin retired'

(* No PUT, deletion or collection does that. *)
LEMMA PutRetires ==
    ASSUME PutInv, PutNext \/ UNCHANGED putVars
    PROVE  ~Dropped
<1>1. ASSUME UNCHANGED life
      PROVE  ~Dropped
  BY <1>1 DEF life, Dropped
<1>2. ASSUME NEW p \in Putters, PutGate(p)
      PROVE  ~Dropped
  BY <1>1, <1>2 DEF PutGate, Dropped
<1>3. ASSUME NEW p \in Putters, PutCommit(p)
      PROVE  ~Dropped
  <2>1. h[p].gen # 0
    BY <1>3, ActiveOk DEF PutCommit, ActivePcs
  <2> QED
    BY ZenonT(40), <1>1, <1>3, <2>1 DEF PutCommit, Dropped
<1>4. ASSUME NEW p \in Putters,
             \/ PutBegin(p) \/ PutPrepare(p) \/ PutReceive(p) \/ PutDispatch(p) \/ PutAbsorb(p)
             \/ PutEnded(p) \/ PutJoined(p) \/ PutUndo(p) \/ PutCommitFails(p) \/ PutDropped(p)
      PROVE  ~Dropped
  <2>1. UNCHANGED life
    BY <1>4 DEF PutBegin, PutPrepare, PutReceive, PutDispatch, PutAbsorb, PutEnded, PutJoined,
                PutUndo, PutCommitFails, PutDropped, life
  <2> QED
    BY <1>1, <2>1
<1>5. ASSUME NEW g \in Gens, NEW s \in Stripes,
             StripeWrite(g, s) \/ StripeFails(g, s) \/ Damage(g, s)
      PROVE  ~Dropped
  BY <1>1, <1>5 DEF StripeWrite, StripeFails, Damage
<1>6. ASSUME NEW g \in Gens, Collect(g)
      PROVE  ~Dropped
  BY <1>6 DEF Collect, Dropped
<1>7. CASE Delete \/ TtlPasses
  BY <1>7 DEF Delete, Retire, TtlPasses, Dropped
<1>8. CASE UNCHANGED putVars
  BY <1>1, <1>8 DEF putVars
<1> QED
  BY ZenonT(40), <1>2, <1>3, <1>4, <1>5, <1>6, <1>7, <1>8 DEF PutNext, PutStep

(* A reader drops the metadata it read, for a reason. *)
LEMMA ReaderDrops ==
    ASSUME PutInv, GetInv, NEW q \in Readers,
           Lookup(q) \/ GetBegin(q) \/ GetStep(q) \/ GetForget(q), Dropped
    PROVE  Spoilt(meta) \/ meta \in shaken'
<1>1. ~UNCHANGED life /\ ~PurgeExpired
  BY DEF Dropped, life, PurgeExpired, Retire
<1>2. \A g : DropMatching(g) => meta = g
  BY <1>1 DEF DropMatching
<1>3. CASE Lookup(q) \/ GetBegin(q) \/ GetForget(q)
  BY ZenonT(40), <1>1, <1>3 DEF Lookup, GetBegin, GetForget, putVars
<1>4. ASSUME NEW rd \in r[q].want, ReadOne(q, rd)
      PROVE  FALSE
  BY ZenonT(40), <1>1, <1>4 DEF ReadOne
<1>5. CASE StreamSend(q) \/ GetDrained(q)
  BY <1>1, <1>5 DEF StreamSend, GetDrained
<1>6. ASSUME NEW rd \in r[q].want, ObjectSubrange(q, rd) \/ SubsetSubrange(q, rd)
      PROVE  Spoilt(meta)
  <2>1. /\ r[q].pc = "read" /\ rd \in DOMAIN r[q].res /\ r[q].res[rd] = "none"
        /\ meta = r[q].gen
    BY ZenonT(40), <1>1, <1>2, <1>6 DEF ObjectSubrange, SubsetSubrange, SubrangeEvent
  <2>2. /\ WantOk(r[q], obj[meta]) /\ FoundOk(r[q], file[meta], meta \in hurt)
        /\ StripesOf(meta) = 0 .. Len(obj[meta].lens) - 1
    BY <2>1, ReadingHas, ReaderOk
  <2> QED
    BY <2>1, <2>2 DEF WantOk, FoundOk, Spoilt
<1>7. ASSUME NEW s \in Stripes, ObjectStripe(q, s) \/ SubsetStripe(q, s)
      PROVE  Spoilt(meta) \/ meta \in shaken'
  <2>1. /\ r[q].pc = "read" /\ r[q].kind = "rdma" /\ StripeEvent(q, s) /\ meta = r[q].gen
        /\ Verdict(q, s) # "ok"
        /\ shaken' = IF Verdict(q, s) = "error" THEN shaken \cup {r[q].gen} ELSE shaken
    BY ZenonT(40), <1>1, <1>2, <1>7 DEF ObjectStripe, SubsetStripe, StripeEvent
  <2>2. CASE Verdict(q, s) = "error"
    BY <2>1, <2>2
  <2>3. CASE Verdict(q, s) = "missing"
    <3>1. PICK rd \in ReadsOn(q, s) : rd \in DOMAIN r[q].res
      BY <2>1 DEF StripeEvent, Complete
    <3>2. rd[1] = s /\ rd \in r[q].want
      BY DEF ReadsOn
    <3>3. /\ WantOk(r[q], obj[meta]) /\ StripesOf(meta) = 0 .. Len(obj[meta].lens) - 1
      BY <2>1, ReadingHas, ReaderOk
    <3>4. s \in StripesOf(r[q].gen)
      BY ZenonT(40), <2>1, <3>2, <3>3 DEF WantOk
    <3> QED
      BY ZenonT(40), <2>1, <2>3, <3>1, <3>2, <3>4, ReadingHas, VerdictMissing
  <2>4. Verdict(q, s) \in {"ok", "missing", "error"}
    BY DEF Verdict
  <2> QED
    BY ZenonT(40), <2>1, <2>2, <2>3, <2>4
<1>8. CASE GetChunks(q) \/ GetIntoPtr(q) \/ ReadChunksByPlacement(q)
  <2>1. /\ r[q].pc = "read" /\ DOMAIN r[q].res = r[q].want
        /\ r[q].kind \in {"get", "ptr"} /\ meta = r[q].gen
        /\ \E s \in StripesOf(r[q].gen) : Verdict(q, s) = "missing"
    BY ZenonT(40), <1>1, <1>2, <1>8 DEF GetChunks, GetIntoPtr, ReadChunksByPlacement, Answer, AllRead
  <2>2. PICK s \in StripesOf(r[q].gen) : Verdict(q, s) = "missing"
    BY <2>1
  <2>3. /\ WantOk(r[q], obj[meta]) /\ StripesOf(meta) = 0 .. Len(obj[meta].lens) - 1
    BY <2>1, ReadingHas, ReaderOk
  <2>4. r[q].kind \notin Subranged /\ r[q].kind # "placed"
    BY <2>1 DEF Subranged
  <2>5. <<s, 1>> \in DOMAIN r[q].res /\ <<s, 1>>[1] = s
    BY ZenonT(40), <2>1, <2>2, <2>3, <2>4, PairFirst DEF WantOk
  <2> QED
    BY ZenonT(40), <2>1, <2>2, <2>4, <2>5, ReadingHas, VerdictMissing
<1> QED
  BY ZenonT(40), <1>3, <1>4, <1>5, <1>6, <1>7, <1>8 DEF GetStep

(* Metadata leaves without its files being queued only if the reader that    *)
(* drops it has found that very generation damaged, gone or without the      *)
(* checksum it needs, or met an I/O error while verifying: the compare in    *)
(* delete_block_if_matches keeps a slow reader off a newer object.           *)
THEOREM DropsOnlySpoilt == Spec => KeepsIntact
<1> DEFINE A == meta # 0 /\ meta' = 0 /\ meta \notin retired' => Spoilt(meta) \/ meta \in shaken'
<1>1. StripedInv /\ [Next]_vars => [A]_vars
  <2> SUFFICES ASSUME PutInv, GetInv, [Next]_vars, Dropped
               PROVE  Spoilt(meta) \/ meta \in shaken'
    BY DEF StripedInv, Dropped
  <2>1. CASE PutNext \/ UNCHANGED vars
    BY <2>1, PutRetires DEF vars
  <2>2. ASSUME NEW q \in Readers, Lookup(q) \/ GetBegin(q) \/ GetStep(q) \/ GetForget(q)
        PROVE  Spoilt(meta) \/ meta \in shaken'
    BY <2>2, ReaderDrops
  <2> QED
    BY <2>1, <2>2 DEF Next
<1>2. Spec => [][A]_vars
  BY <1>1, StripedAlways, PTL DEF Spec
<1> QED
  BY <1>2 DEF KeepsIntact, A
=============================================================================
