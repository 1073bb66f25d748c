----------------------------- MODULE RdmaProofs -----------------------------
(* For any number of load and store threads, calls, faults and any size of   *)
(* the region cache: a call over RDMA that nobody disturbed has moved the    *)
(* caller's own data, and an idle connection that died costs no call its     *)
(* RDMA path.                                                                *)
EXTENDS RdmaBackend, WellFoundedInduction, TLAPS

(* Time limits of the provers, for a busy machine. *)
USE ZenonT(10), SMTT(15)

-----------------------------------------------------------------------------
(* Types. *)
Opt == Threads \cup {None}
Buffers == Threads \cup {Hole, Inner}
Outs == {"none", "ok", "miss", "grpc", "error"}
EnsurePcs == {"cached", "evict", "register"}
UsePcs == EnsurePcs \cup {"find", "call", "return", "stage", "copy", "view"}
ZcPcs == EnsurePcs \cup {"ensure", "begin", "find", "again"}
InnerPcs == {"inner", "stage", "copy", "view"}
Pcs == ZcPcs \cup InnerPcs \cup {"idle", "call", "return", "reset", "close"}

ThRec == [pc: Pcs, path: {"zc", "inner"}, att: {0, 1}, client: Nat, dict: Nat,
          key: Opt, rid: Nat, region: Opt, old: Nat \cup (Threads \X Nat),
          dst: Opt \cup {Inner}, again: BOOLEAN, clean: BOOLEAN, hurt: BOOLEAN,
          out: Outs, got: Opt]

(* Which fields a thread has set at each of its steps. *)
Shape(u, x) ==
    /\ x.pc \in UsePcs => x.client # 0
    /\ x.pc \in {"evict", "register"} => x.dict # 0
    /\ x.pc \in EnsurePcs \cup {"ensure"} => x.key # None
    /\ x.pc = "evict" => x.old \in Threads \X Nat
    /\ x.pc = "close" => x.old \in Nat
    /\ x.pc = "return" => x.dst \in Threads \cup {Inner}
    /\ x.pc \in InnerPcs => x.path = "inner"
    /\ x.pc \in ZcPcs => x.path = "zc"
    /\ x.pc \in {"stage", "copy"} => u \in Storers
    /\ x.pc = "view" => u \in Loaders
    /\ x.pc # "idle" => x.out = "none"
    /\ x.pc \in {"ensure", "again"} => x.att = 1
    /\ x.pc \in {"begin", "find"} => x.att = 0

ClientRec(A) == [open: BOOLEAN, conn: Nat, era: Nat, addr: A, regions: Seq(Buffers),
                 inner: Opt, lock: Opt]
Entries == Threads \X Nat
DictRec(A) == [ext: Seq(Entries), put: SUBSET (A \X Nat)]
TablesTyped ==
    /\ \E A : clients \in Seq(ClientRec(A)) /\ dicts \in Seq(DictRec(A))
    /\ pool \in 0 .. Len(clients) /\ era \in 1 .. Len(dicts)
ThreadsTyped ==
    /\ th \in [Threads -> ThRec]
    /\ \A u \in Threads : /\ Shape(u, th[u]) /\ th[u].client \in 0 .. Len(clients)
                          /\ th[u].dict \in 0 .. Len(dicts)
Typed ==
    /\ TablesTyped /\ ThreadsTyped /\ mem \in [Threads -> Opt]
    /\ enabled \in BOOLEAN /\ up \in BOOLEAN /\ mixed \in BOOLEAN /\ epoch \in Nat

(* The pool's client is open and belongs to the current caches; every other  *)
(* open client is on its way to be closed, by one thread, and belongs to     *)
(* caches of its own.                                                        *)
PoolInv ==
    /\ pool # 0 => clients[pool].open /\ clients[pool].era = era
    /\ \A c \in 1 .. Len(clients) :
          IF clients[c].open THEN clients[c].era \in 1 .. Len(dicts) ELSE clients[c].era = 0
    /\ \A c \in 1 .. Len(clients) : clients[c].open /\ clients[c].era = era => c = pool
    /\ \A c, b \in 1 .. Len(clients) :
          clients[c].open /\ clients[b].open /\ clients[c].era = clients[b].era => c = b
Closing ==
    \A u \in Threads : th[u].pc = "close" /\ th[u].old # 0 =>
        /\ th[u].old \in 1 .. Len(clients) /\ clients[th[u].old].open /\ th[u].old # pool
        /\ \A v \in Threads : v # u /\ th[v].pc = "close" => th[v].old # th[u].old

(* While nothing was cached across a reset, a cache names the regions of its *)
(* client: every buffer at most once, and by the slot it is registered in.   *)
Keyed(ext) == \A i, j \in 1 .. Len(ext) : ext[i][1] = ext[j][1] => i = j
Names(regions, rid, b) == rid \in 1 .. Len(regions) /\ regions[rid] = b
CacheOk(ext, put, regions) ==
    /\ Keyed(ext)
    /\ \A i \in 1 .. Len(ext) : Names(regions, ext[i][2], ext[i][1])
    /\ \A e \in put : Names(regions, e[2], Inner)
CachesInv ==
    mixed = FALSE =>
        /\ \A c \in 1 .. Len(clients) : clients[c].open =>
               CacheOk(dicts[clients[c].era].ext, dicts[clients[c].era].put, clients[c].regions)
        /\ pool = 0 => dicts[era] = Dict

(* What thread u, with record x, can rely on while nobody has disturbed it:  *)
(* the pool's client n, with record k, is its client; its buffer is in the   *)
(* current cache e with its entries ext, or the client's own buffer has a    *)
(* region and holds its data; m is the contents of its pinned buffer.        *)
Registering(u, x, e) ==
    /\ x.pc \in EnsurePcs \cup {"ensure"} => x.key = u
    /\ x.pc \in {"evict", "register"} => x.dict = e
Direct(x) == x.pc \in {"begin", "again", "find"} \/ (x.pc \in {"call", "return"} /\ x.path = "zc")
Staged(u, x) == u \in Storers /\ x.path = "inner" /\ x.pc \in {"copy", "call", "return"}
Own(u, x, n, k, e, ext, m) ==
    /\ x.pc \in UsePcs => n # 0 /\ x.client = n
    /\ Registering(u, x, e)
    /\ Direct(x) => n # 0 /\ \E i \in 1 .. Len(ext) : ext[i] = <<u, x.rid>>
    /\ x.path = "zc" /\ (x.pc \in {"reset", "close"} \/ (x.pc \in {"call", "return"} /\ x.att = 0))
          => x.region = u
    /\ x.pc = "return" => x.dst = IF x.path = "zc" THEN u ELSE Inner
    /\ u \in Storers /\ x.pc # "idle" => m = u
    /\ Staged(u, x) => Names(k.regions, x.rid, Inner)
    /\ (Staged(u, x) /\ x.pc # "copy") \/ x.pc = "view" => k.inner = u
    /\ x.out = "ok" => x.got = u

(* Nothing but a fault of its own time sends an undisturbed call to gRPC.    *)
Heals(u, x, n, k, en, on, ep) ==
    /\ x.out # "grpc"
    /\ x.pc # "idle" /\ x.hurt = FALSE =>
          /\ en = TRUE /\ on = TRUE
          /\ x.path = "inner" => /\ u \in Loaders /\ x.att = 0 /\ n # 0
                                /\ x.pc \notin {"reset", "close"}
          /\ x.path = "inner" \/ x.att = 1 \/ x.pc = "close" => n = 0 \/ k.conn = ep

Fine(u) ==
    mixed = FALSE /\ th[u].clean = TRUE =>
        /\ Own(u, th[u], pool, clients[pool], era, dicts[era].ext, mem[u])
        /\ Heals(u, th[u], pool, clients[pool], enabled, up, epoch)

RdmaInv == Typed /\ PoolInv /\ Closing /\ CachesInv /\ \A u \in Threads : Fine(u)

-----------------------------------------------------------------------------
(* Tables and sequences. *)

(* A nonempty set of naturals has a least element. *)
LEMMA LeastNat ==
    ASSUME NEW T, T \subseteq Nat, T # {}
    PROVE  \E k \in T : \A l \in T : k <= l
<1> DEFINE R == OpToRel(<, Nat)
<1>1. IsWellFoundedOn(R, Nat)
  BY NatLessThanWellFounded
<1> HIDE DEF R
<1>2. PICK k \in T : \A l \in T : ~(<<l, k>> \in R)
  BY <1>1, WFMin
<1>3. ASSUME NEW l \in T PROVE k <= l
  <2>1. <<l, k>> \in Nat \X Nat /\ <<l, k>>[1] = l /\ <<l, k>>[2] = k
    OBVIOUS
  <2>2. ~(l < k)
    BY <1>2, <2>1 DEF R, OpToRel
  <2> QED
    BY SMTT(15), <2>2
<1> QED
  BY <1>3

(* NewPlace finds a place that is not in use. *)
LEMMA NewPlaceFree ==
    ASSUME NEW S, NEW tab \in Seq(S), NEW used, Len(tab) + 1 \notin used
    PROVE  NewPlace(tab, used) \in 1 .. Len(tab) + 1 /\ NewPlace(tab, used) \notin used
<1> DEFINE T == {i \in 1 .. Len(tab) + 1 : i \notin used}
           P(i) == i \notin used /\ \A j \in 1 .. i - 1 : j \in used
<1>1. Len(tab) \in Nat
  OBVIOUS
<1>2. T \subseteq Nat /\ T # {}
  BY SMTT(15), <1>1
<1>3. PICK k \in T : \A l \in T : k <= l
  BY <1>2, LeastNat
<1>4. \A j \in 1 .. k - 1 : j \in used
  BY SMTT(15), <1>1, <1>3
<1>5. \E i \in 1 .. Len(tab) + 1 : P(i)
  BY <1>4
<1>6. NewPlace(tab, used) = CHOOSE i \in 1 .. Len(tab) + 1 : P(i)
  BY DEF NewPlace
<1> QED
  BY <1>5, <1>6

(* An entry is put at a place of the table or behind its end. *)
Placed(S, tab, i, e, p) ==
    /\ p \in Seq(S) /\ Len(p) \in Nat /\ Len(tab) <= Len(p) /\ i \in 1 .. Len(p) /\ p[i] = e
    /\ \A j \in 1 .. Len(p) : j # i => j \in 1 .. Len(tab) /\ p[j] = tab[j]
    /\ \A j \in 1 .. Len(tab) : j \in 1 .. Len(p)

LEMMA PutAt ==
    ASSUME NEW S, NEW tab \in Seq(S), NEW e \in S, NEW i \in 1 .. Len(tab) + 1, NEW p, p = Put(tab, i, e)
    PROVE  Placed(S, tab, i, e, p)
<1>1. CASE i > Len(tab)
  BY SMTT(15), <1>1 DEF Put, Placed
<1>2. CASE ~(i > Len(tab))
  BY SMTT(15), <1>2 DEF Put, Placed
<1> QED
  BY <1>1, <1>2

(* register_external takes a hole or a new slot. *)
LEMMA SlotFree ==
    ASSUME NEW regions \in Seq(Buffers)
    PROVE  /\ SlotFor(regions) \in 1 .. Len(regions) + 1
           /\ SlotFor(regions) \in 1 .. Len(regions) => regions[SlotFor(regions)] = Hole
<1>1. Len(regions) \in Nat /\ DOMAIN regions = 1 .. Len(regions)
  OBVIOUS
<1>2. CASE \E i \in 1 .. Len(regions) : regions[i] = Hole
  <2> DEFINE T == {i \in 1 .. Len(regions) : regions[i] = Hole}
             P(i) == regions[i] = Hole /\ \A j \in 1 .. i - 1 : regions[j] # Hole
  <2>1. T \subseteq Nat /\ T # {}
    BY SMTT(15), <1>1, <1>2
  <2>2. PICK k \in T : \A l \in T : k <= l
    BY <2>1, LeastNat
  <2>3. \A j \in 1 .. k - 1 : regions[j] # Hole
    BY SMTT(15), <1>1, <2>2
  <2>4. SlotFor(regions) = CHOOSE i \in 1 .. Len(regions) : P(i)
    BY <1>1, <1>2 DEF SlotFor
  <2>5. \E i \in 1 .. Len(regions) : P(i)
    BY <2>2, <2>3
  <2>6. SlotFor(regions) \in 1 .. Len(regions) /\ regions[SlotFor(regions)] = Hole
    BY <2>4, <2>5
  <2> QED
    BY SMTT(15), <2>6, <1>1
<1>3. CASE ~\E i \in 1 .. Len(regions) : regions[i] = Hole
  <2>1. SlotFor(regions) = Len(regions) + 1
    BY <1>1, <1>3 DEF SlotFor
  <2> QED
    BY SMTT(15), <2>1, <1>1
<1> QED
  BY <1>2, <1>3

(* So it moves no other region, *)
LEMMA RegisterKeeps ==
    ASSUME NEW regions \in Seq(Buffers), NEW b \in Buffers,
           NEW new, new = Put(regions, SlotFor(regions), b)
    PROVE  /\ new \in Seq(Buffers) /\ Names(new, SlotFor(regions), b) /\ SlotFor(regions) \in Nat
           /\ \A i, v : Names(regions, i, v) /\ v # Hole => Names(new, i, v) /\ i # SlotFor(regions)
<1>1. /\ SlotFor(regions) \in 1 .. Len(regions) + 1 /\ Len(regions) \in Nat
      /\ SlotFor(regions) \in 1 .. Len(regions) => regions[SlotFor(regions)] = Hole
  BY SlotFree
<1> DEFINE s == SlotFor(regions)
<1> HIDE DEF s
<1>2. /\ new \in Seq(Buffers) /\ Len(new) \in Nat /\ s \in 1 .. Len(new) /\ new[s] = b
      /\ \A j \in 1 .. Len(new) : j # s => j \in 1 .. Len(regions) /\ new[j] = regions[j]
      /\ \A j \in 1 .. Len(regions) : j \in 1 .. Len(new)
  BY SMTT(40), <1>1, PutAt DEF s, Placed
<1>3. s \in Nat /\ Names(new, s, b)
  BY SMTT(15), <1>2 DEF Names
<1>4. ASSUME NEW i, NEW v, Names(regions, i, v), v # Hole
      PROVE  Names(new, i, v) /\ i # s
  BY <1>1, <1>2, <1>4 DEF Names, s
<1> QED
  BY <1>2, <1>3, <1>4 DEF s

(* and unregister_external only the one it is given. *)
LEMMA UnregisterKeeps ==
    ASSUME NEW regions \in Seq(Buffers), NEW rid, NEW new, new = Unregistered(regions, rid)
    PROVE  /\ new \in Seq(Buffers)
           /\ \A i, v : Names(regions, i, v) /\ i # rid => Names(new, i, v)
<1>1. DOMAIN regions = 1 .. Len(regions) /\ Hole \in Buffers
  BY DEF Buffers
<1>2. CASE rid \in DOMAIN regions
  <2>1. new = [regions EXCEPT ![rid] = Hole]
    BY <1>2 DEF Unregistered
  <2>2. new \in Seq(Buffers) /\ Len(new) = Len(regions)
    BY SMTT(15), <2>1, <1>1, <1>2
  <2> QED
    BY <2>1, <2>2, <1>1 DEF Names
<1>3. CASE rid \notin DOMAIN regions
  BY <1>3 DEF Unregistered
<1> QED
  BY <1>2, <1>3

(* An entry is taken out of a cache, *)
LEMMA RemoveAtProperties ==
    ASSUME NEW S, NEW s \in Seq(S), NEW i \in 1 .. Len(s)
    PROVE  /\ RemoveAt(s, i) \in Seq(S)
           /\ Len(RemoveAt(s, i)) = Len(s) - 1
           /\ \A j \in 1 .. Len(s) - 1 : RemoveAt(s, i)[j] = IF j < i THEN s[j] ELSE s[j + 1]
BY SMTT(15) DEF RemoveAt

LEMMA WithoutKeeps ==
    ASSUME NEW ext \in Seq(Entries), NEW b, NEW w, w = Without(ext, b)
    PROVE  /\ w \in Seq(Entries)
           /\ Keyed(ext) => /\ Keyed(w)
                            /\ \A j \in 1 .. Len(w) : /\ w[j][1] # b
                                                      /\ \E i \in 1 .. Len(ext) : w[j] = ext[i]
<1>1. DOMAIN ext = 1 .. Len(ext) /\ Len(ext) \in Nat
  OBVIOUS
<1>2. CASE PlaceOf(ext, b) = {}
  <2>1. w = ext
    BY <1>2 DEF Without
  <2> QED
    BY <2>1, <1>1, <1>2 DEF PlaceOf
<1>3. CASE PlaceOf(ext, b) # {}
  <2> DEFINE k == CHOOSE i \in PlaceOf(ext, b) : TRUE
  <2>1. w = RemoveAt(ext, k) /\ k \in PlaceOf(ext, b)
    BY <1>3 DEF Without
  <2> HIDE DEF k
  <2>2. k \in 1 .. Len(ext) /\ ext[k][1] = b
    BY <2>1, <1>1 DEF PlaceOf
  <2>3. /\ w \in Seq(Entries) /\ Len(w) = Len(ext) - 1
        /\ \A j \in 1 .. Len(ext) - 1 : w[j] = IF j < k THEN ext[j] ELSE ext[j + 1]
    BY <2>1, <2>2, RemoveAtProperties
  <2> DEFINE f(j) == IF j < k THEN j ELSE j + 1
  <2>4. \A j \in 1 .. Len(w) : f(j) \in 1 .. Len(ext) /\ f(j) # k /\ w[j] = ext[f(j)]
    BY SMTT(15), <1>1, <2>2, <2>3
  <2>5. \A i, j \in 1 .. Len(w) : f(i) = f(j) => i = j
    BY SMTT(15), <1>1, <2>2, <2>3
  <2> HIDE DEF f
  <2>6. ASSUME Keyed(ext)
        PROVE  /\ Keyed(w)
               /\ \A j \in 1 .. Len(w) : w[j][1] # b /\ \E i \in 1 .. Len(ext) : w[j] = ext[i]
    <3>1. ASSUME NEW i \in 1 .. Len(w), NEW j \in 1 .. Len(w), w[i][1] = w[j][1] PROVE i = j
      <4>1. /\ f(i) \in 1 .. Len(ext) /\ w[i] = ext[f(i)]
            /\ f(j) \in 1 .. Len(ext) /\ w[j] = ext[f(j)]
        BY <2>4
      <4>2. ext[f(i)][1] = ext[f(j)][1]
        BY <3>1, <4>1
      <4>3. f(i) = f(j)
        BY <2>6, <4>1, <4>2 DEF Keyed
      <4> QED
        BY <2>5, <4>3
    <3>2. ASSUME NEW j \in 1 .. Len(w)
          PROVE  w[j][1] # b /\ \E i \in 1 .. Len(ext) : w[j] = ext[i]
      <4>1. f(j) \in 1 .. Len(ext) /\ f(j) # k /\ w[j] = ext[f(j)]
        BY <2>4
      <4>2. ext[f(j)][1] # ext[k][1]
        BY <2>2, <2>6, <4>1 DEF Keyed
      <4> QED
        BY <2>2, <4>1, <4>2
    <3>3. Keyed(w)
      BY <3>1 DEF Keyed
    <3> QED
      BY <3>2, <3>3
  <2> QED
    BY <2>3, <2>6
<1> QED
  BY <1>2, <1>3

(* and one is made. *)
Enters(ext, b, rid, w) ==
    /\ w \in Seq(Entries)
    /\ PlaceOf(ext, b) = {} =>
          /\ Len(w) = Len(ext) + 1 /\ w[Len(ext) + 1] = <<b, rid>>
          /\ \A i \in 1 .. Len(ext) : i \in 1 .. Len(w) /\ w[i] = ext[i] /\ ext[i][1] # b

LEMMA WithIdKeeps ==
    ASSUME NEW ext \in Seq(Entries), NEW b \in Threads, NEW rid \in Nat,
           NEW w, w = WithId(ext, b, rid)
    PROVE  Enters(ext, b, rid, w)
<1>1. DOMAIN ext = 1 .. Len(ext) /\ Len(ext) \in Nat /\ <<b, rid>> \in Entries
  BY DEF Entries
<1>2. CASE PlaceOf(ext, b) = {}
  <2>1. w = Append(ext, <<b, rid>>)
    BY <1>2 DEF WithId
  <2>2. \A i \in 1 .. Len(ext) : ext[i][1] # b
    BY <1>1, <1>2 DEF PlaceOf
  <2> QED
    BY SMTT(15), <1>1, <2>1, <2>2 DEF Enters
<1>3. CASE PlaceOf(ext, b) # {}
  <2> DEFINE k == CHOOSE i \in PlaceOf(ext, b) : TRUE
  <2>1. w = [ext EXCEPT ![k] = <<b, rid>>] /\ k \in PlaceOf(ext, b)
    BY <1>3 DEF WithId
  <2> HIDE DEF k
  <2>2. k \in 1 .. Len(ext)
    BY <2>1, <1>1 DEF PlaceOf
  <2>3. w \in Seq(Entries)
    BY SMTT(15), <1>1, <2>1, <2>2
  <2> QED
    BY <2>3, <1>3 DEF Enters
<1> QED
  BY <1>2, <1>3

(* A cache goes on to name its client's regions when the oldest buffer is    *)
(* unregistered and dropped from it, *)
LEMMA EvictCache ==
    ASSUME NEW ext \in Seq(Entries), NEW put, NEW regions \in Seq(Buffers), CacheOk(ext, put, regions),
           NEW i \in 1 .. Len(ext), NEW b \in Threads, ext[i][1] = b
    PROVE  CacheOk(Without(ext, b), put, Unregistered(regions, ext[i][2]))
<1> DEFINE w == Without(ext, b)
           new == Unregistered(regions, ext[i][2])
<1>1. /\ Keyed(w) /\ \A j \in 1 .. Len(w) : /\ w[j][1] # b
                                             /\ \E l \in 1 .. Len(ext) : w[j] = ext[l]
  BY SMTT(40), WithoutKeeps DEF CacheOk
<1>2. \A l, v : Names(regions, l, v) /\ l # ext[i][2] => Names(new, l, v)
  BY SMTT(40), UnregisterKeeps
<1>3. Names(regions, ext[i][2], b) /\ b # Inner
  BY RdmaBackendAssumption DEF CacheOk
<1> HIDE DEF w, new
<1>4. \A l, v : Names(regions, l, v) /\ v # b => Names(new, l, v)
  BY <1>2, <1>3 DEF Names
<1>5. \A j \in 1 .. Len(w) : Names(new, w[j][2], w[j][1])
  BY <1>1, <1>4 DEF CacheOk
<1>6. \A e \in put : Names(new, e[2], Inner)
  BY <1>3, <1>4 DEF CacheOk
<1>7. CacheOk(w, put, new)
  BY <1>1, <1>5, <1>6 DEF CacheOk
<1> QED
  BY <1>7 DEF w, new

(* when a buffer it does not have is registered and added, *)
LEMMA RegisterCache ==
    ASSUME NEW ext \in Seq(Entries), NEW put, NEW regions \in Seq(Buffers), CacheOk(ext, put, regions),
           NEW b \in Threads, PlaceOf(ext, b) = {}
    PROVE  CacheOk(WithId(ext, b, SlotFor(regions)), put, Put(regions, SlotFor(regions), b))
<1> DEFINE s == SlotFor(regions)
           w == WithId(ext, b, s)
           new == Put(regions, s, b)
<1>1. b \in Buffers
  BY DEF Buffers
<1>2. s \in Nat /\ Names(new, s, b) /\ \A i, v : Names(regions, i, v) /\ v # Hole => Names(new, i, v)
  BY <1>1, RegisterKeeps
<1> HIDE DEF s
<1>3. /\ Len(w) = Len(ext) + 1 /\ w[Len(ext) + 1] = <<b, s>>
      /\ \A i \in 1 .. Len(ext) : w[i] = ext[i] /\ ext[i][1] # b
  BY SMTT(40), <1>2, WithIdKeeps DEF Enters
<1> HIDE DEF w, new
<1>4. \A i \in 1 .. Len(w) : i \in 1 .. Len(ext) \/ i = Len(ext) + 1
  BY SMTT(15), <1>3
<1>5. <<b, s>>[1] = b /\ <<b, s>>[2] = s
  OBVIOUS
<1>6. Keyed(w)
  <2>1. \A i \in 1 .. Len(w) : w[i][1] = b <=> i = Len(ext) + 1
    BY <1>3, <1>4, <1>5
  <2>2. ASSUME NEW i \in 1 .. Len(w), NEW j \in 1 .. Len(w), w[i][1] = w[j][1] PROVE i = j
    BY ZenonT(40), <2>1, <2>2, <1>3, <1>4 DEF CacheOk, Keyed
  <2> QED
    BY <2>2 DEF Keyed
<1>7. \A i \in 1 .. Len(ext) : ext[i][1] # Hole
  <2>1. \A i \in 1 .. Len(ext) : ext[i] \in Entries
    OBVIOUS
  <2> QED
    BY <2>1, RdmaBackendAssumption DEF Entries
<1>8. \A i \in 1 .. Len(w) : Names(new, w[i][2], w[i][1])
  BY SMTT(40), <1>2, <1>3, <1>4, <1>5, <1>7 DEF CacheOk
<1>9. Inner # Hole
  BY DEF Inner, Hole
<1>10. \A e \in put : Names(new, e[2], Inner)
  BY <1>2, <1>9 DEF CacheOk
<1>11. CacheOk(w, put, new)
  BY <1>6, <1>8, <1>10 DEF CacheOk
<1> QED
  BY <1>11 DEF w, new, s

(* and when the client's own buffer is. *)
LEMMA StageCache ==
    ASSUME NEW ext \in Seq(Entries), NEW put, NEW regions \in Seq(Buffers), CacheOk(ext, put, regions), NEW a
    PROVE  CacheOk(ext, put \cup {<<a, SlotFor(regions)>>}, Put(regions, SlotFor(regions), Inner))
<1> DEFINE s == SlotFor(regions)
           new == Put(regions, s, Inner)
<1>1. Inner \in Buffers /\ Inner # Hole
  BY DEF Buffers, Inner, Hole
<1>2. Names(new, s, Inner) /\ \A i, v : Names(regions, i, v) /\ v # Hole => Names(new, i, v)
  BY <1>1, RegisterKeeps
<1> HIDE DEF s, new
<1>3. \A i \in 1 .. Len(ext) : ext[i][1] # Hole
  <2>1. \A i \in 1 .. Len(ext) : ext[i] \in Entries
    OBVIOUS
  <2> QED
    BY <2>1, RdmaBackendAssumption DEF Entries
<1>4. <<a, s>>[2] = s
  OBVIOUS
<1>5. CacheOk(ext, put \cup {<<a, s>>}, new)
  BY <1>1, <1>2, <1>3, <1>4 DEF CacheOk
<1> QED
  BY <1>5 DEF s, new

-----------------------------------------------------------------------------
(* Thread records. *)

(* Another thread's step leaves u's record as it is, but may set hurt and    *)
(* reset clean.                                                              *)
Follows(x, y) ==
    /\ y.pc = x.pc /\ y.path = x.path /\ y.att = x.att /\ y.client = x.client
    /\ y.dict = x.dict /\ y.key = x.key /\ y.rid = x.rid /\ y.region = x.region
    /\ y.old = x.old /\ y.dst = x.dst /\ y.out = x.out /\ y.got = x.got
    /\ y.clean = TRUE => x.clean = TRUE
    /\ x.hurt = TRUE => y.hurt = TRUE
Turns(t, r) ==
    /\ th' \in [Threads -> ThRec] /\ th'[t] = r
    /\ \A u \in Threads \ {t} : Follows(th[u], th'[u])

LEMMA SetTurns ==
    ASSUME ThreadsTyped, NEW t \in Threads, NEW r \in ThRec, Set(t, r)
    PROVE  Turns(t, r)
<1>1. th \in [Threads -> ThRec] /\ th' = [th EXCEPT ![t] = r]
  BY DEF ThreadsTyped, Set
<1> QED
  BY <1>1 DEF Turns, Follows

LEMMA DisturbTurns ==
    ASSUME ThreadsTyped, NEW t \in Threads, NEW r \in ThRec, Disturbing(t, r)
    PROVE  Turns(t, r) /\ \A u \in Threads \ {t} : th'[u].clean = TRUE => th[u].pc = "idle"
<1> DEFINE y(u) == [th[u] EXCEPT !.clean = th[u].clean /\ At(u, "idle")]
<1>1. th \in [Threads -> ThRec]
  BY DEF ThreadsTyped
<1>2. th' = [u \in Threads |-> IF u = t THEN r ELSE y(u)]
  BY DEF Disturbing
<1>3. ASSUME NEW u \in Threads
      PROVE  y(u) \in ThRec /\ Follows(th[u], y(u)) /\ (y(u).clean = TRUE => th[u].pc = "idle")
  <2>1. th[u] \in ThRec /\ th[u].clean \in BOOLEAN
    BY <1>1 DEF ThRec
  <2>2. (th[u].clean /\ At(u, "idle")) \in BOOLEAN
    OBVIOUS
  <2>3. y(u).clean = (th[u].clean /\ At(u, "idle"))
    BY <2>1 DEF ThRec
  <2>4. y(u) \in ThRec
    BY ZenonT(40), <2>1, <2>2 DEF ThRec
  <2>5. y(u).clean = TRUE => th[u].pc = "idle" /\ th[u].clean = TRUE
    BY <2>1, <2>3 DEF At
  <2>6. /\ y(u).pc = th[u].pc /\ y(u).path = th[u].path /\ y(u).att = th[u].att
        /\ y(u).client = th[u].client /\ y(u).dict = th[u].dict /\ y(u).key = th[u].key
        /\ y(u).rid = th[u].rid /\ y(u).region = th[u].region /\ y(u).old = th[u].old
        /\ y(u).dst = th[u].dst /\ y(u).out = th[u].out /\ y(u).got = th[u].got
        /\ y(u).hurt = th[u].hurt
    BY <2>1 DEF ThRec
  <2> QED
    BY <2>4, <2>5, <2>6 DEF Follows
<1> HIDE DEF y
<1> QED
  BY <1>2, <1>3 DEF Turns

LEMMA HurtRec ==
    ASSUME ThreadsTyped, NEW u \in Threads
    PROVE  /\ Hurt[u] \in ThRec /\ Follows(th[u], Hurt[u])
           /\ th[u].pc # "idle" => Hurt[u].hurt = TRUE
<1> DEFINE y == [th[u] EXCEPT !.hurt = th[u].hurt \/ ~At(u, "idle")]
<1>1. th[u] \in ThRec /\ th[u].hurt \in BOOLEAN
  BY DEF ThreadsTyped, ThRec
<1>2. Hurt[u] = y
  BY DEF Hurt
<1>3. (th[u].hurt \/ ~At(u, "idle")) \in BOOLEAN
  OBVIOUS
<1>4. y.hurt = (th[u].hurt \/ ~At(u, "idle"))
  BY <1>1 DEF ThRec
<1>5. y \in ThRec
  BY ZenonT(40), <1>1, <1>3 DEF ThRec
<1>6. (th[u].hurt = TRUE => y.hurt = TRUE) /\ (th[u].pc # "idle" => y.hurt = TRUE)
  BY <1>1, <1>4 DEF At
<1>7. /\ y.pc = th[u].pc /\ y.path = th[u].path /\ y.att = th[u].att
      /\ y.client = th[u].client /\ y.dict = th[u].dict /\ y.key = th[u].key
      /\ y.rid = th[u].rid /\ y.region = th[u].region /\ y.old = th[u].old
      /\ y.dst = th[u].dst /\ y.out = th[u].out /\ y.got = th[u].got
      /\ y.clean = th[u].clean
  BY <1>1 DEF ThRec
<1> HIDE DEF y
<1> QED
  BY <1>2, <1>5, <1>6, <1>7 DEF Follows

LEMMA HurtTurns ==
    ASSUME ThreadsTyped, NEW t \in Threads, NEW r \in ThRec, th' = [Hurt EXCEPT ![t] = r]
    PROVE  Turns(t, r) /\ \A u \in Threads \ {t} : th[u].pc # "idle" => th'[u].hurt = TRUE
<1>1. DOMAIN Hurt = Threads
  BY DEF Hurt
<1>2. Hurt \in [Threads -> ThRec]
  <2>1. Hurt = [u \in Threads |-> Hurt[u]]
    BY DEF Hurt
  <2> QED
    BY <2>1, HurtRec
<1> QED
  BY <1>1, <1>2, HurtRec DEF Turns

(* What a step may do to the shared state without disturbing anybody. *)
Calm ==
    /\ era' = era
    /\ pool = 0 => pool' = 0 \/ clients'[pool'].conn = epoch
    /\ pool # 0 =>
          /\ pool' = pool
          /\ clients'[pool].inner = clients[pool].inner /\ clients'[pool].conn = clients[pool].conn
          /\ \A i, v : Names(clients[pool].regions, i, v) /\ v # Hole
                          => Names(clients'[pool].regions, i, v)
    /\ mixed' = FALSE =>
          /\ mixed = FALSE
          /\ \A i \in 1 .. Len(dicts[era].ext) :
                i \in 1 .. Len(dicts'[era].ext) /\ dicts'[era].ext[i] = dicts[era].ext[i]
Spared(u) ==
    /\ Calm /\ mem'[u] = mem[u]
    /\ \/ enabled' = enabled /\ up' = up /\ epoch' = epoch
       \/ th[u].pc # "idle" => th'[u].hurt = TRUE

LEMMA OwnFrame ==
    ASSUME NEW u, NEW x, NEW y, NEW n, NEW k, NEW e, NEW ext, NEW m, NEW n2, NEW k2, NEW ext2,
           Own(u, x, n, k, e, ext, m), Follows(x, y), Shape(u, x),
           n # 0 => /\ n2 = n /\ k2.inner = k.inner
                    /\ \A i, v : Names(k.regions, i, v) /\ v # Hole => Names(k2.regions, i, v),
           \A i \in 1 .. Len(ext) : i \in 1 .. Len(ext2) /\ ext2[i] = ext[i]
    PROVE  Own(u, y, n2, k2, e, ext2, m)
<1>1. Registering(u, y, e) /\ (Direct(y) <=> Direct(x)) /\ (Staged(u, y) <=> Staged(u, x))
  BY DEF Own, Follows, Registering, Direct, Staged
<1>2. y.pc \in UsePcs => n2 # 0 /\ y.client = n2
  BY DEF Own, Follows
<1>3. Direct(y) => n2 # 0 /\ \E i \in 1 .. Len(ext2) : ext2[i] = <<u, y.rid>>
  BY ZenonT(40), <1>1 DEF Own, Follows
<1>4. Staged(u, x) \/ x.pc = "view" => n # 0
  BY DEF Own, Staged, UsePcs
<1>5. Inner # Hole
  BY DEF Inner, Hole
<1>6. Staged(u, y) => Names(k2.regions, y.rid, Inner)
  BY <1>1, <1>4, <1>5 DEF Own, Follows
<1>7. (Staged(u, y) /\ y.pc # "copy") \/ y.pc = "view" => k2.inner = u
  BY <1>1, <1>4 DEF Own, Follows
<1>8. /\ y.path = "zc" /\ (y.pc \in {"reset", "close"} \/ (y.pc \in {"call", "return"} /\ y.att = 0))
            => y.region = u
      /\ y.pc = "return" => y.dst = IF y.path = "zc" THEN u ELSE Inner
      /\ u \in Storers /\ y.pc # "idle" => m = u
      /\ y.out = "ok" => y.got = u
  BY DEF Own, Follows
<1> QED
  BY <1>1, <1>2, <1>3, <1>6, <1>7, <1>8 DEF Own

LEMMA HealsFrame ==
    ASSUME NEW u, NEW x, NEW y, NEW n, NEW k, NEW n2, NEW k2, NEW en, NEW on, NEW ep,
           NEW en2, NEW on2, NEW ep2, Heals(u, x, n, k, en, on, ep), Follows(x, y),
           x.hurt \in BOOLEAN, y.hurt \in BOOLEAN,
           n # 0 => n2 = n /\ k2.conn = k.conn,
           n = 0 => n2 = 0 \/ k2.conn = ep,
           (en2 = en /\ on2 = on /\ ep2 = ep) \/ (x.pc # "idle" => y.hurt = TRUE)
    PROVE  Heals(u, y, n2, k2, en2, on2, ep2)
<1>1. y.pc = x.pc /\ y.path = x.path /\ y.att = x.att /\ y.out = x.out /\ (y.hurt = FALSE => x.hurt = FALSE)
  BY DEF Follows
<1>2. CASE x.pc # "idle" => y.hurt = TRUE
  BY <1>1, <1>2 DEF Heals
<1>3. CASE en2 = en /\ on2 = on /\ ep2 = ep
  BY <1>1, <1>3 DEF Heals
<1> QED
  BY <1>2, <1>3

(* A thread that the step of another leaves alone, or finds idle, is fine. *)
LEMMA Others ==
    ASSUME ThreadsTyped, th' \in [Threads -> ThRec], NEW u \in Threads, Fine(u), Follows(th[u], th'[u]),
           mixed' = FALSE => mixed = FALSE,
           (th'[u].clean = TRUE => th[u].pc = "idle") \/ Spared(u)
    PROVE  Fine(u)'
<1>1. SUFFICES ASSUME mixed' = FALSE, th'[u].clean = TRUE
               PROVE  /\ Own(u, th'[u], pool', clients'[pool'], era', dicts'[era'].ext, mem'[u])
                      /\ Heals(u, th'[u], pool', clients'[pool'], enabled', up', epoch')
  BY DEF Fine
<1>2. /\ Own(u, th[u], pool, clients[pool], era, dicts[era].ext, mem[u])
      /\ Heals(u, th[u], pool, clients[pool], enabled, up, epoch)
  BY <1>1 DEF Fine, Follows
<1>3. th[u].hurt \in BOOLEAN /\ th'[u].hurt \in BOOLEAN /\ Shape(u, th[u])
  BY DEF ThreadsTyped, ThRec
<1>4. CASE th[u].pc = "idle"
  <2>1. th'[u].pc = "idle" /\ th'[u].out = th[u].out /\ th'[u].got = th[u].got
    BY <1>4 DEF Follows
  <2>2. (th[u].out = "ok" => th[u].got = u) /\ th[u].out # "grpc"
    BY <1>2 DEF Own, Heals
  <2>3. Own(u, th'[u], pool', clients'[pool'], era', dicts'[era'].ext, mem'[u])
    BY <2>1, <2>2 DEF Own, Registering, Direct, Staged, UsePcs, EnsurePcs
  <2>4. Heals(u, th'[u], pool', clients'[pool'], enabled', up', epoch')
    BY <2>1, <2>2 DEF Heals
  <2> QED
    BY <2>3, <2>4
<1>5. CASE Spared(u)
  <2>1. /\ pool # 0 => /\ pool' = pool /\ clients'[pool'].inner = clients[pool].inner
                       /\ \A i, v : Names(clients[pool].regions, i, v) /\ v # Hole
                              => Names(clients'[pool'].regions, i, v)
        /\ \A i \in 1 .. Len(dicts[era].ext) :
                i \in 1 .. Len(dicts'[era'].ext) /\ dicts'[era'].ext[i] = dicts[era].ext[i]
        /\ era' = era /\ mem'[u] = mem[u]
    BY <1>1, <1>5 DEF Spared, Calm
  <2>2. /\ pool # 0 => pool' = pool /\ clients'[pool'].conn = clients[pool].conn
        /\ pool = 0 => pool' = 0 \/ clients'[pool'].conn = epoch
        /\ (enabled' = enabled /\ up' = up /\ epoch' = epoch) \/ (th[u].pc # "idle" => th'[u].hurt = TRUE)
    BY <1>5 DEF Spared, Calm
  <2>3. Own(u, th'[u], pool', clients'[pool'], era, dicts'[era'].ext, mem[u])
    BY SMTT(40), <1>2, <1>3, <2>1, OwnFrame
  <2>4. Heals(u, th'[u], pool', clients'[pool'], enabled', up', epoch')
    BY <1>2, <1>3, <2>2, HealsFrame
  <2> QED
    BY <2>1, <2>3, <2>4
<1> QED
  BY <1>1, <1>4, <1>5

-----------------------------------------------------------------------------
(* One step of thread t, which leaves it as r. *)

LEMMA ClientFields ==
    ASSUME TablesTyped, NEW c \in 1 .. Len(clients)
    PROVE  /\ clients[c].open \in BOOLEAN /\ clients[c].conn \in Nat /\ clients[c].era \in Nat
           /\ clients[c].regions \in Seq(Buffers) /\ clients[c].inner \in Opt
<1>1. PICK A : clients \in Seq(ClientRec(A))
  BY DEF TablesTyped
<1>2. clients[c] \in ClientRec(A)
  BY <1>1
<1> QED
  BY <1>2 DEF ClientRec

LEMMA DictFields ==
    ASSUME TablesTyped, NEW d \in 1 .. Len(dicts)
    PROVE  dicts[d].ext \in Seq(Entries)
<1>1. PICK A : dicts \in Seq(DictRec(A))
  BY DEF TablesTyped
<1>2. dicts[d] \in DictRec(A)
  BY <1>1
<1> QED
  BY <1>2 DEF DictRec

LEMMA Lengths ==
    ASSUME TablesTyped
    PROVE  /\ Len(clients) \in Nat /\ Len(dicts) \in Nat /\ pool \in Nat /\ era \in 1 .. Len(dicts)
           /\ pool # 0 => pool \in 1 .. Len(clients)
           /\ 0 \in 0 .. Len(clients) /\ 0 \in 0 .. Len(dicts)
           /\ era \in 0 .. Len(dicts) /\ pool \in 0 .. Len(clients)
<1>1. PICK A : clients \in Seq(ClientRec(A)) /\ dicts \in Seq(DictRec(A))
  BY DEF TablesTyped
<1>2. Len(clients) \in Nat /\ Len(dicts) \in Nat
  BY <1>1
<1> QED
  BY SMTT(15), <1>2 DEF TablesTyped

(* The record stays in place when the tables do not shrink. *)
Grown == Len(clients) <= Len(clients') /\ Len(dicts) <= Len(dicts')
Fits(t, r) ==
    r \in ThRec /\ Shape(t, r) /\ r.client \in 0 .. Len(clients') /\ r.dict \in 0 .. Len(dicts')

LEMMA TurnsTyped ==
    ASSUME TablesTyped, TablesTyped', ThreadsTyped, Grown, NEW t \in Threads, NEW r, Turns(t, r), Fits(t, r)
    PROVE  ThreadsTyped'
<1>1. th' \in [Threads -> ThRec] /\ th'[t] = r
  BY DEF Turns
<1>2. ASSUME NEW u \in Threads \ {t}
      PROVE  /\ Shape(u, th'[u]) /\ th'[u].client \in 0 .. Len(clients')
             /\ th'[u].dict \in 0 .. Len(dicts')
  <2>1. /\ Shape(u, th[u]) /\ th[u].client \in 0 .. Len(clients) /\ th[u].dict \in 0 .. Len(dicts)
    BY DEF ThreadsTyped
  <2>2. Follows(th[u], th'[u])
    BY DEF Turns
  <2>3. Shape(u, th'[u])
    BY SMTT(40), <2>1, <2>2 DEF Shape, Follows
  <2>4. th'[u].client = th[u].client /\ th'[u].dict = th[u].dict
    BY <2>2 DEF Follows
  <2>5. Len(clients) \in Nat /\ Len(dicts) \in Nat
    BY Lengths
  <2>6. Len(clients') \in Nat /\ Len(dicts') \in Nat
    <3>1. PICK A : clients' \in Seq(ClientRec(A)) /\ dicts' \in Seq(DictRec(A))
      BY DEF TablesTyped
    <3> QED
      BY <3>1
  <2>7. th'[u].client \in 0 .. Len(clients') /\ th'[u].dict \in 0 .. Len(dicts')
    BY SMTT(15), <2>1, <2>4, <2>5, <2>6 DEF Grown
  <2> QED
    BY <2>3, <2>7
<1>3. \A u \in Threads : /\ Shape(u, th'[u]) /\ th'[u].client \in 0 .. Len(clients')
                         /\ th'[u].dict \in 0 .. Len(dicts')
  BY <1>1, <1>2 DEF Fits
<1> QED
  BY <1>1, <1>3 DEF ThreadsTyped

RestTyped ==
    /\ TablesTyped /\ mem \in [Threads -> Opt] /\ enabled \in BOOLEAN /\ up \in BOOLEAN
    /\ mixed \in BOOLEAN /\ epoch \in Nat

LEMMA Combine ==
    ASSUME RdmaInv, NEW t \in Threads, NEW r, Turns(t, r), Fits(t, r), Grown, RestTyped',
           PoolInv', Closing', CachesInv', mixed' = FALSE => mixed = FALSE, Fine(t)',
           \A u \in Threads \ {t} : (th'[u].clean = TRUE => th[u].pc = "idle") \/ Spared(u)
    PROVE  RdmaInv'
<1>1. ThreadsTyped /\ TablesTyped
  BY DEF RdmaInv, Typed
<1>2. TablesTyped'
  BY DEF RestTyped
<1>3. ThreadsTyped'
  BY <1>1, <1>2, TurnsTyped
<1>4. Typed'
  BY <1>3 DEF Typed, RestTyped
<1>5. ASSUME NEW u \in Threads \ {t} PROVE Fine(u)'
  <2>1. Fine(u)
    BY DEF RdmaInv
  <2>2. th' \in [Threads -> ThRec] /\ Follows(th[u], th'[u])
    BY DEF Turns
  <2> QED
    BY <1>1, <2>1, <2>2, Others
<1>6. \A u \in Threads : Fine(u)'
  BY <1>5
<1> QED
  BY <1>4, <1>6 DEF RdmaInv

(* Nothing is closed, and nobody starts to. *)
LEMMA ClosingKept ==
    ASSUME Closing, NEW t \in Threads, NEW r, Turns(t, r), r.pc # "close", TablesTyped, TablesTyped', Grown,
           \A c \in 1 .. Len(clients) : clients[c].open => clients'[c].open,
           \A c \in 1 .. Len(clients) : clients[c].open /\ c # pool => c # pool'
    PROVE  Closing'
<1>1. ASSUME NEW u \in Threads, th'[u].pc = "close", th'[u].old # 0
      PROVE  /\ th'[u].old \in 1 .. Len(clients') /\ clients'[th'[u].old].open /\ th'[u].old # pool'
             /\ \A v \in Threads : v # u /\ th'[v].pc = "close" => th'[v].old # th'[u].old
  <2>1. u # t
    BY <1>1 DEF Turns
  <2>2. th[u].pc = "close" /\ th[u].old = th'[u].old
    BY <1>1, <2>1 DEF Turns, Follows
  <2>3. /\ th[u].old \in 1 .. Len(clients) /\ clients[th[u].old].open /\ th[u].old # pool
        /\ \A v \in Threads : v # u /\ th[v].pc = "close" => th[v].old # th[u].old
    BY <1>1, <2>2 DEF Closing
  <2>4. th[u].old \in 1 .. Len(clients')
    <3>1. Len(clients) \in Nat
      BY Lengths
    <3>2. PICK A : clients' \in Seq(ClientRec(A))
      BY DEF TablesTyped
    <3> QED
      BY SMTT(15), <2>3, <3>1, <3>2 DEF Grown
  <2>5. ASSUME NEW v \in Threads, v # u, th'[v].pc = "close" PROVE th'[v].old # th'[u].old
    <3>1. v # t
      BY <2>5 DEF Turns
    <3>2. th[v].pc = "close" /\ th[v].old = th'[v].old
      BY <2>5, <3>1 DEF Turns, Follows
    <3> QED
      BY <3>2, <2>2, <2>3, <2>5
  <2> QED
    BY <2>2, <2>3, <2>4, <2>5
<1> QED
  BY <1>1 DEF Closing

(* The tables stay as they are, but for the lock of a client. *)
SameClients ==
    /\ Len(clients') = Len(clients)
    /\ \A c \in 1 .. Len(clients) :
          /\ clients'[c].open = clients[c].open /\ clients'[c].conn = clients[c].conn
          /\ clients'[c].era = clients[c].era /\ clients'[c].regions = clients[c].regions
          /\ clients'[c].inner = clients[c].inner
SameRest ==
    /\ pool' = pool /\ dicts' = dicts /\ era' = era /\ mixed' = mixed
    /\ enabled' = enabled /\ up' = up /\ epoch' = epoch

LEMMA LockOnly ==
    ASSUME TablesTyped, NEW c \in 1 .. Len(clients), NEW v \in Opt, SameRest,
           clients' = [clients EXCEPT ![c].lock = v]
    PROVE  TablesTyped' /\ SameClients
<1>1. PICK A : clients \in Seq(ClientRec(A)) /\ dicts \in Seq(DictRec(A))
  BY DEF TablesTyped
<1> DEFINE k == [clients[c] EXCEPT !.lock = v]
<1>2. clients[c] \in ClientRec(A)
  BY <1>1
<1>3. k \in ClientRec(A)
  BY <1>2 DEF ClientRec
<1>4. /\ k.open = clients[c].open /\ k.conn = clients[c].conn /\ k.era = clients[c].era
      /\ k.regions = clients[c].regions /\ k.inner = clients[c].inner
  BY <1>2 DEF ClientRec
<1>5. clients' = [clients EXCEPT ![c] = k]
  OBVIOUS
<1> HIDE DEF k
<1>6. clients' \in Seq(ClientRec(A)) /\ Len(clients') = Len(clients)
  BY SMTT(15), <1>1, <1>3, <1>5
<1>7. DOMAIN clients = 1 .. Len(clients)
  BY <1>1
<1>8. SameClients
  BY <1>4, <1>5, <1>6, <1>7 DEF SameClients
<1>9. TablesTyped'
  BY <1>1, <1>6 DEF TablesTyped, SameRest
<1> QED
  BY <1>8, <1>9

LEMMA QuietStep ==
    ASSUME RdmaInv, NEW t \in Threads, NEW r, Turns(t, r), Fits(t, r), r.pc # "close",
           SameClients, TablesTyped', SameRest, mem' \in [Threads -> Opt],
           \A u \in Threads \ {t} : mem'[u] = mem[u], Fine(t)'
    PROVE  RdmaInv'
<1>1. TablesTyped /\ RestTyped'
  BY DEF RdmaInv, Typed, RestTyped, SameRest
<1>2. /\ Len(clients) \in Nat /\ Len(dicts) \in Nat
      /\ pool # 0 => pool \in 1 .. Len(clients)
  BY <1>1, Lengths
<1>3. Grown
  BY SMTT(15), <1>2 DEF Grown, SameClients, SameRest
<1>4. PoolInv'
  BY SMTT(40), <1>2 DEF RdmaInv, PoolInv, SameClients, SameRest
<1>5. CachesInv'
  BY <1>2 DEF RdmaInv, CachesInv, SameClients, SameRest
<1>6. Closing'
  <2>1. Closing
    BY DEF RdmaInv
  <2>2. \A c \in 1 .. Len(clients) : clients[c].open => clients'[c].open
    BY DEF SameClients
  <2>3. pool' = pool
    BY DEF SameRest
  <2> QED
    BY <1>1, <1>3, <2>1, <2>2, <2>3, ClosingKept
<1>7. Calm
  BY <1>2 DEF Calm, SameClients, SameRest
<1>8. \A u \in Threads \ {t} : Spared(u)
  BY <1>7 DEF Spared, SameRest
<1>9. mixed' = FALSE => mixed = FALSE
  BY DEF SameRest
<1> QED
  BY <1>1, <1>3, <1>4, <1>5, <1>6, <1>8, <1>9, Combine

LEMMA UnchangedTables ==
    ASSUME TablesTyped, clients' = clients, SameRest
    PROVE  TablesTyped' /\ SameClients
BY DEF TablesTyped, SameClients, SameRest

(* What is known of the thread that moves. *)
LEMMA Mover ==
    ASSUME RdmaInv, NEW t \in Threads
    PROVE  /\ TablesTyped /\ ThreadsTyped /\ th[t] \in ThRec /\ Shape(t, th[t])
           /\ th[t].client \in 0 .. Len(clients) /\ th[t].dict \in 0 .. Len(dicts)
           /\ th[t].pc \in UsePcs => th[t].client \in 1 .. Len(clients)
           /\ th[t].pc \in {"evict", "register"} => th[t].dict \in 1 .. Len(dicts)
           /\ mem \in [Threads -> Opt] /\ mem[t] \in Opt
<1>1. /\ TablesTyped /\ ThreadsTyped /\ th[t] \in ThRec /\ Shape(t, th[t])
      /\ th[t].client \in 0 .. Len(clients) /\ th[t].dict \in 0 .. Len(dicts)
      /\ mem \in [Threads -> Opt] /\ mem[t] \in Opt
  BY DEF RdmaInv, Typed, ThreadsTyped
<1>2. Len(clients) \in Nat /\ Len(dicts) \in Nat
  BY <1>1, Lengths
<1>3. th[t].client # 0 => th[t].client \in 1 .. Len(clients)
  BY SMTT(15), <1>1, <1>2
<1>4. th[t].dict # 0 => th[t].dict \in 1 .. Len(dicts)
  BY SMTT(15), <1>1, <1>2
<1> QED
  BY <1>1, <1>3, <1>4 DEF Shape

LEMMA WhenClean ==
    ASSUME RdmaInv, NEW t \in Threads, mixed = FALSE, th[t].clean = TRUE
    PROVE  /\ Own(t, th[t], pool, clients[pool], era, dicts[era].ext, mem[t])
           /\ Heals(t, th[t], pool, clients[pool], enabled, up, epoch)
BY DEF RdmaInv, Fine

LEMMA IsFine ==
    ASSUME NEW t, NEW r, th'[t] = r,
           mixed' = FALSE /\ r.clean = TRUE =>
               /\ Own(t, r, pool', clients'[pool'], era', dicts'[era'].ext, mem'[t])
               /\ Heals(t, r, pool', clients'[pool'], enabled', up', epoch')
    PROVE  Fine(t)'
BY DEF Fine

-----------------------------------------------------------------------------
(* The records that calls end and go on with. *)

LEMMA IdleRec == Idle \in ThRec /\ \A u : Shape(u, Idle)
BY DEF Idle, ThRec, Shape, Pcs, ZcPcs, InnerPcs, UsePcs, EnsurePcs, Opt, Outs

(* The fallbacks. *)
Over(x, y) ==
    /\ y \in ThRec /\ (\A u : Shape(u, y)) /\ y.client = 0 /\ y.dict = 0
    /\ y.clean = TRUE => x.clean = TRUE
Ended(x, y, out, got) ==
    /\ Over(x, y) /\ y.pc = "idle" /\ y.out = out /\ y.got = got
    /\ y.clean = TRUE => out # "grpc" \/ x.hurt = FALSE

LEMMA DoneRec ==
    ASSUME NEW x \in ThRec, NEW out \in Outs, NEW got \in Opt, NEW y, y = Done(x, out, got)
    PROVE  Ended(x, y, out, got)
<1> DEFINE cl == x.clean /\ ~(out = "grpc" /\ x.hurt)
<1>1. Idle \in ThRec
  BY IdleRec
<1>2. y = [Idle EXCEPT !.clean = cl, !.out = out, !.got = got]
  BY DEF Done
<1>3. cl \in BOOLEAN /\ x.clean \in BOOLEAN /\ x.hurt \in BOOLEAN
  BY DEF ThRec
<1>4. cl = TRUE => x.clean = TRUE /\ (out # "grpc" \/ x.hurt = FALSE)
  BY <1>3
<1> HIDE DEF cl
<1>5. y \in ThRec
  BY ZenonT(40), <1>1, <1>2, <1>3 DEF ThRec
<1>6. y.pc = "idle" /\ y.out = out /\ y.got = got /\ y.clean = cl /\ y.client = 0 /\ y.dict = 0
  BY ZenonT(40), <1>2 DEF Idle
<1>7. \A u : Shape(u, y)
  BY <1>6 DEF Shape, UsePcs, EnsurePcs, ZcPcs, InnerPcs
<1> QED
  BY <1>4, <1>5, <1>6, <1>7 DEF Over, Ended

LEMMA ToBytesRec ==
    ASSUME NEW x \in ThRec, NEW y, y = ToBytes(x)
    PROVE  Over(x, y) /\ y.pc = "inner" /\ y.path = "inner" /\ y.att = 0 /\ y.out = "none" /\ y.hurt = x.hurt
<1>1. Idle \in ThRec /\ x.clean \in BOOLEAN /\ x.hurt \in BOOLEAN /\ "inner" \in Pcs
  BY IdleRec DEF ThRec, Pcs, InnerPcs
<1>2. y \in ThRec
  BY <1>1 DEF ToBytes, ThRec
<1>3. /\ y.pc = "inner" /\ y.path = "inner" /\ y.att = 0 /\ y.out = "none" /\ y.hurt = x.hurt
      /\ y.clean = x.clean /\ y.client = 0 /\ y.dict = 0
  BY DEF ToBytes, Idle
<1>4. \A u : Shape(u, y)
  BY <1>3 DEF Shape, UsePcs, EnsurePcs, ZcPcs, InnerPcs
<1> QED
  BY <1>2, <1>3, <1>4 DEF Over

LEMMA ZcFailedRec ==
    ASSUME NEW x \in ThRec, NEW y, y = ZcFailed(x)
    PROVE  /\ Over(x, y)
           /\ \/ y.pc = "idle" /\ y.out = "error"
              \/ y.pc = "inner" /\ y.path = "inner" /\ y.att = 0 /\ y.out = "none" /\ y.hurt = x.hurt
<1>1. CASE Fallback
  BY <1>1, ToBytesRec DEF ZcFailed
<1>2. CASE ~Fallback
  <2>1. "error" \in Outs /\ None \in Opt
    BY DEF Outs, Opt
  <2>2. y = Done(x, "error", None)
    BY <1>2 DEF ZcFailed
  <2>3. Ended(x, y, "error", None)
    BY <2>1, <2>2, DoneRec
  <2> QED
    BY <2>3 DEF Ended
<1> QED
  BY <1>1, <1>2

LEMMA InnerFailedRec ==
    ASSUME NEW x \in ThRec, NEW y, y = InnerFailed(x)
    PROVE  /\ Over(x, y) /\ y.pc = "idle" /\ y.out \in {"grpc", "error"}
           /\ y.clean = TRUE => y.out # "grpc" \/ x.hurt = FALSE
<1> DEFINE out == IF Fallback THEN "grpc" ELSE "error"
<1>1. out \in Outs /\ None \in Opt /\ out \in {"grpc", "error"}
  BY DEF Outs, Opt
<1>2. y = Done(x, out, None)
  BY DEF InnerFailed
<1> HIDE DEF out
<1>3. Ended(x, y, out, None)
  BY <1>1, <1>2, DoneRec
<1> QED
  BY <1>1, <1>3 DEF Ended

LEMMA ResetRec ==
    ASSUME NEW x \in ThRec, x.att # 1, NEW y, y = Errored(x)
    PROVE  /\ Over(x, y) /\ y.pc = "reset" /\ y.path = x.path /\ y.region = x.region /\ y.att = 0
           /\ y.out = "none" /\ y.hurt = x.hurt
<1>1. Idle \in ThRec /\ x.clean \in BOOLEAN /\ x.hurt \in BOOLEAN /\ "reset" \in Pcs
      /\ x.path \in {"zc", "inner"} /\ x.region \in Opt
  BY IdleRec DEF ThRec, Pcs
<1>2. y = [Idle EXCEPT !.pc = "reset", !.path = x.path, !.region = x.region,
                       !.clean = x.clean, !.hurt = x.hurt]
  BY DEF Errored
<1>3. y \in ThRec
  BY ZenonT(40), <1>1, <1>2 DEF ThRec
<1>4. /\ y.pc = "reset" /\ y.path = x.path /\ y.region = x.region /\ y.att = 0 /\ y.out = "none"
      /\ y.hurt = x.hurt /\ y.clean = x.clean /\ y.client = 0 /\ y.dict = 0
  BY ZenonT(40), <1>2 DEF Idle
<1>5. \A u : Shape(u, y)
  BY <1>4 DEF Shape, UsePcs, EnsurePcs, ZcPcs, InnerPcs
<1> QED
  BY <1>3, <1>4, <1>5 DEF Over

(* What they ask for. *)
LEMMA OwnIdle ==
    ASSUME NEW u, NEW y, NEW n, NEW k, NEW e, NEW ext, NEW m, y.pc = "idle", y.out = "ok" => y.got = u
    PROVE  Own(u, y, n, k, e, ext, m)
BY DEF Own, Registering, Direct, Staged, UsePcs, EnsurePcs

LEMMA OwnInner ==
    ASSUME NEW u, NEW y, NEW n, NEW k, NEW e, NEW ext, NEW m, y.pc = "inner", y.path = "inner",
           y.out = "none", u \in Storers => m = u
    PROVE  Own(u, y, n, k, e, ext, m)
BY DEF Own, Registering, Direct, Staged, UsePcs, EnsurePcs

LEMMA OwnReset ==
    ASSUME NEW u, NEW y, NEW n, NEW k, NEW e, NEW ext, NEW m, y.pc \in {"reset", "close"},
           y.path = "zc" => y.region = u, y.out = "none", u \in Storers => m = u
    PROVE  Own(u, y, n, k, e, ext, m)
BY DEF Own, Registering, Direct, Staged, UsePcs, EnsurePcs

HasRegion(u, x, rid, y) ==
    /\ y \in ThRec /\ Shape(u, y)
    /\ y.pc = (IF x.att = 0 THEN "begin" ELSE "again") /\ y.rid = rid
    /\ y.path = x.path /\ y.att = x.att /\ y.client = 0 /\ y.dict = 0
    /\ y.region = x.region /\ y.clean = x.clean /\ y.hurt = x.hurt /\ y.out = x.out

LEMMA EnsuredRec ==
    ASSUME NEW x \in ThRec, NEW rid \in Nat, NEW u, x.out = "none", x.path = "zc", NEW y, y = Ensured(x, rid)
    PROVE  HasRegion(u, x, rid, y)
<1>1. /\ y.pc = (IF x.att = 0 THEN "begin" ELSE "again") /\ y.rid = rid
      /\ y.path = x.path /\ y.att = x.att /\ y.client = 0 /\ y.dict = 0
      /\ y.region = x.region /\ y.clean = x.clean /\ y.hurt = x.hurt /\ y.out = x.out
  BY DEF Ensured, ThRec
<1>2. "begin" \in Pcs /\ "again" \in Pcs /\ None \in Opt /\ 0 \in Nat
  BY DEF Pcs, ZcPcs, Opt
<1>3. y \in ThRec
  BY ZenonT(40), <1>2 DEF Ensured, ThRec
<1>4. x.att \in {0, 1}
  BY DEF ThRec
<1>5. Shape(u, y)
  BY <1>1, <1>4 DEF Shape, UsePcs, EnsurePcs, ZcPcs, InnerPcs
<1> QED
  BY <1>1, <1>3, <1>5 DEF HasRegion

(* A call that failed: it ends, tries the bytes path, or resets the pool.    *)
Falls(x, y) ==
    /\ Over(x, y)
    /\ \/ y.pc = "idle" /\ y.out \in {"grpc", "error", "miss"}
       \/ y.pc = "inner" /\ y.path = "inner" /\ y.att = 0 /\ y.out = "none"
       \/ y.pc = "reset" /\ y.path = x.path /\ y.region = x.region /\ y.att = 0 /\ x.att = 0 /\ y.out = "none"
    /\ y.clean = TRUE => y.out # "grpc" \/ x.hurt = FALSE
    /\ y.pc # "idle" /\ y.hurt = FALSE => x.hurt = FALSE

LEMMA ZcFailedFalls ==
    ASSUME NEW x \in ThRec, NEW y, y = ZcFailed(x)
    PROVE  Falls(x, y) /\ y.out # "grpc" /\ y.pc # "reset"
BY ZcFailedRec DEF Falls

LEMMA InnerFailedFalls ==
    ASSUME NEW x \in ThRec, NEW y, y = InnerFailed(x)
    PROVE  Falls(x, y) /\ y.pc = "idle"
BY InnerFailedRec DEF Falls

LEMMA DoneFalls ==
    ASSUME NEW x \in ThRec, NEW out \in {"grpc", "error", "miss"}, NEW y, y = Done(x, out, None)
    PROVE  Falls(x, y) /\ y.pc = "idle" /\ y.out = out
<1>1. out \in Outs /\ None \in Opt
  BY DEF Outs, Opt
<1>2. Ended(x, y, out, None)
  BY <1>1, DoneRec
<1> QED
  BY <1>2 DEF Ended, Falls

LEMMA ErroredFalls ==
    ASSUME NEW x \in ThRec, NEW y, y = Errored(x)
    PROVE  /\ Falls(x, y) /\ (y.out = "grpc" => x.path = "inner" /\ x.att = 1)
           /\ y.pc = "inner" => x.att = 1
<1>1. x.att \in {0, 1}
  BY DEF ThRec
<1>2. CASE x.att # 1
  BY <1>1, <1>2, ResetRec DEF Falls
<1>3. CASE x.att = 1 /\ x.path = "zc"
  <2>1. y = ZcFailed(x)
    BY <1>3 DEF Errored, GaveUp
  <2> QED
    BY <1>3, <2>1, ZcFailedFalls
<1>4. CASE x.att = 1 /\ x.path # "zc"
  <2>1. y = InnerFailed(x)
    BY <1>4 DEF Errored, GaveUp
  <2>2. x.path = "inner"
    BY <1>4 DEF ThRec
  <2> QED
    BY <1>4, <2>1, <2>2, InnerFailedFalls
<1> QED
  BY <1>2, <1>3, <1>4

Marked(x, y, h, z) ==
    Falls(x, z) /\ z.hurt = h /\ z.pc = y.pc /\ z.out = y.out /\ z.clean = y.clean

LEMMA HurtFalls ==
    ASSUME NEW x \in ThRec, NEW y, Falls(x, y), NEW h \in BOOLEAN, y.hurt = TRUE => h = TRUE,
           NEW z, z = [y EXCEPT !.hurt = h]
    PROVE  Marked(x, y, h, z)
<1>1. y \in ThRec
  BY DEF Falls, Over
<1>2. z \in ThRec
  BY <1>1 DEF ThRec
<1>3. /\ z.hurt = h /\ z.pc = y.pc /\ z.path = y.path /\ z.att = y.att /\ z.client = y.client /\ z.dict = y.dict
      /\ z.key = y.key /\ z.region = y.region /\ z.old = y.old /\ z.dst = y.dst
      /\ z.clean = y.clean /\ z.out = y.out
  BY <1>1 DEF ThRec
<1>4. ASSUME NEW u PROVE Shape(u, z)
  BY <1>3 DEF Falls, Over, Shape
<1>5. y.hurt \in BOOLEAN
  BY <1>1 DEF ThRec
<1>6. Over(x, z)
  BY <1>2, <1>3, <1>4 DEF Over, Falls
<1>7. h = FALSE => y.hurt = FALSE
  BY <1>5
<1> QED
  BY <1>3, <1>6, <1>7 DEF Falls, Marked

LEMMA OwnFalls ==
    ASSUME NEW u, NEW x \in ThRec, NEW y, NEW n, NEW k, NEW e, NEW ext, NEW m, NEW n2, NEW k2, NEW e2, NEW ext2,
           Own(u, x, n, k, e, ext, m), Falls(x, y), x.pc # "idle",
           y.pc = "reset" => x.pc \in {"call", "return"} \/ x.path = "inner"
    PROVE  Own(u, y, n2, k2, e2, ext2, m)
<1>1. u \in Storers => m = u
  BY DEF Own
<1>2. CASE y.pc = "idle"
  BY <1>2, OwnIdle DEF Falls
<1>3. CASE y.pc = "inner"
  BY <1>1, <1>3, OwnInner DEF Falls
<1>4. CASE y.pc = "reset"
  <2>1. y.path = x.path /\ y.region = x.region /\ x.att = 0 /\ y.out = "none"
    BY <1>4 DEF Falls
  <2>2. y.path = "zc" => y.region = u
    BY <1>4, <2>1 DEF Own
  <2> QED
    BY <1>1, <1>4, <2>1, <2>2, OwnReset
<1> QED
  BY <1>2, <1>3, <1>4 DEF Falls

LEMMA HealsFalls ==
    ASSUME NEW u, NEW y, NEW n, NEW k, NEW en, NEW on, NEW ep, y.out # "grpc", y.pc = "idle" \/ y.hurt = TRUE
    PROVE  Heals(u, y, n, k, en, on, ep)
BY DEF Heals

LEMMA OverFits ==
    ASSUME NEW x, NEW y, Over(x, y), TablesTyped', NEW t
    PROVE  Fits(t, y)
<1>1. PICK A : clients' \in Seq(ClientRec(A)) /\ dicts' \in Seq(DictRec(A))
  BY DEF TablesTyped
<1>2. Len(clients') \in Nat /\ Len(dicts') \in Nat
  BY <1>1
<1>3. 0 \in 0 .. Len(clients') /\ 0 \in 0 .. Len(dicts')
  BY SMTT(15), <1>2
<1> QED
  BY <1>3 DEF Over, Fits

(* A thread's step that changes nothing but its record and a lock. *)
LEMMA QuietFall ==
    ASSUME RdmaInv, NEW t \in Threads, NEW y, Set(t, y), Falls(th[t], y), th[t].pc # "idle",
           y.pc = "reset" => th[t].pc \in {"call", "return"} \/ th[t].path = "inner",
           SameClients, TablesTyped', SameRest, mem' = mem,
           mixed = FALSE /\ y.clean = TRUE /\ th[t].clean = TRUE => Heals(t, y, pool, clients'[pool], enabled, up, epoch)
    PROVE  RdmaInv'
<1>1. ThreadsTyped /\ th[t] \in ThRec /\ mem \in [Threads -> Opt]
  BY Mover
<1>2. Over(th[t], y) /\ y \in ThRec /\ y.pc # "close" /\ (y.clean = TRUE => th[t].clean = TRUE)
  BY DEF Falls, Over
<1>3. Turns(t, y) /\ th'[t] = y
  BY <1>1, <1>2, SetTurns DEF Turns
<1>4. Fits(t, y)
  BY <1>2, OverFits
<1>5. Fine(t)'
  <2>1. ASSUME mixed' = FALSE, y.clean = TRUE
        PROVE  /\ Own(t, y, pool', clients'[pool'], era', dicts'[era'].ext, mem'[t])
               /\ Heals(t, y, pool', clients'[pool'], enabled', up', epoch')
    <3>1. mixed = FALSE /\ th[t].clean = TRUE
      BY <2>1, <1>2 DEF SameRest
    <3>2. Own(t, th[t], pool, clients[pool], era, dicts[era].ext, mem[t])
      BY <3>1, WhenClean
    <3>3. Own(t, y, pool', clients'[pool'], era', dicts'[era'].ext, mem[t])
      BY SMTT(40), <1>1, <3>2, OwnFalls
    <3> QED
      BY <2>1, <3>1, <3>3 DEF SameRest
  <2> QED
    BY <1>3, <2>1, IsFine
<1>6. mem' \in [Threads -> Opt] /\ \A u \in Threads \ {t} : mem'[u] = mem[u]
  BY <1>1
<1> QED
  BY <1>2, <1>3, <1>4, <1>5, <1>6, QuietStep

LEMMA HealsOn ==
    ASSUME NEW u, NEW x, NEW y, NEW n, NEW k, NEW k2, NEW en, NEW on, NEW ep, Heals(u, x, n, k, en, on, ep),
           x.pc # "idle", y.path = x.path, y.att = x.att, y.hurt = x.hurt, y.out = "none",
           y.pc \notin {"reset", "close"}, n # 0 => k2.conn = k.conn
    PROVE  Heals(u, y, n, k2, en, on, ep)
BY DEF Heals

(* The call succeeds with the data v. *)
LEMMA QuietDone ==
    ASSUME RdmaInv, NEW t \in Threads, NEW v \in Opt, Set(t, Done(th[t], "ok", v)),
           SameClients, TablesTyped', SameRest, mem' \in [Threads -> Opt],
           \A u \in Threads \ {t} : mem'[u] = mem[u],
           mixed = FALSE /\ th[t].clean = TRUE => v = t
    PROVE  RdmaInv'
<1> DEFINE y == Done(th[t], "ok", v)
<1>1. ThreadsTyped /\ th[t] \in ThRec
  BY Mover
<1>2. "ok" \in Outs
  BY DEF Outs
<1>3. Ended(th[t], y, "ok", v)
  BY <1>1, <1>2, DoneRec
<1>4. Set(t, y)
  OBVIOUS
<1> HIDE DEF y
<1>5. /\ Over(th[t], y) /\ y \in ThRec /\ y.pc = "idle" /\ y.out = "ok" /\ y.got = v
      /\ y.clean = TRUE => th[t].clean = TRUE
  BY <1>3 DEF Ended, Over
<1>6. Turns(t, y) /\ th'[t] = y
  BY <1>1, <1>4, <1>5, SetTurns DEF Turns
<1>7. Fits(t, y)
  BY <1>5, OverFits
<1>8. ASSUME mixed' = FALSE, y.clean = TRUE
      PROVE  /\ Own(t, y, pool', clients'[pool'], era', dicts'[era'].ext, mem'[t])
             /\ Heals(t, y, pool', clients'[pool'], enabled', up', epoch')
  <2>1. v = t
    BY <1>5, <1>8 DEF SameRest
  <2>2. y.out # "grpc"
    BY <1>5
  <2> QED
    BY <1>5, <2>1, <2>2, OwnIdle, HealsFalls
<1>9. Fine(t)'
  BY <1>6, <1>8, IsFine
<1>10. y.pc # "close"
  BY <1>5
<1> QED
  BY <1>6, <1>7, <1>9, <1>10, QuietStep

(* The call goes on. *)
LEMMA QuietOn ==
    ASSUME RdmaInv, NEW t \in Threads, NEW y, Set(t, y), Fits(t, y), th[t].pc # "idle", y.pc \notin {"reset", "close"},
           y.path = th[t].path, y.att = th[t].att, y.hurt = th[t].hurt, y.clean = th[t].clean, y.out = "none",
           SameClients, TablesTyped', SameRest, mem' = mem,
           mixed = FALSE /\ th[t].clean = TRUE => Own(t, y, pool, clients'[pool], era, dicts[era].ext, mem[t])
    PROVE  RdmaInv'
<1>1. TablesTyped /\ ThreadsTyped /\ mem \in [Threads -> Opt]
  BY Mover
<1>2. y \in ThRec
  BY DEF Fits
<1>3. Turns(t, y) /\ th'[t] = y
  BY <1>1, <1>2, SetTurns DEF Turns
<1>4. pool # 0 => clients'[pool].conn = clients[pool].conn
  BY <1>1, Lengths DEF SameClients
<1>5. ASSUME mixed' = FALSE, y.clean = TRUE
      PROVE  /\ Own(t, y, pool', clients'[pool'], era', dicts'[era'].ext, mem'[t])
             /\ Heals(t, y, pool', clients'[pool'], enabled', up', epoch')
  <2>1. mixed = FALSE /\ th[t].clean = TRUE
    BY <1>5 DEF SameRest
  <2>2. Heals(t, th[t], pool, clients[pool], enabled, up, epoch)
    BY <2>1, WhenClean
  <2>3. Heals(t, y, pool, clients'[pool], enabled, up, epoch)
    BY <1>4, <2>2, HealsOn
  <2> QED
    BY <2>1, <2>3 DEF SameRest
<1>6. Fine(t)'
  BY <1>3, <1>5, IsFine
<1>7. mem' \in [Threads -> Opt] /\ \A u \in Threads \ {t} : mem'[u] = mem[u]
  BY <1>1
<1> QED
  BY <1>3, <1>6, <1>7, QuietStep

-----------------------------------------------------------------------------
(* The steps that leave the tables as they are. *)

(* The pool's client, while nothing was cached across a reset. *)
LEMMA Held ==
    ASSUME RdmaInv, mixed = FALSE, pool # 0
    PROVE  /\ pool \in 1 .. Len(clients) /\ clients[pool].open /\ clients[pool].era = era
           /\ clients[pool].regions \in Seq(Buffers) /\ dicts[era].ext \in Seq(Entries)
           /\ CacheOk(dicts[era].ext, dicts[era].put, clients[pool].regions)
<1>1. TablesTyped
  BY DEF RdmaInv, Typed
<1>2. pool \in 1 .. Len(clients) /\ era \in 1 .. Len(dicts)
  BY <1>1, Lengths
<1>3. clients[pool].open /\ clients[pool].era = era
  BY DEF RdmaInv, PoolInv
<1>4. CacheOk(dicts[era].ext, dicts[era].put, clients[pool].regions)
  BY <1>2, <1>3 DEF RdmaInv, CachesInv
<1>5. clients[pool].regions \in Seq(Buffers) /\ dicts[era].ext \in Seq(Entries)
  BY <1>1, <1>2, ClientFields, DictFields
<1> QED
  BY <1>2, <1>3, <1>4, <1>5

(* An undisturbed call addresses its own buffer, or the client's. *)
LEMMA AddressedOwn ==
    ASSUME RdmaInv, NEW t \in Threads, mixed = FALSE, th[t].clean = TRUE, th[t].pc \in {"call", "return"}
    PROVE  /\ pool # 0 /\ th[t].client = pool /\ clients[pool].open /\ pool \in 1 .. Len(clients)
           /\ Addressed(t) = (IF th[t].path = "zc" THEN t ELSE Inner) /\ Addressed(t) # Hole
<1> DEFINE x == th[t]
           regs == clients[pool].regions
           ext == dicts[era].ext
<1>1. Own(t, x, pool, clients[pool], era, ext, mem[t])
  BY WhenClean
<1>2. x \in ThRec /\ x.path \in {"zc", "inner"}
  BY Mover DEF ThRec
<1>3. pool # 0 /\ x.client = pool
  BY <1>1 DEF Own, UsePcs
<1>4. /\ pool \in 1 .. Len(clients) /\ clients[pool].open /\ regs \in Seq(Buffers) /\ ext \in Seq(Entries)
      /\ CacheOk(ext, dicts[era].put, regs)
  BY <1>3, Held
<1>5. ASSUME NEW b, Names(regs, x.rid, b) PROVE RegionOf(regs, x.rid) = b
  <2>1. DOMAIN regs = 1 .. Len(regs)
    BY <1>4
  <2> QED
    BY <1>5, <2>1 DEF Names, RegionOf
<1>6. CASE x.path = "zc"
  <2>1. PICK i \in 1 .. Len(ext) : ext[i] = <<t, x.rid>>
    BY <1>1, <1>6 DEF Own, Direct
  <2>2. Names(regs, x.rid, t)
    BY <1>4, <2>1 DEF CacheOk
  <2>3. Addressed(t) = RegionOf(clients[x.client].regions, x.rid)
    BY <1>6 DEF Addressed
  <2>4. Addressed(t) = t
    BY <1>3, <1>5, <2>2, <2>3
  <2> QED
    BY <1>3, <1>4, <1>6, <2>4, RdmaBackendAssumption
<1>7. CASE x.path = "inner"
  <2>1. Addressed(t) = Inner
    <3>1. CASE t \in Loaders
      BY <1>7, <3>1 DEF Addressed
    <3>2. CASE t \notin Loaders
      <4>1. t \in Storers
        BY <3>2 DEF Threads
      <4>2. Names(regs, x.rid, Inner)
        BY <1>1, <1>7, <4>1 DEF Own, Staged
      <4>3. Addressed(t) = RegionOf(clients[x.client].regions, x.rid)
        BY <3>2 DEF Addressed
      <4> QED
        BY <1>3, <1>5, <4>2, <4>3
    <3> QED
      BY <3>1, <3>2
  <2>2. Inner # Hole
    BY DEF Inner, Hole
  <2> QED
    BY <1>3, <1>4, <1>7, <2>1, <2>2
<1> QED
  BY <1>2, <1>6, <1>7

LEMMA RoomRec ==
    ASSUME TablesTyped, NEW x \in ThRec, x.dict \in 1 .. Len(dicts), NEW u, x.client # 0, x.key # None,
           x.path = "zc", x.out = "none", NEW y, y = Room(x)
    PROVE  /\ y \in ThRec /\ Shape(u, y) /\ y.pc \in {"evict", "register"}
           /\ y.path = x.path /\ y.att = x.att /\ y.client = x.client /\ y.dict = x.dict
           /\ y.key = x.key /\ y.clean = x.clean /\ y.hurt = x.hurt /\ y.out = x.out
<1> DEFINE ext == dicts[x.dict].ext
           full == Len(ext) >= CacheLimit
           old == IF full THEN Head(ext) ELSE 0
           pc == IF full THEN "evict" ELSE "register"
<1>1. y = [x EXCEPT !.pc = pc, !.old = old]
  BY DEF Room
<1>2. ext \in Seq(Entries)
  BY DictFields
<1>3. full => Head(ext) \in Entries
  BY SMTT(15), <1>2, RdmaBackendAssumption
<1>4. old \in Nat \cup (Threads \X Nat) /\ pc \in Pcs /\ pc \in {"evict", "register"}
      /\ (pc = "evict" => old \in Threads \X Nat)
  BY <1>3 DEF Entries, Pcs, ZcPcs, EnsurePcs
<1>5. x.dict # 0
  BY SMTT(15), TablesTyped, Lengths
<1> HIDE DEF old, pc
<1>6. y \in ThRec
  BY ZenonT(40), <1>1, <1>4 DEF ThRec
<1>7. /\ y.path = x.path /\ y.att = x.att /\ y.client = x.client /\ y.dict = x.dict
      /\ y.key = x.key /\ y.clean = x.clean /\ y.hurt = x.hurt /\ y.out = x.out
      /\ y.pc = pc /\ y.old = old
  BY <1>1 DEF ThRec
<1>8. Shape(u, y)
  BY <1>4, <1>5, <1>7 DEF Shape, UsePcs, EnsurePcs, ZcPcs, InnerPcs
<1> QED
  BY <1>4, <1>6, <1>7, <1>8

LEMMA EnsureCachedKeeps ==
    ASSUME RdmaInv, NEW t \in Threads, EnsureCached(t)
    PROVE  RdmaInv'
<1> DEFINE x == th[t]
           ext == dicts[era].ext
           r == [x EXCEPT !.dict = era]
<1>1. /\ TablesTyped /\ ThreadsTyped /\ x \in ThRec /\ Shape(t, x) /\ x.client \in 0 .. Len(clients)
      /\ mem \in [Threads -> Opt]
  BY Mover
<1>2. x.pc = "cached"
  BY DEF EnsureCached, At
<1>3. SameRest /\ clients' = clients /\ mem' = mem
  BY DEF EnsureCached, SameRest, tables, caches, server
<1>4. TablesTyped' /\ SameClients
  BY <1>1, <1>3, UnchangedTables
<1>5. x.path = "zc" /\ x.client # 0 /\ x.key # None /\ x.out = "none" /\ x.att \in {0, 1}
  BY <1>1, <1>2 DEF Shape, UsePcs, EnsurePcs, ZcPcs, ThRec
<1>6. era \in 1 .. Len(dicts) /\ era \in 0 .. Len(dicts) /\ era \in Nat /\ Len(dicts) \in Nat
      /\ 0 \in 0 .. Len(clients) /\ 0 \in 0 .. Len(dicts)
  BY <1>1, Lengths
<1>7. r \in ThRec
  BY <1>1, <1>6 DEF ThRec
<1>8. /\ r.pc = x.pc /\ r.path = x.path /\ r.att = x.att /\ r.client = x.client /\ r.dict = era
      /\ r.key = x.key /\ r.clean = x.clean /\ r.hurt = x.hurt /\ r.out = x.out
  BY <1>1 DEF ThRec
<1>9. ext \in Seq(Entries)
  BY <1>1, <1>6, DictFields
<1>10. clients'[pool] = clients[pool]
  BY <1>3
<1> HIDE DEF r
<1>11. ASSUME NEW i \in PlaceOf(ext, r.key), Set(t, Ensured(r, ext[i][2]))
       PROVE  RdmaInv'
  <2> DEFINE y == Ensured(r, ext[i][2])
  <2>1. i \in 1 .. Len(ext) /\ ext[i][1] = r.key
    BY <1>9, <1>11 DEF PlaceOf
  <2>2. ext[i] \in Threads \X Nat
    BY <1>9, <2>1 DEF Entries
  <2>3. ext[i][2] \in Nat /\ ext[i] = <<r.key, ext[i][2]>>
    BY <2>1, <2>2
  <2>4. /\ y \in ThRec /\ Shape(t, y)
        /\ y.pc = (IF r.att = 0 THEN "begin" ELSE "again") /\ y.rid = ext[i][2]
        /\ y.path = r.path /\ y.att = r.att /\ y.client = 0 /\ y.dict = 0
        /\ y.region = r.region /\ y.clean = r.clean /\ y.hurt = r.hurt /\ y.out = r.out
    <3>1. HasRegion(t, r, ext[i][2], y)
      BY <1>5, <1>7, <1>8, <2>3, EnsuredRec
    <3> QED
      BY <3>1 DEF HasRegion
  <2>5. Set(t, y)
    BY <1>11
  <2> HIDE DEF y
  <2>6. y.pc \in {"begin", "again"}
    BY <2>4
  <2>7. Fits(t, y)
    BY <1>3, <1>6, <2>4 DEF Fits, SameRest
  <2>8. ASSUME mixed = FALSE, x.clean = TRUE
        PROVE  Own(t, y, pool, clients'[pool], era, ext, mem[t])
    <3>1. x.key = t /\ pool # 0 /\ (t \in Storers => mem[t] = t)
      BY <1>2, <2>8, WhenClean DEF Own, Registering, UsePcs, EnsurePcs
    <3>2. ext[i] = <<t, y.rid>>
      BY <1>8, <2>3, <2>4, <3>1
    <3> QED
      BY <1>5, <1>8, <2>1, <2>4, <2>6, <3>1, <3>2 DEF Own, Registering, Direct, Staged, UsePcs, EnsurePcs
  <2> QED
    BY ZenonT(40), <1>2, <1>3, <1>4, <1>5, <1>8, <1>10, <2>4, <2>5, <2>6, <2>7, <2>8, QuietOn
<1>12. ASSUME PlaceOf(ext, r.key) = {}, Set(t, Room(r))
       PROVE  RdmaInv'
  <2> DEFINE y == Room(r)
  <2>1. /\ y \in ThRec /\ Shape(t, y) /\ y.pc \in {"evict", "register"}
        /\ y.path = r.path /\ y.att = r.att /\ y.client = r.client /\ y.dict = r.dict
        /\ y.key = r.key /\ y.clean = r.clean /\ y.hurt = r.hurt /\ y.out = r.out
    BY <1>1, <1>5, <1>6, <1>7, <1>8, RoomRec
  <2>2. Set(t, y)
    BY <1>12
  <2> HIDE DEF y
  <2>3. Fits(t, y)
    BY <1>1, <1>3, <1>6, <1>8, <2>1 DEF Fits, SameRest
  <2>4. ASSUME mixed = FALSE, x.clean = TRUE
        PROVE  Own(t, y, pool, clients'[pool], era, ext, mem[t])
    <3>1. x.key = t /\ pool # 0 /\ x.client = pool /\ (t \in Storers => mem[t] = t)
      BY <1>2, <2>4, WhenClean DEF Own, Registering, UsePcs, EnsurePcs
    <3> QED
      BY <1>5, <1>8, <2>1, <3>1 DEF Own, Registering, Direct, Staged, UsePcs, EnsurePcs
  <2> QED
    BY ZenonT(40), <1>2, <1>3, <1>4, <1>5, <1>8, <1>10, <2>1, <2>2, <2>3, <2>4, QuietOn
<1> QED
  BY <1>11, <1>12 DEF EnsureCached, r

LEMMA FindRegionHits ==
    ASSUME TablesTyped, NEW rid
    PROVE  /\ FindRegion(rid) \in Opt
           /\ (\E i \in 1 .. Len(dicts[era].ext) : dicts[era].ext[i][2] = rid) =>
                 \E i \in 1 .. Len(dicts[era].ext) :
                    dicts[era].ext[i][2] = rid /\ FindRegion(rid) = dicts[era].ext[i][1]
<1> DEFINE ext == dicts[era].ext
           hits == {i \in DOMAIN ext : ext[i][2] = rid}
<1>1. ext \in Seq(Entries)
  BY Lengths, DictFields
<1>2. DOMAIN ext = 1 .. Len(ext) /\ Len(ext) \in Nat
  BY <1>1
<1>3. FindRegion(rid) = IF hits = {} THEN None ELSE ext[CHOOSE i \in hits : \A j \in hits : i <= j][1]
  BY DEF FindRegion
<1>4. CASE hits = {}
  <2>1. FindRegion(rid) = None
    BY <1>3, <1>4
  <2>2. ~ \E i \in 1 .. Len(ext) : ext[i][2] = rid
    BY <1>2, <1>4
  <2> QED
    BY <2>1, <2>2 DEF Opt
<1>5. CASE hits # {}
  <2> DEFINE h == CHOOSE i \in hits : \A j \in hits : i <= j
  <2>1. hits \subseteq Nat
    BY SMTT(15), <1>2
  <2>2. \E i \in hits : \A j \in hits : i <= j
    BY <1>5, <2>1, LeastNat
  <2>3. h \in hits
    BY <2>2
  <2>4. FindRegion(rid) = ext[h][1]
    BY <1>3, <1>5
  <2> HIDE DEF h
  <2>5. h \in 1 .. Len(ext) /\ ext[h][2] = rid
    BY <1>2, <2>3
  <2>6. ext[h] \in Threads \X Nat
    BY <1>1, <2>5 DEF Entries
  <2>7. ext[h][1] \in Opt
    BY <2>6 DEF Opt
  <2> QED
    BY <2>4, <2>5, <2>7
<1> QED
  BY <1>4, <1>5

LEMMA ZcFindKeeps ==
    ASSUME RdmaInv, NEW t \in Threads, ZcFind(t)
    PROVE  RdmaInv'
<1> DEFINE x == th[t]
           ext == dicts[era].ext
           g == FindRegion(x.rid)
           y == [x EXCEPT !.pc = "call", !.region = g]
<1>1. /\ TablesTyped /\ x \in ThRec /\ Shape(t, x)
      /\ x.client \in 0 .. Len(clients) /\ x.dict \in 0 .. Len(dicts)
  BY Mover
<1>2. x.pc = "find" /\ Set(t, y)
  BY DEF ZcFind, At
<1>3. SameRest /\ clients' = clients /\ mem' = mem
  BY DEF ZcFind, SameRest, tables, caches, server
<1>4. TablesTyped' /\ SameClients
  BY <1>1, <1>3, UnchangedTables
<1>5. x.path = "zc" /\ x.client # 0 /\ x.out = "none" /\ x.att = 0
  BY <1>1, <1>2 DEF Shape, UsePcs, EnsurePcs, ZcPcs
<1>6. g \in Opt
  BY <1>1, FindRegionHits
<1>7. ASSUME mixed = FALSE, x.clean = TRUE
      PROVE  /\ pool # 0 /\ x.client = pool /\ g = t /\ (t \in Storers => mem[t] = t)
             /\ \E i \in 1 .. Len(ext) : ext[i] = <<t, x.rid>>
  <2>1. Own(t, x, pool, clients[pool], era, ext, mem[t])
    BY <1>7, WhenClean
  <2>2. pool # 0 /\ x.client = pool /\ (t \in Storers => mem[t] = t)
    BY <1>2, <2>1 DEF Own, UsePcs
  <2>3. PICK i \in 1 .. Len(ext) : ext[i] = <<t, x.rid>>
    BY <1>2, <2>1 DEF Own, Direct
  <2>4. PICK j \in 1 .. Len(ext) : ext[j][2] = x.rid /\ g = ext[j][1]
    BY SMTT(40), <1>1, <2>3, FindRegionHits
  <2>5. \A l \in 1 .. Len(ext) : Names(clients[pool].regions, ext[l][2], ext[l][1])
    BY <1>7, <2>2, Held DEF CacheOk
  <2>6. Names(clients[pool].regions, x.rid, t) /\ Names(clients[pool].regions, x.rid, g)
    BY <2>3, <2>4, <2>5
  <2>7. g = t
    BY <2>6 DEF Names
  <2> QED
    BY <2>2, <2>3, <2>7
<1> HIDE DEF g
<1>8. y \in ThRec
  BY <1>1, <1>6 DEF ThRec, Pcs
<1>9. /\ y.pc = "call" /\ y.path = "zc" /\ y.att = 0 /\ y.client = x.client /\ y.dict = x.dict /\ y.rid = x.rid
      /\ y.region = g /\ y.clean = x.clean /\ y.hurt = x.hurt /\ y.out = "none"
  BY <1>1, <1>5 DEF ThRec
<1> HIDE DEF y
<1>10. Shape(t, y)
  BY <1>5, <1>9 DEF Shape, UsePcs, EnsurePcs, ZcPcs, InnerPcs
<1>11. Fits(t, y)
  BY <1>1, <1>3, <1>8, <1>9, <1>10 DEF Fits, SameRest
<1>12. ASSUME mixed = FALSE, x.clean = TRUE
       PROVE  Own(t, y, pool, clients'[pool], era, ext, mem[t])
  BY <1>7, <1>9, <1>12 DEF Own, Registering, Direct, Staged, UsePcs, EnsurePcs
<1> QED
  BY <1>2, <1>3, <1>4, <1>5, <1>9, <1>11, <1>12, QuietOn

LEMMA CallKeeps ==
    ASSUME RdmaInv, NEW t \in Threads, Call(t)
    PROVE  RdmaInv'
<1> DEFINE x == th[t]
           c == x.client
           b == Addressed(t)
<1>1. /\ TablesTyped /\ x \in ThRec /\ Shape(t, x) /\ c \in 0 .. Len(clients)
      /\ x.dict \in 0 .. Len(dicts) /\ (x.pc \in UsePcs => c \in 1 .. Len(clients))
  BY Mover
<1>2. x.pc = "call"
  BY DEF Call, At
<1>3. SameRest /\ mem' = mem
  BY DEF Call, SameRest, caches, server
<1>4. c \in 1 .. Len(clients) /\ c # 0 /\ x.out = "none"
  BY <1>1, <1>2 DEF Shape, UsePcs
<1>5. CASE clients[c].open /\ b # Hole /\ clients' = [clients EXCEPT ![c].lock = t]
           /\ Set(t, [x EXCEPT !.pc = "return", !.dst = b])
  <2> DEFINE y == [x EXCEPT !.pc = "return", !.dst = b]
  <2>1. t \in Opt
    BY DEF Opt
  <2>2. TablesTyped' /\ SameClients
    BY <1>1, <1>3, <1>4, <1>5, <2>1, LockOnly
  <2>3. b \in Threads \cup {Inner}
    <3>1. clients[c].regions \in Seq(Buffers)
      BY <1>1, <1>4, ClientFields
    <3>2. RegionOf(clients[c].regions, x.rid) \in Buffers
      BY <3>1 DEF RegionOf, Buffers
    <3>3. b \in Buffers
      BY <3>2 DEF Addressed, Buffers
    <3> QED
      BY <1>5, <3>3 DEF Buffers
  <2>4. Set(t, y)
    BY <1>5
  <2> HIDE DEF b
  <2>5. y \in ThRec
    BY ZenonT(40), <1>1, <2>3 DEF ThRec, Pcs, Opt
  <2>6. /\ y.pc = "return" /\ y.path = x.path /\ y.att = x.att /\ y.client = c /\ y.dict = x.dict /\ y.rid = x.rid
        /\ y.region = x.region /\ y.clean = x.clean /\ y.hurt = x.hurt /\ y.out = "none" /\ y.dst = b
    BY <1>1, <1>4 DEF ThRec
  <2> HIDE DEF y
  <2>7. Shape(t, y)
    BY <1>4, <2>3, <2>6 DEF Shape, UsePcs, EnsurePcs, ZcPcs, InnerPcs
  <2>8. Fits(t, y)
    BY <1>1, <1>3, <2>2, <2>5, <2>6, <2>7 DEF Fits, SameRest, SameClients
  <2>9. ASSUME mixed = FALSE, x.clean = TRUE
        PROVE  Own(t, y, pool, clients'[pool], era, dicts[era].ext, mem[t])
    <3>1. pool # 0 /\ c = pool /\ b = IF x.path = "zc" THEN t ELSE Inner
      BY <1>2, <2>9, AddressedOwn DEF b
    <3>2. clients'[pool].regions = clients[pool].regions /\ clients'[pool].inner = clients[pool].inner
      BY <1>4, <2>2, <3>1 DEF SameClients
    <3>3. Own(t, x, pool, clients[pool], era, dicts[era].ext, mem[t])
      BY <2>9, WhenClean
    <3> QED
      BY <1>2, <2>6, <3>1, <3>2, <3>3 DEF Own, Registering, Direct, Staged, UsePcs, EnsurePcs
  <2> QED
    BY <1>2, <1>3, <2>2, <2>4, <2>6, <2>8, <2>9, QuietOn
<1>6. CASE ~(clients[c].open /\ b # Hole) /\ Set(t, Errored(x)) /\ clients' = clients
  <2> DEFINE y == Errored(x)
  <2>1. TablesTyped' /\ SameClients
    BY <1>1, <1>3, <1>6, UnchangedTables
  <2>2. Falls(x, y)
    BY <1>1, ErroredFalls
  <2>3. Set(t, y)
    BY <1>6
  <2> HIDE DEF y
  <2>4. ~(mixed = FALSE /\ x.clean = TRUE)
    BY <1>2, <1>6, AddressedOwn
  <2> QED
    BY <1>2, <1>3, <2>1, <2>2, <2>3, <2>4, QuietFall
<1> QED
  BY <1>5, <1>6 DEF Call

LEMMA CallFailsKeeps ==
    ASSUME RdmaInv, NEW t \in Threads, CallFails(t)
    PROVE  RdmaInv'
<1> DEFINE x == th[t]
           c == x.client
           w == Errored(x)
           h == w.hurt \/ Reaches(c)
           y == [w EXCEPT !.hurt = h]
<1>1. /\ TablesTyped /\ x \in ThRec /\ Shape(t, x)
      /\ (x.pc \in UsePcs => c \in 1 .. Len(clients))
  BY Mover
<1>2. x.pc = "return" /\ Set(t, y)
  BY DEF CallFails, At
<1>3. SameRest /\ mem' = mem /\ clients' = [clients EXCEPT ![c].lock = None]
  BY DEF CallFails, SameRest, caches, server, Unlocked
<1>4. c \in 1 .. Len(clients) /\ None \in Opt
  BY <1>1, <1>2 DEF UsePcs, Opt
<1>5. TablesTyped' /\ SameClients
  BY <1>1, <1>3, <1>4, LockOnly
<1>6. /\ Falls(x, w) /\ (w.out = "grpc" => x.path = "inner" /\ x.att = 1)
      /\ w.pc = "inner" => x.att = 1
  BY <1>1, ErroredFalls
<1>7. w.hurt \in BOOLEAN /\ Reaches(c) \in BOOLEAN
  BY <1>6 DEF Falls, Over, ThRec, Reaches, RdmaInv, Typed
<1>8. h \in BOOLEAN /\ (w.hurt = TRUE => h = TRUE) /\ (Reaches(c) => h = TRUE)
  BY <1>7
<1> HIDE DEF w, h
<1>9. Falls(x, y) /\ y.hurt = h /\ y.pc = w.pc /\ y.out = w.out /\ y.clean = w.clean
  <2>1. Marked(x, w, h, y)
    BY <1>1, <1>6, <1>8, HurtFalls
  <2> QED
    BY <2>1 DEF Marked
<1> HIDE DEF y
<1>10. ASSUME mixed = FALSE, y.clean = TRUE, x.clean = TRUE
       PROVE  Heals(t, y, pool, clients'[pool], enabled, up, epoch)
  <2>1. pool # 0 /\ c = pool /\ clients[pool].open /\ Addressed(t) = (IF x.path = "zc" THEN t ELSE Inner)
    BY <1>2, <1>10, AddressedOwn
  <2>2. /\ Own(t, x, pool, clients[pool], era, dicts[era].ext, mem[t])
        /\ Heals(t, x, pool, clients[pool], enabled, up, epoch)
    BY <1>10, WhenClean
  <2>3. Addressed(t) = x.dst
    BY <1>2, <2>1, <2>2 DEF Own
  <2>4. clients'[pool].conn = clients[pool].conn
    BY <1>4, <1>5, <2>1 DEF SameClients
  <2>5. x.hurt \in BOOLEAN /\ y.hurt \in BOOLEAN /\ x.path \in {"zc", "inner"} /\ x.att \in {0, 1} /\ up \in BOOLEAN
    BY <1>1, <1>8, <1>9 DEF ThRec, RdmaInv, Typed
  <2>6. CASE x.hurt = TRUE
    <3>1. y.out # "grpc"
      BY <1>9, <1>10, <2>6 DEF Falls
    <3>2. y.pc = "idle" \/ y.hurt = TRUE
      BY <1>9, <2>5, <2>6 DEF Falls
    <3> QED
      BY <3>1, <3>2, HealsFalls
  <2>7. CASE x.hurt = FALSE /\ ~Reaches(c)
    <3>1. enabled = TRUE /\ up = TRUE /\ (x.path = "inner" \/ x.att = 1 => clients[pool].conn = epoch)
      BY <1>2, <2>1, <2>2, <2>7 DEF Heals
    <3>2. clients[pool].conn # epoch
      BY <2>1, <2>7, <3>1 DEF Reaches
    <3>3. x.path = "zc" /\ x.att = 0
      BY <2>5, <3>1, <3>2
    <3>4. y.out # "grpc" /\ y.pc # "inner"
      BY <1>6, <1>9, <3>3
    <3>5. CASE y.pc = "idle"
      BY <3>4, <3>5, HealsFalls
    <3>6. CASE y.pc = "reset"
      <4>1. y.path = "zc" /\ y.att = 0
        BY <1>9, <3>3, <3>6 DEF Falls
      <4> QED
        BY <3>1, <3>4, <3>6, <4>1 DEF Heals
    <3> QED
      BY <1>9, <3>4, <3>5, <3>6 DEF Falls
  <2>8. CASE x.hurt = FALSE /\ Reaches(c)
    <3>1. t \in Storers
      BY <2>1, <2>3, <2>8 DEF CallFails
    <3>2. t \notin Loaders
      BY <3>1, RdmaBackendAssumption
    <3>3. x.path # "inner"
      BY <1>2, <2>2, <2>8, <3>2 DEF Heals
    <3>4. y.out # "grpc" /\ y.hurt = TRUE
      BY <1>6, <1>8, <1>9, <2>8, <3>3
    <3> QED
      BY <3>4, HealsFalls
  <2> QED
    BY <2>5, <2>6, <2>7, <2>8
<1>11. x.pc # "idle" /\ x.pc \in {"call", "return"}
  BY <1>2
<1> QED
  BY <1>2, <1>3, <1>5, <1>9, <1>10, <1>11, QuietFall

LEMMA CallMissesKeeps ==
    ASSUME RdmaInv, NEW t \in Threads, CallMisses(t)
    PROVE  RdmaInv'
<1> DEFINE x == th[t]
           c == x.client
<1>1. /\ TablesTyped /\ x \in ThRec /\ Shape(t, x) /\ c \in 0 .. Len(clients) /\ x.dict \in 0 .. Len(dicts)
      /\ (x.pc \in UsePcs => c \in 1 .. Len(clients))
  BY Mover
<1>2. x.pc = "return" /\ t \in Loaders /\ Reaches(c)
  BY DEF CallMisses, At
<1>3. SameRest /\ mem' = mem /\ clients' = [clients EXCEPT ![c].lock = None]
  BY DEF CallMisses, SameRest, caches, server, Unlocked
<1>4. c \in 1 .. Len(clients) /\ None \in Opt /\ c # 0 /\ x.out = "none"
  BY <1>1, <1>2 DEF UsePcs, Opt, Shape
<1>5. TablesTyped' /\ SameClients
  BY <1>1, <1>3, <1>4, LockOnly
<1>6. ASSUME NEW y, Set(t, y), Falls(x, y), y.pc # "reset", y.out # "grpc"
      PROVE  RdmaInv'
  <2>1. ASSUME mixed = FALSE, y.clean = TRUE, x.clean = TRUE
        PROVE  Heals(t, y, pool, clients'[pool], enabled, up, epoch)
    <3>1. pool # 0 /\ c = pool
      BY <1>2, <2>1, AddressedOwn
    <3>2. Heals(t, x, pool, clients[pool], enabled, up, epoch)
      BY <2>1, WhenClean
    <3>3. clients'[pool].conn = epoch
      BY <1>2, <1>4, <1>5, <3>1 DEF SameClients, Reaches
    <3>4. CASE y.pc = "idle"
      BY <1>6, <3>4, HealsFalls
    <3>5. CASE y.pc = "inner" /\ y.hurt # FALSE
      <4>1. y.hurt = TRUE
        BY <1>6, <3>5 DEF Falls, Over, ThRec
      <4> QED
        BY <1>6, <4>1, HealsFalls
    <3>6. CASE y.pc = "inner" /\ y.hurt = FALSE
      <4>1. x.hurt = FALSE /\ y.path = "inner" /\ y.att = 0
        BY <1>6, <3>6 DEF Falls
      <4>2. enabled = TRUE /\ up = TRUE
        BY <1>2, <3>2, <4>1 DEF Heals
      <4> QED
        BY ZenonT(40), <1>2, <1>6, <3>1, <3>3, <3>6, <4>1, <4>2 DEF Heals
    <3> QED
      BY <1>6, <3>4, <3>5, <3>6 DEF Falls
  <2>2. x.pc # "idle"
    BY <1>2
  <2> QED
    BY <1>3, <1>5, <1>6, <2>1, <2>2, QuietFall
<1>7. CASE Set(t, IF x.path = "zc" THEN ZcFailed(x) ELSE Done(x, "miss", None))
  <2>1. CASE x.path = "zc"
    <3> DEFINE y == ZcFailed(x)
    <3>1. Falls(x, y) /\ y.out # "grpc" /\ y.pc # "reset"
      BY <1>1, ZcFailedFalls
    <3>2. Set(t, y)
      BY <1>7, <2>1
    <3> HIDE DEF y
    <3> QED
      BY <1>6, <3>1, <3>2
  <2>2. CASE x.path # "zc"
    <3> DEFINE y == Done(x, "miss", None)
    <3>1. Falls(x, y) /\ y.pc = "idle" /\ y.out = "miss"
      BY SMTT(40), <1>1, DoneFalls
    <3>2. Set(t, y)
      BY <1>7, <2>2
    <3> HIDE DEF y
    <3>3. y.pc # "reset" /\ y.out # "grpc"
      BY <3>1
    <3> QED
      BY <1>6, <3>1, <3>2, <3>3
  <2> QED
    BY <2>1, <2>2
<1>8. CASE Set(t, [x EXCEPT !.pc = "call", !.again = TRUE])
  <2> DEFINE y == [x EXCEPT !.pc = "call", !.again = TRUE]
  <2>1. y \in ThRec
    BY <1>1 DEF ThRec, Pcs
  <2>2. /\ y.pc = "call" /\ y.path = x.path /\ y.att = x.att /\ y.client = c /\ y.dict = x.dict /\ y.rid = x.rid
        /\ y.region = x.region /\ y.clean = x.clean /\ y.hurt = x.hurt /\ y.out = "none"
    BY <1>1, <1>4 DEF ThRec
  <2>3. Set(t, y)
    BY <1>8
  <2> HIDE DEF y
  <2>4. Shape(t, y)
    BY <1>4, <2>2 DEF Shape, UsePcs, EnsurePcs, ZcPcs, InnerPcs
  <2>5. Fits(t, y)
    BY <1>1, <1>3, <1>5, <2>1, <2>2, <2>4 DEF Fits, SameRest, SameClients
  <2>6. ASSUME mixed = FALSE, x.clean = TRUE
        PROVE  Own(t, y, pool, clients'[pool], era, dicts[era].ext, mem[t])
    <3>1. pool # 0 /\ c = pool
      BY <1>2, <2>6, AddressedOwn
    <3>2. clients'[pool].regions = clients[pool].regions /\ clients'[pool].inner = clients[pool].inner
      BY <1>4, <1>5, <3>1 DEF SameClients
    <3>3. Own(t, x, pool, clients[pool], era, dicts[era].ext, mem[t])
      BY <2>6, WhenClean
    <3> QED
      BY <1>2, <2>2, <3>1, <3>2, <3>3 DEF Own, Registering, Direct, Staged, UsePcs, EnsurePcs
  <2> QED
    BY <1>2, <1>3, <1>5, <2>2, <2>3, <2>5, <2>6, QuietOn
<1> QED
  BY <1>7, <1>8 DEF CallMisses

LEMMA StoreReturnsKeeps ==
    ASSUME RdmaInv, NEW t \in Threads, StoreReturns(t)
    PROVE  RdmaInv'
<1> DEFINE x == th[t]
           c == x.client
           v == IF x.dst = Inner THEN clients[c].inner ELSE mem[x.dst]
<1>1. /\ TablesTyped /\ x \in ThRec /\ Shape(t, x) /\ mem \in [Threads -> Opt]
      /\ (x.pc \in UsePcs => c \in 1 .. Len(clients))
  BY Mover
<1>2. x.pc = "return" /\ t \in Storers /\ Set(t, Done(x, "ok", v))
  BY DEF StoreReturns, At
<1>3. SameRest /\ mem' = mem /\ clients' = [clients EXCEPT ![c].lock = None]
  BY DEF StoreReturns, SameRest, caches, server, Unlocked
<1>4. c \in 1 .. Len(clients) /\ None \in Opt /\ x.dst \in Threads \cup {Inner}
  BY <1>1, <1>2 DEF UsePcs, Opt, Shape
<1>5. TablesTyped' /\ SameClients
  BY <1>1, <1>3, <1>4, LockOnly
<1>6. clients[c].inner \in Opt
  BY <1>1, <1>4, ClientFields
<1>7. v \in Opt
  BY <1>1, <1>4, <1>6
<1>8. ASSUME mixed = FALSE, x.clean = TRUE PROVE v = t
  <2>1. pool # 0 /\ c = pool
    BY <1>2, <1>8, AddressedOwn
  <2>2. Own(t, x, pool, clients[pool], era, dicts[era].ext, mem[t])
    BY <1>8, WhenClean
  <2>3. mem[t] = t /\ x.dst = IF x.path = "zc" THEN t ELSE Inner
    BY <1>2, <2>2 DEF Own
  <2>4. CASE x.path = "zc"
    <3>1. t # Inner
      BY RdmaBackendAssumption
    <3> QED
      BY <2>3, <2>4, <3>1
  <2>5. CASE x.path = "inner"
    <3>1. clients[pool].inner = t
      BY <1>2, <2>2, <2>5 DEF Own, Staged
    <3> QED
      BY <2>1, <2>3, <2>5, <3>1
  <2> QED
    BY <1>1, <2>4, <2>5 DEF ThRec
<1> HIDE DEF v
<1>9. mem' \in [Threads -> Opt] /\ \A u \in Threads \ {t} : mem'[u] = mem[u]
  BY <1>1, <1>3
<1> QED
  BY <1>2, <1>3, <1>5, <1>7, <1>8, <1>9, QuietDone

LEMMA ViewKeeps ==
    ASSUME RdmaInv, NEW t \in Threads, View(t)
    PROVE  RdmaInv'
<1> DEFINE x == th[t]
           v == clients[x.client].inner
<1>1. /\ TablesTyped /\ x \in ThRec /\ mem \in [Threads -> Opt]
      /\ (x.pc \in UsePcs => x.client \in 1 .. Len(clients))
  BY Mover
<1>2. x.pc = "view" /\ Set(t, Done(x, "ok", v))
  BY DEF View, At
<1>3. SameRest /\ clients' = clients /\ mem' = mem
  BY DEF View, SameRest, tables, caches, server
<1>4. TablesTyped' /\ SameClients
  BY <1>1, <1>3, UnchangedTables
<1>5. x.client \in 1 .. Len(clients)
  BY <1>1, <1>2 DEF UsePcs
<1>6. v \in Opt
  BY <1>1, <1>5, ClientFields
<1>7. ASSUME mixed = FALSE, x.clean = TRUE PROVE v = t
  <2>1. Own(t, x, pool, clients[pool], era, dicts[era].ext, mem[t])
    BY <1>7, WhenClean
  <2> QED
    BY <1>2, <2>1 DEF Own, UsePcs
<1> HIDE DEF v
<1>8. mem' \in [Threads -> Opt] /\ \A u \in Threads \ {t} : mem'[u] = mem[u]
  BY <1>1, <1>3
<1> QED
  BY <1>2, <1>3, <1>4, <1>6, <1>7, <1>8, QuietDone

-----------------------------------------------------------------------------
(* The steps that change what a client's own buffer holds. *)
SameTables ==
    /\ Len(clients') = Len(clients)
    /\ \A c \in 1 .. Len(clients) :
          /\ clients'[c].open = clients[c].open /\ clients'[c].conn = clients[c].conn
          /\ clients'[c].era = clients[c].era /\ clients'[c].regions = clients[c].regions

LEMMA OneClient ==
    ASSUME NEW A, clients \in Seq(ClientRec(A)), NEW c \in 1 .. Len(clients), NEW k \in ClientRec(A),
           clients' = [clients EXCEPT ![c] = k]
    PROVE  /\ clients' \in Seq(ClientRec(A)) /\ Len(clients') = Len(clients) /\ clients'[c] = k
           /\ \A b \in 1 .. Len(clients) : b # c => clients'[b] = clients[b]
<1> DEFINE S == ClientRec(A)
<1> HIDE DEF S
<1>1. clients \in Seq(S) /\ k \in S
  BY DEF S
<1>2. clients' \in Seq(S) /\ Len(clients') = Len(clients)
  BY SMTT(15), <1>1
<1>3. DOMAIN clients = 1 .. Len(clients)
  BY <1>1
<1>4. clients'[c] = k /\ \A b \in 1 .. Len(clients) : b # c => clients'[b] = clients[b]
  BY <1>3
<1> QED
  BY <1>2, <1>4 DEF S

LEMMA BufferOnly ==
    ASSUME TablesTyped, SameRest, NEW c \in 1 .. Len(clients), NEW k, clients' = [clients EXCEPT ![c] = k],
           \A A : clients[c] \in ClientRec(A) => k \in ClientRec(A),
           k.open = clients[c].open, k.conn = clients[c].conn, k.era = clients[c].era,
           k.regions = clients[c].regions
    PROVE  /\ TablesTyped' /\ SameTables /\ clients'[c] = k
           /\ k.inner = clients[c].inner => SameClients
<1>1. PICK A : clients \in Seq(ClientRec(A)) /\ dicts \in Seq(DictRec(A))
  BY DEF TablesTyped
<1>2. clients[c] \in ClientRec(A)
  BY <1>1
<1>3. k \in ClientRec(A)
  BY <1>2
<1>4. /\ clients' \in Seq(ClientRec(A)) /\ Len(clients') = Len(clients) /\ clients'[c] = k
      /\ \A b \in 1 .. Len(clients) : b # c => clients'[b] = clients[b]
  BY <1>1, <1>3, OneClient
<1>5. TablesTyped'
  BY <1>1, <1>4 DEF TablesTyped, SameRest
<1>6. SameTables
  BY <1>4 DEF SameTables
<1>7. k.inner = clients[c].inner => SameClients
  BY <1>4, <1>6 DEF SameTables, SameClients
<1> QED
  BY <1>4, <1>5, <1>6, <1>7

LEMMA DisturbStep ==
    ASSUME RdmaInv, NEW t \in Threads, NEW r, Disturbing(t, r), Fits(t, r), r.pc # "close",
           SameTables, TablesTyped', SameRest, mem' \in [Threads -> Opt], Fine(t)'
    PROVE  RdmaInv'
<1>1. TablesTyped /\ RestTyped' /\ ThreadsTyped /\ r \in ThRec
  BY DEF RdmaInv, Typed, RestTyped, SameRest, Fits
<1>2. /\ Len(clients) \in Nat /\ Len(dicts) \in Nat
      /\ pool # 0 => pool \in 1 .. Len(clients)
  BY <1>1, Lengths
<1>3. Grown
  BY SMTT(15), <1>2 DEF Grown, SameTables, SameRest
<1>4. PoolInv'
  BY ZenonT(40), <1>2 DEF RdmaInv, PoolInv, SameTables, SameRest
<1>5. CachesInv'
  BY <1>2 DEF RdmaInv, CachesInv, SameTables, SameRest
<1>6. Turns(t, r) /\ \A u \in Threads \ {t} : th'[u].clean = TRUE => th[u].pc = "idle"
  BY <1>1, DisturbTurns
<1>7. Closing'
  <2>1. Closing
    BY DEF RdmaInv
  <2>2. \A c \in 1 .. Len(clients) : clients[c].open => clients'[c].open
    BY DEF SameTables
  <2>3. pool' = pool
    BY DEF SameRest
  <2> QED
    BY <1>1, <1>3, <1>6, <2>1, <2>2, <2>3, ClosingKept
<1>8. mixed' = FALSE => mixed = FALSE
  BY DEF SameRest
<1> QED
  BY ZenonT(40), <1>1, <1>3, <1>4, <1>5, <1>6, <1>7, <1>8, Combine

LEMMA CopyKeeps ==
    ASSUME RdmaInv, NEW t \in Threads, Copy(t)
    PROVE  RdmaInv'
<1> DEFINE x == th[t]
           c == x.client
           y == [x EXCEPT !.pc = "call"]
           k == [clients[c] EXCEPT !.inner = t]
<1>1. /\ TablesTyped /\ x \in ThRec /\ Shape(t, x) /\ c \in 0 .. Len(clients) /\ x.dict \in 0 .. Len(dicts)
      /\ (x.pc \in UsePcs => c \in 1 .. Len(clients)) /\ mem \in [Threads -> Opt]
  BY Mover
<1>2. x.pc = "copy" /\ Disturbing(t, y)
  BY DEF Copy, At
<1>3. SameRest /\ mem' = mem
  BY DEF Copy, SameRest, caches, server
<1>4. c \in 1 .. Len(clients) /\ c # 0 /\ x.out = "none" /\ x.path = "inner" /\ t \in Storers
  BY <1>1, <1>2 DEF UsePcs, Shape, InnerPcs
<1>5. TablesTyped' /\ SameTables /\ (clients[c].open => clients'[c].inner = t)
  <2>1. CASE clients[c].open
    <3>1. clients' = [clients EXCEPT ![c] = k]
      BY <2>1 DEF Copy
    <3>2. \A A : clients[c] \in ClientRec(A) => k \in ClientRec(A)
      BY DEF ClientRec, Opt
    <3>3. PICK A : clients \in Seq(ClientRec(A))
      BY <1>1 DEF TablesTyped
    <3>4. clients[c] \in ClientRec(A)
      BY <1>4, <3>3
    <3>5. /\ k.open = clients[c].open /\ k.conn = clients[c].conn /\ k.era = clients[c].era
          /\ k.regions = clients[c].regions /\ k.inner = t
      BY <3>4 DEF ClientRec
    <3> HIDE DEF k
    <3>6. TablesTyped' /\ SameTables /\ clients'[c] = k
      BY ZenonT(40), <1>1, <1>3, <1>4, <3>1, <3>2, <3>5, BufferOnly
    <3> QED
      BY <3>5, <3>6
  <2>2. CASE ~clients[c].open
    <3>1. clients' = clients
      BY <2>2 DEF Copy
    <3> QED
      BY <1>1, <1>3, <2>2, <3>1, UnchangedTables DEF SameTables
  <2> QED
    BY <2>1, <2>2
<1>6. y \in ThRec
  BY <1>1 DEF ThRec, Pcs
<1>7. /\ y.pc = "call" /\ y.path = x.path /\ y.att = x.att /\ y.client = c /\ y.dict = x.dict /\ y.rid = x.rid
      /\ y.region = x.region /\ y.clean = x.clean /\ y.hurt = x.hurt /\ y.out = "none"
  BY <1>1, <1>4 DEF ThRec
<1> HIDE DEF y
<1>8. Shape(t, y)
  BY <1>4, <1>7 DEF Shape, UsePcs, EnsurePcs, ZcPcs, InnerPcs
<1>9. Fits(t, y)
  BY <1>1, <1>3, <1>5, <1>6, <1>7, <1>8 DEF Fits, SameRest, SameTables
<1>10. ASSUME mixed' = FALSE, y.clean = TRUE
       PROVE  /\ Own(t, y, pool', clients'[pool'], era', dicts'[era'].ext, mem'[t])
              /\ Heals(t, y, pool', clients'[pool'], enabled', up', epoch')
  <2>1. mixed = FALSE /\ x.clean = TRUE
    BY <1>3, <1>7, <1>10 DEF SameRest
  <2>2. /\ Own(t, x, pool, clients[pool], era, dicts[era].ext, mem[t])
        /\ Heals(t, x, pool, clients[pool], enabled, up, epoch)
    BY <2>1, WhenClean
  <2>3. pool # 0 /\ c = pool /\ mem[t] = t /\ Names(clients[pool].regions, x.rid, Inner)
    BY <1>2, <1>4, <2>2 DEF Own, UsePcs, Staged
  <2>4. clients[c].open
    BY <2>1, <2>3, Held
  <2>5. /\ clients'[pool].inner = t /\ clients'[pool].conn = clients[pool].conn
        /\ clients'[pool].regions = clients[pool].regions
    BY <1>4, <1>5, <2>3, <2>4 DEF SameTables
  <2>6. Own(t, y, pool, clients'[pool], era, dicts[era].ext, mem[t])
    BY <1>4, <1>7, <2>3, <2>5 DEF Own, Registering, Direct, Staged, UsePcs, EnsurePcs
  <2>7. Heals(t, y, pool, clients'[pool], enabled, up, epoch)
    BY <1>2, <1>7, <2>2, <2>5, HealsOn
  <2> QED
    BY <1>3, <2>6, <2>7 DEF SameRest
<1>11. Fine(t)'
  <2>1. th'[t] = y
    BY <1>2 DEF Disturbing
  <2> QED
    BY <1>10, <2>1, IsFine
<1>12. y.pc # "close" /\ mem' \in [Threads -> Opt]
  BY <1>1, <1>3, <1>7
<1> QED
  BY <1>2, <1>3, <1>5, <1>9, <1>11, <1>12, DisturbStep

LEMMA LoadReturnsKeeps ==
    ASSUME RdmaInv, NEW t \in Threads, LoadReturns(t)
    PROVE  RdmaInv'
<1> DEFINE x == th[t]
           c == x.client
           w == IF x.dst = Inner THEN t ELSE clients[c].inner
           k == [clients[c] EXCEPT !.lock = None, !.inner = w]
           v == [x EXCEPT !.pc = "view"]
           next == IF x.path = "zc" THEN Done(x, "ok", mem'[t]) ELSE v
<1>1. /\ TablesTyped /\ ThreadsTyped /\ x \in ThRec /\ Shape(t, x) /\ c \in 0 .. Len(clients)
      /\ x.dict \in 0 .. Len(dicts) /\ (x.pc \in UsePcs => c \in 1 .. Len(clients)) /\ mem \in [Threads -> Opt]
  BY Mover
<1>2. x.pc = "return" /\ t \in Loaders /\ (IF x.dst = t THEN Set(t, next) ELSE Disturbing(t, next))
  BY DEF LoadReturns, At
<1>3. SameRest /\ mem' = IF x.dst = Inner THEN mem ELSE [mem EXCEPT ![x.dst] = t]
  BY DEF LoadReturns, SameRest, caches, server
<1>4. c \in 1 .. Len(clients) /\ c # 0 /\ x.out = "none" /\ x.dst \in Threads \cup {Inner} /\ None \in Opt /\ t \in Opt
  BY <1>1, <1>2 DEF UsePcs, Shape, Opt
<1>5. /\ TablesTyped' /\ SameTables /\ (x.dst = Inner => clients'[c].inner = t)
      /\ x.dst # Inner => SameClients
  <2>1. PICK A : clients \in Seq(ClientRec(A))
    BY <1>1 DEF TablesTyped
  <2>2. clients[c] \in ClientRec(A) /\ DOMAIN clients = 1 .. Len(clients)
    BY <1>4, <2>1
  <2>3. clients' = [clients EXCEPT ![c] = k]
    <3>1. clients' = [Unlocked(c) EXCEPT ![c].inner = IF x.dst = Inner THEN t ELSE @]
      BY DEF LoadReturns
    <3>2. Unlocked(c) = [clients EXCEPT ![c] = [clients[c] EXCEPT !.lock = None]]
      BY DEF Unlocked
    <3>3. [clients[c] EXCEPT !.lock = None].inner = clients[c].inner
      BY <2>2 DEF ClientRec
    <3>4. Unlocked(c)[c] = [clients[c] EXCEPT !.lock = None]
      BY <1>4, <2>2, <3>2
    <3>5. clients' = [Unlocked(c) EXCEPT ![c] = [Unlocked(c)[c] EXCEPT !.inner = w]]
      BY <3>1, <3>3, <3>4
    <3>6. [Unlocked(c)[c] EXCEPT !.inner = w] = k
      BY <3>4
    <3> HIDE DEF k
    <3> QED
      BY <3>2, <3>5, <3>6
  <2>4. w \in Opt
    BY <1>1, <1>4, ClientFields
  <2>5. \A B : clients[c] \in ClientRec(B) => k \in ClientRec(B)
    BY <1>4, <2>4 DEF ClientRec
  <2>6. /\ k.open = clients[c].open /\ k.conn = clients[c].conn /\ k.era = clients[c].era
        /\ k.regions = clients[c].regions /\ k.inner = w
    BY <2>2 DEF ClientRec
  <2> HIDE DEF k
  <2>7. TablesTyped' /\ SameTables /\ clients'[c] = k /\ (k.inner = clients[c].inner => SameClients)
    BY <1>1, <1>3, <1>4, <2>3, <2>5, <2>6, BufferOnly
  <2> QED
    BY <2>6, <2>7
<1>6. mem' \in [Threads -> Opt] /\ mem'[t] \in Opt
  BY <1>1, <1>3, <1>4
<1>7. v \in ThRec
  BY <1>1 DEF ThRec, Pcs, InnerPcs
<1>8. /\ v.pc = "view" /\ v.path = x.path /\ v.att = x.att /\ v.client = c /\ v.dict = x.dict
      /\ v.clean = x.clean /\ v.hurt = x.hurt /\ v.out = "none"
  BY <1>1, <1>4 DEF ThRec
<1>9. x.path # "zc" => Fits(t, v)
  <2>1. SUFFICES ASSUME x.path # "zc" PROVE Fits(t, v)
    OBVIOUS
  <2>2. x.path = "inner"
    BY <1>1, <2>1 DEF ThRec
  <2>3. Shape(t, v)
    BY <1>2, <1>4, <1>8, <2>2 DEF Shape, UsePcs, EnsurePcs, ZcPcs, InnerPcs
  <2> QED
    BY <1>1, <1>3, <1>5, <1>7, <1>8, <2>3 DEF Fits, SameRest, SameTables
<1>10. ASSUME mixed = FALSE, x.clean = TRUE
       PROVE  pool # 0 /\ c = pool /\ x.dst = IF x.path = "zc" THEN t ELSE Inner
  <2>1. Own(t, x, pool, clients[pool], era, dicts[era].ext, mem[t])
    BY <1>10, WhenClean
  <2> QED
    BY <1>2, <2>1 DEF Own, UsePcs
<1>11. t # Inner
  BY RdmaBackendAssumption
<1> HIDE DEF v
<1>12. CASE x.path = "zc" /\ x.dst = t
  <2>1. Set(t, Done(x, "ok", mem'[t]))
    BY <1>2, <1>12
  <2>2. SameClients /\ mem'[t] = t /\ \A u \in Threads \ {t} : mem'[u] = mem[u]
    BY <1>1, <1>3, <1>5, <1>11, <1>12
  <2> QED
    BY <1>3, <1>5, <1>6, <2>1, <2>2, QuietDone
<1>13. CASE x.path = "zc" /\ x.dst # t
  <2> DEFINE y == Done(x, "ok", mem'[t])
  <2>1. "ok" \in Outs
    BY DEF Outs
  <2>2. Ended(x, y, "ok", mem'[t])
    BY <1>1, <1>6, <2>1, DoneRec
  <2>3. Disturbing(t, y)
    BY <1>2, <1>13
  <2> HIDE DEF y
  <2>4. Over(x, y) /\ y.pc = "idle" /\ (y.clean = TRUE => x.clean = TRUE)
    BY <2>2 DEF Ended, Over
  <2>5. Fits(t, y)
    BY <1>5, <2>4, OverFits
  <2>6. ~(mixed' = FALSE /\ y.clean = TRUE)
    BY <1>3, <1>10, <1>13, <2>4 DEF SameRest
  <2>7. th'[t] = y
    BY <2>3 DEF Disturbing
  <2>8. Fine(t)'
    BY <2>6, <2>7, IsFine
  <2>9. y.pc # "close"
    BY <2>4
  <2> QED
    BY ZenonT(40), <1>3, <1>5, <1>6, <2>3, <2>5, <2>8, <2>9, DisturbStep
<1>14. CASE x.path # "zc" /\ x.dst = t
  <2>1. Set(t, v) /\ v.pc # "close"
    BY <1>2, <1>8, <1>14
  <2>2. SameClients /\ \A u \in Threads \ {t} : mem'[u] = mem[u]
    BY <1>1, <1>3, <1>5, <1>11, <1>14
  <2>3. ~(mixed' = FALSE /\ v.clean = TRUE)
    BY <1>3, <1>8, <1>10, <1>11, <1>14 DEF SameRest
  <2>4. Turns(t, v) /\ th'[t] = v
    BY <1>1, <1>7, <2>1, SetTurns DEF Turns
  <2>5. Fine(t)'
    BY <2>3, <2>4, IsFine
  <2> QED
    BY ZenonT(40), <1>3, <1>5, <1>6, <1>9, <1>14, <2>1, <2>2, <2>4, <2>5, QuietStep
<1>15. CASE x.path # "zc" /\ x.dst # t
  <2>1. Disturbing(t, v) /\ v.pc # "close"
    BY <1>2, <1>8, <1>15
  <2>2. ASSUME mixed' = FALSE, v.clean = TRUE
        PROVE  /\ Own(t, v, pool', clients'[pool'], era', dicts'[era'].ext, mem'[t])
               /\ Heals(t, v, pool', clients'[pool'], enabled', up', epoch')
    <3>1. mixed = FALSE /\ x.clean = TRUE /\ t \notin Storers
      BY <1>2, <1>3, <1>8, <2>2, RdmaBackendAssumption DEF SameRest
    <3>2. pool # 0 /\ c = pool /\ x.dst = Inner
      BY <1>10, <1>15, <3>1
    <3>3. clients'[pool].inner = t /\ clients'[pool].conn = clients[pool].conn
      BY <1>4, <1>5, <3>2 DEF SameTables
    <3>4. Own(t, v, pool, clients'[pool], era, dicts[era].ext, mem'[t])
      BY ZenonT(40), <1>8, <1>15, <3>1, <3>2, <3>3 DEF Own, Registering, Direct, Staged, UsePcs, EnsurePcs
    <3>5. Heals(t, x, pool, clients[pool], enabled, up, epoch)
      BY <3>1, WhenClean
    <3>6. Heals(t, v, pool, clients'[pool], enabled, up, epoch)
      BY <1>2, <1>8, <3>3, <3>5, HealsOn
    <3> QED
      BY <1>3, <3>4, <3>6 DEF SameRest
  <2>3. th'[t] = v
    BY ZenonT(40), <2>1 DEF Disturbing
  <2>4. Fine(t)'
    BY <2>2, <2>3, IsFine
  <2> QED
    BY ZenonT(40), <1>3, <1>5, <1>6, <1>9, <1>15, <2>1, <2>4, DisturbStep
<1> QED
  BY <1>12, <1>13, <1>14, <1>15

-----------------------------------------------------------------------------
(* The steps that register and unregister a region. *)
LEMMA OneDict ==
    ASSUME NEW A, dicts \in Seq(DictRec(A)), NEW d \in 1 .. Len(dicts), NEW e \in DictRec(A),
           dicts' = [dicts EXCEPT ![d] = e]
    PROVE  /\ dicts' \in Seq(DictRec(A)) /\ Len(dicts') = Len(dicts) /\ dicts'[d] = e
           /\ \A b \in 1 .. Len(dicts) : b # d => dicts'[b] = dicts[b]
<1> DEFINE S == DictRec(A)
<1> HIDE DEF S
<1>1. dicts \in Seq(S) /\ e \in S
  BY DEF S
<1>2. dicts' \in Seq(S) /\ Len(dicts') = Len(dicts)
  BY SMTT(15), <1>1
<1>3. DOMAIN dicts = 1 .. Len(dicts)
  BY <1>1
<1>4. dicts'[d] = e /\ \A b \in 1 .. Len(dicts) : b # d => dicts'[b] = dicts[b]
  BY <1>3
<1> QED
  BY <1>2, <1>4 DEF S

(* Client c has other regions, cache d other entries, and nothing else       *)
(* changes; when they belong together the new entries name the new regions.  *)
Rewrites(c, d) ==
    /\ TablesTyped' /\ pool' = pool /\ era' = era
    /\ enabled' = enabled /\ up' = up /\ epoch' = epoch /\ mem' = mem
    /\ Len(clients') = Len(clients) /\ \A b \in 1 .. Len(clients) : b # c => clients'[b] = clients[b]
    /\ clients'[c].open = clients[c].open /\ clients'[c].conn = clients[c].conn
    /\ clients'[c].era = clients[c].era /\ clients'[c].inner = clients[c].inner
    /\ Len(dicts') = Len(dicts) /\ \A b \in 1 .. Len(dicts) : b # d => dicts'[b] = dicts[b]
    /\ mixed' \in BOOLEAN
    /\ mixed' = FALSE => /\ mixed = FALSE /\ clients[c].open /\ clients[c].era = d
                         /\ CacheOk(dicts'[d].ext, dicts'[d].put, clients'[c].regions)

LEMMA RewriteKeeps ==
    ASSUME RdmaInv, NEW c \in 1 .. Len(clients), NEW d \in 1 .. Len(dicts), Rewrites(c, d)
    PROVE  /\ PoolInv' /\ CachesInv' /\ Grown /\ RestTyped'
           /\ \A b \in 1 .. Len(clients) :
                 /\ clients'[b].open = clients[b].open /\ clients'[b].era = clients[b].era
                 /\ clients'[b].conn = clients[b].conn /\ clients'[b].inner = clients[b].inner
<1>1. TablesTyped /\ PoolInv /\ CachesInv
  BY DEF RdmaInv, Typed
<1>2. /\ Len(clients) \in Nat /\ Len(dicts) \in Nat /\ era \in 1 .. Len(dicts)
      /\ pool # 0 => pool \in 1 .. Len(clients)
  BY <1>1, Lengths
<1>3. Len(clients') = Len(clients) /\ Len(dicts') = Len(dicts) /\ pool' = pool /\ era' = era
  BY DEF Rewrites
<1>4. Grown
  BY SMTT(15), <1>2, <1>3 DEF Grown
<1>5. \A b \in 1 .. Len(clients) :
         /\ clients'[b].open = clients[b].open /\ clients'[b].era = clients[b].era
         /\ clients'[b].conn = clients[b].conn /\ clients'[b].inner = clients[b].inner
  BY DEF Rewrites
<1>6. PoolInv'
  BY ZenonT(40), <1>1, <1>2, <1>3, <1>5 DEF PoolInv
<1>7. RestTyped'
  BY DEF RestTyped, RdmaInv, Typed, Rewrites
<1>8. ASSUME mixed' = FALSE PROVE /\ \A b \in 1 .. Len(clients') : clients'[b].open =>
                                       CacheOk(dicts'[clients'[b].era].ext, dicts'[clients'[b].era].put, clients'[b].regions)
                                  /\ pool' = 0 => dicts'[era'] = Dict
  <2>1. /\ mixed = FALSE /\ clients[c].open /\ clients[c].era = d
        /\ CacheOk(dicts'[d].ext, dicts'[d].put, clients'[c].regions)
    BY <1>8 DEF Rewrites
  <2>2. ASSUME NEW b \in 1 .. Len(clients), clients[b].open
        PROVE  CacheOk(dicts'[clients'[b].era].ext, dicts'[clients'[b].era].put, clients'[b].regions)
    <3>1. CASE b = c
      BY <1>5, <2>1, <3>1
    <3>2. CASE b # c
      <4>1. clients[b].era # d
        BY <1>1, <2>1, <2>2, <3>2 DEF PoolInv
      <4>2. clients[b].era \in 1 .. Len(dicts)
        BY <1>1, <2>2 DEF PoolInv
      <4>3. dicts'[clients[b].era] = dicts[clients[b].era] /\ clients'[b] = clients[b]
        BY <3>2, <4>1, <4>2 DEF Rewrites
      <4>4. CacheOk(dicts[clients[b].era].ext, dicts[clients[b].era].put, clients[b].regions)
        BY <1>1, <2>1, <2>2 DEF CachesInv
      <4> QED
        BY <4>3, <4>4
    <3> QED
      BY <3>1, <3>2
  <2>3. ASSUME pool' = 0 PROVE dicts'[era'] = Dict
    <3>1. pool = 0 /\ dicts[era] = Dict
      BY <1>1, <1>3, <2>1, <2>3 DEF CachesInv
    <3>2. c # 0
      BY SMTT(15), <1>2
    <3>3. era # d
      BY <1>1, <2>1, <3>1, <3>2 DEF PoolInv
    <3> QED
      BY <1>2, <1>3, <3>1, <3>3 DEF Rewrites
  <2> QED
    BY <1>3, <1>5, <2>2, <2>3
<1>9. CachesInv'
  BY <1>8 DEF CachesInv
<1> QED
  BY <1>4, <1>5, <1>6, <1>7, <1>9

(* A region is added, and at most an entry for it: nobody is disturbed. *)
LEMMA AddStep ==
    ASSUME RdmaInv, NEW t \in Threads, NEW r, Set(t, r), Fits(t, r), r.pc # "close",
           NEW c \in 1 .. Len(clients), NEW d \in 1 .. Len(dicts), Rewrites(c, d), Fine(t)',
           \A i, v : Names(clients[c].regions, i, v) /\ v # Hole => Names(clients'[c].regions, i, v),
           mixed' = FALSE => \A i \in 1 .. Len(dicts[d].ext) :
                                i \in 1 .. Len(dicts'[d].ext) /\ dicts'[d].ext[i] = dicts[d].ext[i]
    PROVE  RdmaInv'
<1>1. TablesTyped /\ ThreadsTyped /\ r \in ThRec
  BY DEF RdmaInv, Typed, Fits
<1>2. /\ PoolInv' /\ CachesInv' /\ Grown /\ RestTyped'
      /\ \A b \in 1 .. Len(clients) :
            /\ clients'[b].open = clients[b].open /\ clients'[b].era = clients[b].era
            /\ clients'[b].conn = clients[b].conn /\ clients'[b].inner = clients[b].inner
  BY RewriteKeeps
<1>3. era \in 1 .. Len(dicts) /\ (pool # 0 => pool \in 1 .. Len(clients))
  BY <1>1, Lengths
<1>4. pool' = pool /\ era' = era /\ (mixed' = FALSE => mixed = FALSE)
  BY DEF Rewrites
<1>5. Turns(t, r)
  BY <1>1, SetTurns
<1>6. Closing'
  <2>1. Closing /\ TablesTyped'
    BY DEF RdmaInv, Rewrites
  <2> QED
    BY ZenonT(40), <1>1, <1>2, <1>4, <1>5, <2>1, ClosingKept
<1>7. \A b \in 1 .. Len(clients) : \A i, v : Names(clients[b].regions, i, v) /\ v # Hole => Names(clients'[b].regions, i, v)
  BY DEF Rewrites
<1>8. mixed' = FALSE => \A i \in 1 .. Len(dicts[era].ext) :
                           i \in 1 .. Len(dicts'[era].ext) /\ dicts'[era].ext[i] = dicts[era].ext[i]
  BY ZenonT(40), <1>3 DEF Rewrites
<1>9. Calm
  BY <1>2, <1>3, <1>4, <1>7, <1>8 DEF Calm
<1>10. \A u \in Threads \ {t} : Spared(u)
  BY <1>9 DEF Spared, Rewrites
<1> QED
  BY ZenonT(40), <1>2, <1>4, <1>5, <1>6, <1>10, Combine

LEMMA EnsureRegisterKeeps ==
    ASSUME RdmaInv, NEW t \in Threads, EnsureRegister(t)
    PROVE  RdmaInv'
<1> DEFINE x == th[t]
           c == x.client
           d == x.dict
           rid == SlotFor(clients[c].regions)
           regs == Put(clients[c].regions, rid, x.key)
           ext == WithId(dicts[d].ext, x.key, rid)
           k == [clients[c] EXCEPT !.regions = regs]
           e == [dicts[d] EXCEPT !.ext = ext]
<1>1. /\ TablesTyped /\ x \in ThRec /\ Shape(t, x) /\ mem \in [Threads -> Opt]
      /\ (x.pc \in UsePcs => c \in 1 .. Len(clients)) /\ (x.pc \in {"evict", "register"} => d \in 1 .. Len(dicts))
  BY Mover
<1>2. x.pc = "register"
  BY DEF EnsureRegister, At
<1>3. /\ c \in 1 .. Len(clients) /\ d \in 1 .. Len(dicts) /\ x.key \in Threads /\ x.out = "none" /\ x.path = "zc"
      /\ x.att \in {0, 1}
  BY <1>1, <1>2 DEF UsePcs, EnsurePcs, ZcPcs, Shape, ThRec, Opt
<1>4. pool' = pool /\ era' = era /\ enabled' = enabled /\ up' = up /\ epoch' = epoch /\ mem' = mem
  BY DEF EnsureRegister, server
<1>5. CASE /\ clients[c].open /\ clients' = Registered(c, x.key)
           /\ dicts' = [dicts EXCEPT ![d].ext = WithId(@, x.key, rid)]
           /\ mixed' = (mixed \/ clients[c].era # d \/ PlaceOf(dicts[d].ext, x.key) # {})
           /\ Set(t, Ensured(x, rid))
  <2>1. PICK A : clients \in Seq(ClientRec(A)) /\ dicts \in Seq(DictRec(A))
    BY <1>1 DEF TablesTyped
  <2>2. clients[c] \in ClientRec(A) /\ dicts[d] \in DictRec(A)
    BY SMTT(40), <1>3, <2>1
  <2>3. clients[c].regions \in Seq(Buffers) /\ dicts[d].ext \in Seq(Entries) /\ x.key \in Buffers
    BY <1>3, <2>2 DEF ClientRec, DictRec, Buffers
  <2>4. /\ regs \in Seq(Buffers) /\ Names(regs, rid, x.key) /\ rid \in Nat
        /\ \A i, v : Names(clients[c].regions, i, v) /\ v # Hole => Names(regs, i, v) /\ i # rid
    BY SMTT(40), <2>3, RegisterKeeps
  <2>5. /\ ext \in Seq(Entries)
        /\ PlaceOf(dicts[d].ext, x.key) = {} =>
              /\ Len(ext) = Len(dicts[d].ext) + 1 /\ ext[Len(dicts[d].ext) + 1] = <<x.key, rid>>
              /\ \A i \in 1 .. Len(dicts[d].ext) : i \in 1 .. Len(ext) /\ ext[i] = dicts[d].ext[i] /\ dicts[d].ext[i][1] # x.key
    <3> HIDE DEF rid
    <3>1. rid \in Nat
      BY <2>4
    <3>2. ext = WithId(dicts[d].ext, x.key, rid)
      OBVIOUS
    <3> HIDE DEF ext
    <3>3. Enters(dicts[d].ext, x.key, rid, ext)
      BY ZenonT(40), <1>3, <2>3, <3>1, <3>2, WithIdKeeps
    <3> QED
      BY <3>3 DEF Enters
  <2>6. clients' = [clients EXCEPT ![c] = k] /\ dicts' = [dicts EXCEPT ![d] = e]
    BY <1>5 DEF Registered
  <2>7. /\ mixed' \in BOOLEAN
        /\ mixed' = FALSE => mixed = FALSE /\ clients[c].era = d /\ PlaceOf(dicts[d].ext, x.key) = {}
    BY <1>5 DEF RdmaInv, Typed
  <2>8. ASSUME mixed' = FALSE PROVE CacheOk(ext, dicts[d].put, regs)
    <3>1. CacheOk(dicts[d].ext, dicts[d].put, clients[c].regions)
      BY ZenonT(40), <1>3, <1>5, <2>7, <2>8 DEF RdmaInv, CachesInv
    <3> QED
      BY ZenonT(40), <1>3, <2>3, <2>7, <2>8, <3>1, RegisterCache
  <2>9. Len(dicts[d].ext) + 1 \in 1 .. Len(dicts[d].ext) + 1
    BY SMTT(15), <2>3
  <2> DEFINE y == Ensured(x, rid)
  <2>10. /\ y \in ThRec /\ Shape(t, y)
         /\ y.pc = (IF x.att = 0 THEN "begin" ELSE "again") /\ y.rid = rid
         /\ y.path = x.path /\ y.att = x.att /\ y.client = 0 /\ y.dict = 0
         /\ y.region = x.region /\ y.clean = x.clean /\ y.hurt = x.hurt /\ y.out = x.out
    <3> HIDE DEF rid
    <3>1. rid \in Nat
      BY <2>4
    <3>2. HasRegion(t, x, rid, y)
      BY ZenonT(40), <1>1, <1>3, <3>1, EnsuredRec
    <3> QED
      BY <3>2 DEF HasRegion
  <2>11. Set(t, y)
    BY <1>5
  <2> HIDE DEF y, regs, ext, rid
  <2>12. k \in ClientRec(A) /\ e \in DictRec(A)
    BY <2>2, <2>4, <2>5 DEF ClientRec, DictRec
  <2>13. /\ k.open = clients[c].open /\ k.conn = clients[c].conn /\ k.era = clients[c].era
         /\ k.inner = clients[c].inner /\ k.regions = regs
         /\ e.ext = ext /\ e.put = dicts[d].put
    BY <2>2 DEF ClientRec, DictRec
  <2> HIDE DEF k, e
  <2>14. /\ clients' \in Seq(ClientRec(A)) /\ Len(clients') = Len(clients) /\ clients'[c] = k
         /\ \A b \in 1 .. Len(clients) : b # c => clients'[b] = clients[b]
    BY ZenonT(40), <1>3, <2>1, <2>6, <2>12, OneClient
  <2>15. /\ dicts' \in Seq(DictRec(A)) /\ Len(dicts') = Len(dicts) /\ dicts'[d] = e
         /\ \A b \in 1 .. Len(dicts) : b # d => dicts'[b] = dicts[b]
    BY ZenonT(40), <1>3, <2>1, <2>6, <2>12, OneDict
  <2>16. TablesTyped'
    BY <1>1, <1>4, <2>14, <2>15 DEF TablesTyped
  <2>17. Rewrites(c, d)
    BY ZenonT(40), <1>4, <1>5, <2>7, <2>8, <2>13, <2>14, <2>15, <2>16 DEF Rewrites
  <2>18. y.pc \in {"begin", "again"}
    BY <2>10
  <2>19. Fits(t, y)
    <3>1. 0 \in 0 .. Len(clients) /\ 0 \in 0 .. Len(dicts)
      BY <1>1, Lengths
    <3> QED
      BY <2>10, <2>14, <2>15, <3>1 DEF Fits
  <2>20. ASSUME mixed' = FALSE, y.clean = TRUE
         PROVE  /\ Own(t, y, pool', clients'[pool'], era', dicts'[era'].ext, mem'[t])
                /\ Heals(t, y, pool', clients'[pool'], enabled', up', epoch')
    <3>1. mixed = FALSE /\ x.clean = TRUE /\ PlaceOf(dicts[d].ext, x.key) = {}
      BY <2>7, <2>10, <2>20
    <3>2. /\ Own(t, x, pool, clients[pool], era, dicts[era].ext, mem[t])
          /\ Heals(t, x, pool, clients[pool], enabled, up, epoch)
      BY <3>1, WhenClean
    <3>3. pool # 0 /\ c = pool /\ d = era /\ x.key = t /\ (t \in Storers => mem[t] = t)
      BY <1>2, <3>2 DEF Own, Registering, UsePcs, EnsurePcs
    <3>4. \E i \in 1 .. Len(dicts'[era].ext) : dicts'[era].ext[i] = <<t, y.rid>>
      <4>1. Len(ext) = Len(dicts[d].ext) + 1 /\ ext[Len(dicts[d].ext) + 1] = <<x.key, rid>>
        BY <2>5, <3>1
      <4>2. dicts'[era].ext = ext
        BY <2>13, <2>15, <3>3
      <4>3. Len(dicts[d].ext) + 1 \in 1 .. Len(ext) /\ ext[Len(dicts[d].ext) + 1] = <<t, y.rid>>
        BY <2>9, <2>10, <3>3, <4>1
      <4> QED
        BY <4>2, <4>3
    <3>5. Own(t, y, pool, clients'[pool], era, dicts'[era].ext, mem[t])
      BY ZenonT(40), <1>3, <2>10, <2>18, <3>3, <3>4 DEF Own, Registering, Direct, Staged, UsePcs, EnsurePcs
    <3>6. clients'[pool].conn = clients[pool].conn
      BY <2>13, <2>14, <3>3
    <3>7. Heals(t, y, pool, clients'[pool], enabled, up, epoch)
      BY ZenonT(40), <1>2, <1>3, <2>10, <2>18, <3>2, <3>6, HealsOn
    <3> QED
      BY <1>4, <3>5, <3>7
  <2>21. Fine(t)'
    <3>1. th'[t] = y
      BY <1>1, <2>11 DEF Set, RdmaInv, Typed, ThreadsTyped
    <3> QED
      BY <2>20, <3>1, IsFine
  <2>22. \A i, v : Names(clients[c].regions, i, v) /\ v # Hole => Names(clients'[c].regions, i, v)
    BY <2>4, <2>13, <2>14
  <2>23. mixed' = FALSE => \A i \in 1 .. Len(dicts[d].ext) :
                              i \in 1 .. Len(dicts'[d].ext) /\ dicts'[d].ext[i] = dicts[d].ext[i]
    BY <2>5, <2>7, <2>13, <2>15
  <2> QED
    BY ZenonT(40), <1>3, <2>11, <2>17, <2>18, <2>19, <2>21, <2>22, <2>23, AddStep
<1>6. CASE Set(t, [ZcFailed(x) EXCEPT !.hurt = TRUE]) /\ clients' = clients /\ dicts' = dicts /\ mixed' = mixed
  <2> DEFINE w == ZcFailed(x)
             y == [w EXCEPT !.hurt = TRUE]
  <2>1. Falls(x, w) /\ w.out # "grpc" /\ w.pc # "reset"
    BY <1>1, ZcFailedFalls
  <2>2. Set(t, y)
    BY <1>6
  <2> HIDE DEF w
  <2>3. Marked(x, w, TRUE, y)
    BY <1>1, <2>1, HurtFalls
  <2> HIDE DEF y
  <2>4. Falls(x, y) /\ y.hurt = TRUE /\ y.out # "grpc" /\ y.pc # "reset"
    BY <2>1, <2>3 DEF Marked
  <2>5. SameRest
    BY <1>4, <1>6 DEF SameRest
  <2>6. TablesTyped' /\ SameClients
    BY <1>1, <1>6, <2>5, UnchangedTables
  <2>7. Heals(t, y, pool, clients'[pool], enabled, up, epoch)
    BY <2>4, HealsFalls
  <2> QED
    BY <1>2, <1>4, <2>2, <2>4, <2>5, <2>6, <2>7, QuietFall
<1> QED
  BY <1>5, <1>6 DEF EnsureRegister

LEMMA StageKeeps ==
    ASSUME RdmaInv, NEW t \in Threads, Stage(t)
    PROVE  RdmaInv'
<1> DEFINE x == th[t]
           c == x.client
           hits == {e \in dicts[era].put : e[1] = clients[c].addr}
           rid == SlotFor(clients[c].regions)
           regs == Put(clients[c].regions, rid, Inner)
           k == [clients[c] EXCEPT !.regions = regs]
           put == dicts[era].put \cup {<<clients[c].addr, rid>>}
           e == [dicts[era] EXCEPT !.put = put]
           z(i) == [x EXCEPT !.pc = "copy", !.rid = i]
<1>1. /\ TablesTyped /\ x \in ThRec /\ Shape(t, x) /\ mem \in [Threads -> Opt] /\ c \in 0 .. Len(clients)
      /\ x.dict \in 0 .. Len(dicts) /\ (x.pc \in UsePcs => c \in 1 .. Len(clients))
  BY Mover
<1>2. x.pc = "stage"
  BY DEF Stage, At
<1>3. /\ c \in 1 .. Len(clients) /\ c # 0 /\ t \in Storers /\ t \notin Loaders /\ x.out = "none" /\ x.path = "inner"
  BY <1>1, <1>2, RdmaBackendAssumption DEF UsePcs, InnerPcs, Shape
<1>4. pool' = pool /\ era' = era /\ enabled' = enabled /\ up' = up /\ epoch' = epoch /\ mem' = mem
  BY DEF Stage, server
<1>5. PICK A : clients \in Seq(ClientRec(A)) /\ dicts \in Seq(DictRec(A))
  BY <1>1 DEF TablesTyped
<1>6. era \in 1 .. Len(dicts)
  BY <1>1, Lengths
<1>7. clients[c] \in ClientRec(A) /\ dicts[era] \in DictRec(A)
  BY <1>3, <1>5, <1>6
<1>8. ASSUME mixed = FALSE, x.clean = TRUE
      PROVE  /\ pool # 0 /\ c = pool /\ mem[t] = t
             /\ Heals(t, x, pool, clients[pool], enabled, up, epoch) /\ x.hurt = TRUE
  <2>1. /\ Own(t, x, pool, clients[pool], era, dicts[era].ext, mem[t])
        /\ Heals(t, x, pool, clients[pool], enabled, up, epoch)
    BY <1>8, WhenClean
  <2>2. x.hurt \in BOOLEAN
    BY <1>1 DEF ThRec
  <2>3. x.hurt # FALSE
    BY <1>2, <1>3, <2>1 DEF Heals
  <2> QED
    BY <1>2, <1>3, <2>1, <2>2, <2>3 DEF Own, UsePcs
<1>9. ASSUME NEW i \in Nat
      PROVE  /\ z(i) \in ThRec /\ Shape(t, z(i)) /\ z(i).pc = "copy" /\ z(i).path = x.path /\ z(i).att = x.att
             /\ z(i).client = c /\ z(i).dict = x.dict /\ z(i).rid = i
             /\ z(i).clean = x.clean /\ z(i).hurt = x.hurt /\ z(i).out = "none"
  <2> DEFINE y == z(i)
  <2>1. y \in ThRec
    BY ZenonT(40), <1>1 DEF ThRec, Pcs, InnerPcs
  <2>2. /\ y.pc = "copy" /\ y.path = x.path /\ y.att = x.att
        /\ y.client = c /\ y.dict = x.dict /\ y.rid = i
        /\ y.clean = x.clean /\ y.hurt = x.hurt /\ y.out = "none"
    BY <1>1, <1>3 DEF ThRec
  <2> HIDE DEF y
  <2>3. Shape(t, y)
    BY <1>3, <2>2 DEF Shape, UsePcs, EnsurePcs, ZcPcs, InnerPcs
  <2>4. /\ y \in ThRec /\ Shape(t, y) /\ y.pc = "copy" /\ y.path = x.path /\ y.att = x.att
        /\ y.client = c /\ y.dict = x.dict /\ y.rid = i
        /\ y.clean = x.clean /\ y.hurt = x.hurt /\ y.out = "none"
    BY <2>1, <2>2, <2>3
  <2> QED
    BY <2>4 DEF y
<1>10. ASSUME NEW y, NEW i, y.pc = "copy", y.path = "inner", y.client = c, y.rid = i, y.out = "none", NEW k2, NEW ext,
              Names(k2.regions, i, Inner), pool # 0, c = pool, mem[t] = t
       PROVE  Own(t, y, pool, k2, era, ext, mem[t])
  BY <1>3, <1>10 DEF Own, Registering, Direct, Staged, UsePcs, EnsurePcs
<1> HIDE DEF z
<1>11. ASSUME NEW y, Set(t, y), Falls(x, y), y.pc = "idle" \/ y.hurt = TRUE, clients' = clients, dicts' = dicts, mixed' = mixed
       PROVE  RdmaInv'
  <2>1. SameRest
    BY <1>4, <1>11 DEF SameRest
  <2>2. TablesTyped' /\ SameClients
    BY <1>1, <1>11, <2>1, UnchangedTables
  <2>3. ASSUME mixed = FALSE, y.clean = TRUE, x.clean = TRUE
        PROVE  Heals(t, y, pool, clients'[pool], enabled, up, epoch)
    <3>1. x.hurt = TRUE
      BY <1>8, <2>3
    <3>2. y.out # "grpc"
      BY ZenonT(40), <1>11, <2>3, <3>1 DEF Falls
    <3> QED
      BY <1>11, <3>2, HealsFalls
  <2> QED
    BY ZenonT(40), <1>2, <1>3, <1>4, <1>11, <2>1, <2>2, <2>3, QuietFall
<1>12. CASE /\ \E f \in hits : Set(t, z(f[2]))
            /\ clients' = clients /\ dicts' = dicts /\ mixed' = mixed
  <2>1. PICK f \in dicts[era].put : Set(t, z(f[2]))
    BY <1>12
  <2>2. f[2] \in Nat
    BY <1>7, <2>1 DEF DictRec
  <2> DEFINE y == z(f[2])
  <2>3. /\ y \in ThRec /\ Shape(t, y) /\ y.pc = "copy" /\ y.path = x.path /\ y.att = x.att
        /\ y.client = c /\ y.dict = x.dict /\ y.rid = f[2]
        /\ y.clean = x.clean /\ y.hurt = x.hurt /\ y.out = "none"
    BY <1>9, <2>2
  <2>4. SameRest
    BY <1>4, <1>12 DEF SameRest
  <2>5. TablesTyped' /\ SameClients
    BY <1>1, <1>12, <2>4, UnchangedTables
  <2>6. Set(t, y)
    BY <2>1
  <2> HIDE DEF y
  <2>7. Fits(t, y)
    BY <1>1, <1>12, <2>3 DEF Fits
  <2>8. ASSUME mixed = FALSE, x.clean = TRUE
        PROVE  Own(t, y, pool, clients'[pool], era, dicts[era].ext, mem[t])
    <3>1. pool # 0 /\ c = pool /\ mem[t] = t
      BY <1>8, <2>8
    <3>2. Names(clients'[pool].regions, f[2], Inner)
      BY ZenonT(40), <1>12, <2>1, <2>8, <3>1, Held DEF CacheOk
    <3> QED
      BY ZenonT(40), <1>3, <1>10, <2>3, <3>1, <3>2
  <2> QED
    BY ZenonT(40), <1>2, <1>4, <2>3, <2>4, <2>5, <2>6, <2>7, <2>8, QuietOn
<1>13. CASE /\ clients[c].open /\ clients' = Registered(c, Inner)
            /\ dicts' = [dicts EXCEPT ![era].put = @ \union {<<clients[c].addr, rid>>}]
            /\ mixed' = (mixed \/ clients[c].era # era)
            /\ Set(t, z(rid))
  <2>1. clients[c].regions \in Seq(Buffers) /\ dicts[era].ext \in Seq(Entries) /\ Inner \in Buffers
    BY <1>7 DEF ClientRec, DictRec, Buffers
  <2>2. /\ regs \in Seq(Buffers) /\ Names(regs, rid, Inner) /\ rid \in Nat
        /\ \A i, v : Names(clients[c].regions, i, v) /\ v # Hole => Names(regs, i, v) /\ i # rid
    BY SMTT(40), <2>1, RegisterKeeps
  <2>3. clients' = [clients EXCEPT ![c] = k] /\ dicts' = [dicts EXCEPT ![era] = e]
    BY <1>13 DEF Registered
  <2>4. mixed' \in BOOLEAN /\ (mixed' = FALSE => mixed = FALSE /\ clients[c].era = era)
    BY <1>13 DEF RdmaInv, Typed
  <2>5. ASSUME mixed' = FALSE PROVE CacheOk(dicts[era].ext, put, regs)
    <3>1. CacheOk(dicts[era].ext, dicts[era].put, clients[c].regions)
      BY <1>3, <1>13, <2>4, <2>5 DEF RdmaInv, CachesInv
    <3> QED
      BY <2>1, <3>1, StageCache
  <2> HIDE DEF regs, rid
  <2>6. put \in SUBSET (A \X Nat)
    BY SMTT(40), <1>7, <2>2 DEF ClientRec, DictRec
  <2> HIDE DEF put
  <2>7. k \in ClientRec(A) /\ e \in DictRec(A)
    BY <1>7, <2>2, <2>6 DEF ClientRec, DictRec
  <2>8. /\ k.open = clients[c].open /\ k.conn = clients[c].conn /\ k.era = clients[c].era
        /\ k.inner = clients[c].inner /\ k.regions = regs
        /\ e.ext = dicts[era].ext /\ e.put = put
    BY <1>7 DEF ClientRec, DictRec
  <2> HIDE DEF k, e
  <2>9. /\ clients' \in Seq(ClientRec(A)) /\ Len(clients') = Len(clients) /\ clients'[c] = k
        /\ \A b \in 1 .. Len(clients) : b # c => clients'[b] = clients[b]
    BY ZenonT(40), <1>3, <1>5, <2>3, <2>7, OneClient
  <2>10. /\ dicts' \in Seq(DictRec(A)) /\ Len(dicts') = Len(dicts) /\ dicts'[era] = e
         /\ \A b \in 1 .. Len(dicts) : b # era => dicts'[b] = dicts[b]
    BY ZenonT(40), <1>5, <1>6, <2>3, <2>7, OneDict
  <2>11. TablesTyped'
    BY <1>1, <1>4, <2>9, <2>10 DEF TablesTyped
  <2>12. Rewrites(c, era)
    BY ZenonT(40), <1>4, <1>13, <2>4, <2>5, <2>8, <2>9, <2>10, <2>11 DEF Rewrites
  <2> DEFINE y == z(rid)
  <2>13. /\ y \in ThRec /\ Shape(t, y) /\ y.pc = "copy" /\ y.path = x.path /\ y.att = x.att
         /\ y.client = c /\ y.dict = x.dict /\ y.rid = rid
         /\ y.clean = x.clean /\ y.hurt = x.hurt /\ y.out = "none"
    BY <1>9, <2>2
  <2>14. Set(t, y)
    BY <1>13
  <2> HIDE DEF y
  <2>15. Fits(t, y)
    BY ZenonT(40), <1>1, <2>9, <2>10, <2>13 DEF Fits
  <2>16. ASSUME mixed' = FALSE, y.clean = TRUE
         PROVE  /\ Own(t, y, pool', clients'[pool'], era', dicts'[era'].ext, mem'[t])
                /\ Heals(t, y, pool', clients'[pool'], enabled', up', epoch')
    <3>1. mixed = FALSE /\ x.clean = TRUE
      BY <2>4, <2>13, <2>16
    <3>2. pool # 0 /\ c = pool /\ mem[t] = t /\ Heals(t, x, pool, clients[pool], enabled, up, epoch)
      BY <1>8, <3>1
    <3>3. Names(clients'[pool].regions, rid, Inner) /\ clients'[pool].conn = clients[pool].conn
      BY ZenonT(40), <2>2, <2>8, <2>9, <3>2
    <3>4. Own(t, y, pool, clients'[pool], era, dicts'[era].ext, mem[t])
      BY ZenonT(40), <1>3, <1>10, <2>13, <3>2, <3>3
    <3>5. Heals(t, y, pool, clients'[pool], enabled, up, epoch)
      BY ZenonT(40), <1>2, <2>13, <3>2, <3>3, HealsOn
    <3> QED
      BY <1>4, <3>4, <3>5
  <2>17. Fine(t)'
    <3>1. th'[t] = y
      BY <2>14 DEF Set, RdmaInv, Typed, ThreadsTyped
    <3> QED
      BY <2>16, <3>1, IsFine
  <2>18. \A i, v : Names(clients[c].regions, i, v) /\ v # Hole => Names(clients'[c].regions, i, v)
    BY <2>2, <2>8, <2>9
  <2>19. mixed' = FALSE => \A i \in 1 .. Len(dicts[era].ext) :
                              i \in 1 .. Len(dicts'[era].ext) /\ dicts'[era].ext[i] = dicts[era].ext[i]
    BY <2>8, <2>10
  <2>20. y.pc # "close"
    BY <2>13
  <2> QED
    BY ZenonT(40), <1>3, <1>6, <2>12, <2>14, <2>15, <2>17, <2>18, <2>19, <2>20, AddStep
<1>14. CASE Set(t, [Errored(x) EXCEPT !.hurt = TRUE]) /\ clients' = clients /\ dicts' = dicts /\ mixed' = mixed
  <2> DEFINE w == Errored(x)
             y == [w EXCEPT !.hurt = TRUE]
  <2>1. Falls(x, w)
    BY <1>1, ErroredFalls
  <2>2. Set(t, y)
    BY <1>14
  <2> HIDE DEF w
  <2>3. Marked(x, w, TRUE, y)
    BY <1>1, <2>1, HurtFalls
  <2> HIDE DEF y
  <2>4. Falls(x, y) /\ y.hurt = TRUE
    BY <2>3 DEF Marked
  <2> QED
    BY <1>11, <1>14, <2>2, <2>4
<1>15. CASE Set(t, InnerFailed(x)) /\ clients' = clients /\ dicts' = dicts /\ mixed' = mixed
  <2> DEFINE y == InnerFailed(x)
  <2>1. Falls(x, y) /\ y.pc = "idle"
    BY <1>1, InnerFailedFalls
  <2>2. Set(t, y)
    BY <1>15
  <2> HIDE DEF y
  <2> QED
    BY <1>11, <1>15, <2>1, <2>2
<1> QED
  BY <1>12, <1>13, <1>14, <1>15 DEF Stage, z

LEMMA EnsureEvictKeeps ==
    ASSUME RdmaInv, NEW t \in Threads, EnsureEvict(t)
    PROVE  RdmaInv'
<1> DEFINE x == th[t]
           c == x.client
           d == x.dict
           ext == Without(dicts[d].ext, x.old[1])
           e == [dicts[d] EXCEPT !.ext = ext]
           regs == Unregistered(clients[c].regions, x.old[2])
           k == [clients[c] EXCEPT !.regions = regs]
           y == IF Len(ext) >= CacheLimit THEN [x EXCEPT !.old = Head(ext)]
                ELSE [x EXCEPT !.pc = "register", !.old = 0]
<1>1. /\ TablesTyped /\ ThreadsTyped /\ x \in ThRec /\ Shape(t, x) /\ mem \in [Threads -> Opt]
      /\ c \in 0 .. Len(clients) /\ d \in 0 .. Len(dicts)
      /\ (x.pc \in UsePcs => c \in 1 .. Len(clients)) /\ (x.pc \in {"evict", "register"} => d \in 1 .. Len(dicts))
  BY Mover
<1>2. x.pc = "evict"
  BY DEF EnsureEvict, At
<1>3. /\ c \in 1 .. Len(clients) /\ c # 0 /\ d \in 1 .. Len(dicts) /\ d # 0 /\ x.key # None /\ x.out = "none"
      /\ x.path = "zc" /\ x.old \in Threads \X Nat
  BY <1>1, <1>2 DEF UsePcs, EnsurePcs, ZcPcs, Shape
<1>4. pool' = pool /\ era' = era /\ enabled' = enabled /\ up' = up /\ epoch' = epoch /\ mem' = mem
  BY DEF EnsureEvict, server
<1>5. PICK A : clients \in Seq(ClientRec(A)) /\ dicts \in Seq(DictRec(A))
  BY <1>1 DEF TablesTyped
<1>6. clients[c] \in ClientRec(A) /\ dicts[d] \in DictRec(A)
  BY <1>3, <1>5
<1>7. clients[c].regions \in Seq(Buffers) /\ dicts[d].ext \in Seq(Entries) /\ clients[c].open \in BOOLEAN
  BY <1>6 DEF ClientRec, DictRec
<1>8. ext \in Seq(Entries)
  BY <1>7, WithoutKeeps
<1>9. regs \in Seq(Buffers)
  BY <1>7, UnregisterKeeps
<1>10. /\ clients' = IF clients[c].open THEN [clients EXCEPT ![c] = k] ELSE clients
       /\ dicts' = [dicts EXCEPT ![d] = e]
  BY DEF EnsureEvict
<1>11. /\ mixed' \in BOOLEAN
       /\ mixed' = FALSE => /\ mixed = FALSE /\ clients[c].era = d
                            /\ \E i \in DOMAIN dicts[d].ext : dicts[d].ext[i] = x.old
  BY DEF EnsureEvict, RdmaInv, Typed
<1>12. ASSUME mixed' = FALSE PROVE clients[c].open /\ CacheOk(ext, dicts[d].put, regs)
  <2>1. mixed = FALSE /\ clients[c].era = d
    BY <1>11, <1>12
  <2>2. clients[c].open
    BY <1>3, <2>1 DEF RdmaInv, PoolInv
  <2>3. CacheOk(dicts[d].ext, dicts[d].put, clients[c].regions)
    BY <1>3, <2>1, <2>2 DEF RdmaInv, CachesInv
  <2>4. PICK i \in DOMAIN dicts[d].ext : dicts[d].ext[i] = x.old
    BY <1>11, <1>12
  <2>5. i \in 1 .. Len(dicts[d].ext) /\ dicts[d].ext[i][1] = x.old[1] /\ x.old[1] \in Threads
    BY SMTT(40), <1>3, <1>7, <2>4
  <2>6. CacheOk(Without(dicts[d].ext, x.old[1]), dicts[d].put, Unregistered(clients[c].regions, dicts[d].ext[i][2]))
    BY <1>7, <2>3, <2>5, EvictCache
  <2> QED
    BY <2>2, <2>4, <2>6
<1>13. Disturbing(t, y)
  BY DEF EnsureEvict
<1>14. Len(ext) >= CacheLimit => Head(ext) \in Entries
  BY SMTT(15), <1>8, RdmaBackendAssumption
<1> HIDE DEF ext, regs
<1>15. /\ y \in ThRec /\ y.pc \in {"evict", "register"} /\ y.path = x.path /\ y.att = x.att /\ y.client = c
       /\ y.dict = d /\ y.key = x.key /\ y.clean = x.clean /\ y.hurt = x.hurt /\ y.out = "none"
       /\ y.pc = "evict" => y.old \in Threads \X Nat
  <2>1. CASE Len(ext) >= CacheLimit
    <3> DEFINE v == [x EXCEPT !.old = Head(ext)]
    <3>1. Head(ext) \in Threads \X Nat
      BY <1>14, <2>1 DEF Entries
    <3>2. v \in ThRec
      BY <1>1, <3>1 DEF ThRec
    <3>3. /\ v.pc = "evict" /\ v.path = x.path /\ v.att = x.att /\ v.client = c
          /\ v.dict = d /\ v.key = x.key /\ v.clean = x.clean /\ v.hurt = x.hurt /\ v.out = "none" /\ v.old = Head(ext)
      BY <1>1, <1>2, <1>3 DEF ThRec
    <3>4. y = v
      BY <2>1
    <3> HIDE DEF v, y
    <3> QED
      BY <3>1, <3>2, <3>3, <3>4
  <2>2. CASE ~(Len(ext) >= CacheLimit)
    <3> DEFINE v == [x EXCEPT !.pc = "register", !.old = 0]
    <3>1. "register" \in Pcs /\ 0 \in Nat
      BY DEF Pcs, ZcPcs, EnsurePcs
    <3>2. v \in ThRec
      BY <1>1, <3>1 DEF ThRec
    <3>3. /\ v.pc = "register" /\ v.path = x.path /\ v.att = x.att /\ v.client = c
          /\ v.dict = d /\ v.key = x.key /\ v.clean = x.clean /\ v.hurt = x.hurt /\ v.out = "none"
      BY <1>1, <1>3 DEF ThRec
    <3>4. y = v
      BY <2>2
    <3> HIDE DEF v, y
    <3> QED
      BY <3>2, <3>3, <3>4
  <2> QED
    BY <2>1, <2>2
<1> HIDE DEF y
<1>16. Shape(t, y)
  BY <1>3, <1>15 DEF Shape, UsePcs, EnsurePcs, ZcPcs, InnerPcs
<1>17. k \in ClientRec(A) /\ e \in DictRec(A)
  BY <1>6, <1>8, <1>9 DEF ClientRec, DictRec
<1>18. /\ k.open = clients[c].open /\ k.conn = clients[c].conn /\ k.era = clients[c].era
       /\ k.inner = clients[c].inner /\ k.regions = regs
       /\ e.ext = ext /\ e.put = dicts[d].put
  BY <1>6 DEF ClientRec, DictRec
<1> HIDE DEF k, e
<1>19. /\ dicts' \in Seq(DictRec(A)) /\ Len(dicts') = Len(dicts) /\ dicts'[d] = e
       /\ \A b \in 1 .. Len(dicts) : b # d => dicts'[b] = dicts[b]
  BY ZenonT(40), <1>3, <1>5, <1>10, <1>17, OneDict
<1>20. /\ clients' \in Seq(ClientRec(A)) /\ Len(clients') = Len(clients)
       /\ clients'[c] = IF clients[c].open THEN k ELSE clients[c]
       /\ \A b \in 1 .. Len(clients) : b # c => clients'[b] = clients[b]
  <2>1. CASE clients[c].open
    <3>1. clients' = [clients EXCEPT ![c] = k]
      BY <1>10, <2>1
    <3>2. /\ clients' \in Seq(ClientRec(A)) /\ Len(clients') = Len(clients) /\ clients'[c] = k
          /\ \A b \in 1 .. Len(clients) : b # c => clients'[b] = clients[b]
      BY ZenonT(40), <1>3, <1>5, <1>17, <3>1, OneClient
    <3> QED
      BY <2>1, <3>2
  <2>2. CASE ~clients[c].open
    BY <1>5, <1>10, <2>2
  <2> QED
    BY <2>1, <2>2
<1>21. TablesTyped'
  BY <1>1, <1>4, <1>19, <1>20 DEF TablesTyped
<1>22. /\ clients'[c].open = clients[c].open /\ clients'[c].conn = clients[c].conn
       /\ clients'[c].era = clients[c].era /\ clients'[c].inner = clients[c].inner
  BY <1>18, <1>20
<1>23. mixed' = FALSE => CacheOk(dicts'[d].ext, dicts'[d].put, clients'[c].regions)
  BY <1>12, <1>18, <1>19, <1>20
<1>24. Rewrites(c, d)
  BY ZenonT(40), <1>4, <1>11, <1>12, <1>19, <1>20, <1>21, <1>22, <1>23 DEF Rewrites
<1>25. /\ PoolInv' /\ CachesInv' /\ Grown /\ RestTyped'
       /\ \A b \in 1 .. Len(clients) :
             /\ clients'[b].open = clients[b].open /\ clients'[b].era = clients[b].era
             /\ clients'[b].conn = clients[b].conn /\ clients'[b].inner = clients[b].inner
  BY <1>3, <1>24, RewriteKeeps
<1>26. Turns(t, y) /\ (\A u \in Threads \ {t} : th'[u].clean = TRUE => th[u].pc = "idle") /\ th'[t] = y
  BY <1>1, <1>13, <1>15, DisturbTurns DEF Turns
<1>27. y.pc # "close"
  BY <1>15
<1>28. Closing'
  <2>1. Closing
    BY DEF RdmaInv
  <2> QED
    BY ZenonT(40), <1>1, <1>4, <1>21, <1>25, <1>26, <1>27, <2>1, ClosingKept
<1>29. Fits(t, y)
  BY <1>1, <1>15, <1>16, <1>19, <1>20 DEF Fits
<1>30. ASSUME mixed' = FALSE, y.clean = TRUE
       PROVE  /\ Own(t, y, pool', clients'[pool'], era', dicts'[era'].ext, mem'[t])
              /\ Heals(t, y, pool', clients'[pool'], enabled', up', epoch')
  <2>1. mixed = FALSE /\ x.clean = TRUE
    BY <1>11, <1>15, <1>30
  <2>2. /\ Own(t, x, pool, clients[pool], era, dicts[era].ext, mem[t])
        /\ Heals(t, x, pool, clients[pool], enabled, up, epoch)
    BY <2>1, WhenClean
  <2>3. pool # 0 /\ c = pool /\ d = era /\ x.key = t /\ (t \in Storers => mem[t] = t)
    BY <1>2, <2>2 DEF Own, Registering, UsePcs, EnsurePcs
  <2>4. Own(t, y, pool, clients'[pool], era, dicts'[era].ext, mem[t])
    BY ZenonT(40), <1>3, <1>15, <2>3 DEF Own, Registering, Direct, Staged, UsePcs, EnsurePcs
  <2>5. clients'[pool].conn = clients[pool].conn
    BY <1>22, <2>3
  <2>6. Heals(t, y, pool, clients'[pool], enabled, up, epoch)
    BY ZenonT(40), <1>2, <1>15, <2>2, <2>5, HealsOn
  <2> QED
    BY <1>4, <2>4, <2>6
<1>31. Fine(t)'
  BY <1>26, <1>30, IsFine
<1> QED
  BY ZenonT(40), <1>11, <1>25, <1>26, <1>28, <1>29, <1>31, Combine

-----------------------------------------------------------------------------
(* The reset of the pool. *)
LEMMA ResetKeeps ==
    ASSUME RdmaInv, NEW t \in Threads, Reset(t)
    PROVE  RdmaInv'
<1> DEFINE x == th[t]
           y == [x EXCEPT !.pc = "close", !.old = pool]
           used == {era} \union {th[u].dict : u \in Threads}
                     \union {clients[i].era : i \in {j \in DOMAIN clients : clients[j].open}}
<1>1. /\ TablesTyped /\ ThreadsTyped /\ x \in ThRec /\ Shape(t, x) /\ mem \in [Threads -> Opt]
      /\ x.client \in 0 .. Len(clients) /\ x.dict \in 0 .. Len(dicts)
  BY Mover
<1>2. x.pc = "reset" /\ Disturbing(t, y) /\ x.out = "none"
  BY <1>1 DEF Reset, At, Shape
<1>3. /\ pool' = 0 /\ enabled' = enabled /\ up' = up /\ epoch' = epoch /\ mem' = mem /\ mixed' = mixed
      /\ clients' = clients /\ era' = NewPlace(dicts, used) /\ dicts' = Put(dicts, era', Dict)
  BY DEF Reset, CachesCleared, server
<1>4. PICK A : clients \in Seq(ClientRec(A)) /\ dicts \in Seq(DictRec(A))
  BY <1>1 DEF TablesTyped
<1>5. /\ Len(clients) \in Nat /\ Len(dicts) \in Nat /\ DOMAIN clients = 1 .. Len(clients)
      /\ era \in 1 .. Len(dicts) /\ pool \in 0 .. Len(clients) /\ pool \in Nat
      /\ pool # 0 => pool \in 1 .. Len(clients)
  BY <1>1, <1>4, Lengths
<1>6. PoolInv /\ Closing /\ CachesInv
  BY DEF RdmaInv
<1>7. Len(dicts) + 1 \notin used
  <2>1. \A b \in 1 .. Len(dicts) : b # Len(dicts) + 1
    BY SMTT(15), <1>5
  <2>2. \A b \in 0 .. Len(dicts) : b # Len(dicts) + 1
    BY SMTT(15), <1>5
  <2>3. \A u \in Threads : th[u].dict \in 0 .. Len(dicts)
    BY <1>1 DEF ThreadsTyped
  <2>4. \A i \in {j \in DOMAIN clients : clients[j].open} : clients[i].era \in 1 .. Len(dicts)
    BY <1>5, <1>6 DEF PoolInv
  <2> QED
    BY <1>5, <2>1, <2>2, <2>3, <2>4
<1>8. era' \in 1 .. Len(dicts) + 1 /\ era' \notin used
  <2>1. NewPlace(dicts, used) \in 1 .. Len(dicts) + 1 /\ NewPlace(dicts, used) \notin used
    <3> HIDE DEF used
    <3> QED
      BY <1>4, <1>7, NewPlaceFree
  <2> QED
    BY <1>3, <2>1
<1>9. \A c \in 1 .. Len(clients) : clients[c].open => clients[c].era # era'
  BY <1>5, <1>8
<1> HIDE DEF used
<1>10. /\ dicts' \in Seq(DictRec(A)) /\ Len(dicts') \in Nat /\ Len(dicts) <= Len(dicts')
       /\ era' \in 1 .. Len(dicts') /\ dicts'[era'] = Dict
       /\ \A j \in 1 .. Len(dicts') : j # era' => j \in 1 .. Len(dicts) /\ dicts'[j] = dicts[j]
       /\ \A j \in 1 .. Len(dicts) : j \in 1 .. Len(dicts')
  <2>1. Dict \in DictRec(A)
    BY DEF Dict, DictRec
  <2> DEFINE S == DictRec(A)
             i == era'
  <2>2. dicts \in Seq(S) /\ Dict \in S /\ i \in 1 .. Len(dicts) + 1 /\ dicts' = Put(dicts, i, Dict)
    BY <1>3, <1>4, <1>8, <2>1
  <2> HIDE DEF S, i
  <2>3. /\ dicts' \in Seq(S) /\ Len(dicts') \in Nat /\ Len(dicts) <= Len(dicts')
        /\ i \in 1 .. Len(dicts') /\ dicts'[i] = Dict
        /\ \A j \in 1 .. Len(dicts') : j # i => j \in 1 .. Len(dicts) /\ dicts'[j] = dicts[j]
        /\ \A j \in 1 .. Len(dicts) : j \in 1 .. Len(dicts')
    <3>1. Placed(S, dicts, i, Dict, dicts')
      BY <2>2, PutAt
    <3> QED
      BY <3>1 DEF Placed
  <2> QED
    BY <2>3 DEF S, i
<1>11. /\ 0 \in 0 .. Len(clients') /\ x.dict \in 0 .. Len(dicts') /\ Grown
  BY SMTT(15), <1>1, <1>3, <1>5, <1>10 DEF Grown
<1>12. TablesTyped'
  BY <1>3, <1>4, <1>10, <1>11 DEF TablesTyped
<1>13. RestTyped'
  BY <1>3, <1>12 DEF RestTyped, RdmaInv, Typed
<1>14. PoolInv'
  BY <1>3, <1>5, <1>6, <1>9, <1>10 DEF PoolInv
<1>15. CachesInv'
  <2>1. ASSUME mixed = FALSE, NEW c \in 1 .. Len(clients), clients[c].open
        PROVE  CacheOk(dicts'[clients[c].era].ext, dicts'[clients[c].era].put, clients[c].regions)
    <3>1. clients[c].era \in 1 .. Len(dicts) /\ clients[c].era # era'
      BY <1>6, <1>9, <2>1 DEF PoolInv
    <3>2. dicts'[clients[c].era] = dicts[clients[c].era]
      BY <1>10, <3>1
    <3> QED
      BY <1>6, <2>1, <3>2 DEF CachesInv
  <2> QED
    BY <1>3, <1>10, <2>1 DEF CachesInv
<1>16. y \in ThRec
  BY <1>1, <1>5 DEF ThRec, Pcs
<1>17. /\ y.pc = "close" /\ y.path = x.path /\ y.att = x.att /\ y.client = x.client /\ y.dict = x.dict
       /\ y.region = x.region /\ y.old = pool /\ y.clean = x.clean /\ y.hurt = x.hurt /\ y.out = "none"
  BY <1>1, <1>2 DEF ThRec
<1> HIDE DEF y
<1>18. Shape(t, y)
  BY <1>5, <1>17 DEF Shape, UsePcs, EnsurePcs, ZcPcs, InnerPcs
<1>19. Fits(t, y)
  BY ZenonT(40), <1>1, <1>3, <1>11, <1>16, <1>17, <1>18 DEF Fits
<1>20. Turns(t, y) /\ (\A u \in Threads \ {t} : th'[u].clean = TRUE => th[u].pc = "idle") /\ th'[t] = y
  BY <1>1, <1>2, <1>16, DisturbTurns DEF Turns
<1>21. Closing'
  <2>1. \A u \in Threads \ {t} : th'[u].pc = th[u].pc /\ th'[u].old = th[u].old
    BY <1>20 DEF Turns, Follows
  <2>2. pool # 0 => pool \in 1 .. Len(clients) /\ clients[pool].open
    BY <1>5, <1>6 DEF PoolInv
  <2>3. \A u \in Threads \ {t} : th[u].pc = "close" /\ th[u].old # 0 => th[u].old # pool
    BY <1>6 DEF Closing
  <2>4. ASSUME NEW u \in Threads, th'[u].pc = "close", th'[u].old # 0
        PROVE  /\ th'[u].old \in 1 .. Len(clients') /\ clients'[th'[u].old].open /\ th'[u].old # pool'
               /\ \A v \in Threads : v # u /\ th'[v].pc = "close" => th'[v].old # th'[u].old
    <3>1. CASE u = t
      <4>1. th'[u].old = pool
        BY <1>17, <1>20, <3>1
      <4> QED
        BY ZenonT(40), <1>3, <2>1, <2>2, <2>3, <2>4, <3>1, <4>1
    <3>2. CASE u # t
      <4>1. th[u].pc = "close" /\ th[u].old # 0 /\ th'[u].old = th[u].old
        BY <2>1, <2>4, <3>2
      <4>2. /\ th[u].old \in 1 .. Len(clients) /\ clients[th[u].old].open
            /\ \A v \in Threads : v # u /\ th[v].pc = "close" => th[v].old # th[u].old
        BY <1>6, <4>1 DEF Closing
      <4>3. ASSUME NEW v \in Threads, v # u, th'[v].pc = "close" PROVE th'[v].old # th'[u].old
        <5>1. CASE v = t
          <6>1. th'[v].old = pool
            BY <1>17, <1>20, <5>1
          <6> QED
            BY <2>3, <3>2, <4>1, <6>1
        <5>2. CASE v # t
          BY ZenonT(40), <2>1, <4>1, <4>2, <4>3, <5>2
        <5> QED
          BY <5>1, <5>2
      <4> QED
        BY <1>3, <2>4, <4>1, <4>2, <4>3
    <3> QED
      BY <3>1, <3>2
  <2> QED
    BY <2>4 DEF Closing
<1>22. ASSUME mixed' = FALSE, y.clean = TRUE
       PROVE  /\ Own(t, y, pool', clients'[pool'], era', dicts'[era'].ext, mem'[t])
              /\ Heals(t, y, pool', clients'[pool'], enabled', up', epoch')
  <2>1. mixed = FALSE /\ x.clean = TRUE
    BY <1>3, <1>17, <1>22
  <2>2. /\ Own(t, x, pool, clients[pool], era, dicts[era].ext, mem[t])
        /\ Heals(t, x, pool, clients[pool], enabled, up, epoch)
    BY <2>1, WhenClean
  <2>3. (y.path = "zc" => y.region = t) /\ (t \in Storers => mem'[t] = t)
    BY ZenonT(40), <1>2, <1>3, <1>17, <2>2 DEF Own
  <2>4. Own(t, y, pool', clients'[pool'], era', dicts'[era'].ext, mem'[t])
    BY SMTT(40), <1>17, <2>3, OwnReset
  <2>5. Heals(t, y, pool', clients'[pool'], enabled', up', epoch')
    BY <1>2, <1>3, <1>17, <2>2 DEF Heals
  <2> QED
    BY <2>4, <2>5
<1>23. Fine(t)'
  BY <1>20, <1>22, IsFine
<1> QED
  BY ZenonT(40), <1>3, <1>11, <1>13, <1>14, <1>15, <1>19, <1>20, <1>21, <1>23, Combine

LEMMA CloseKeeps ==
    ASSUME RdmaInv, NEW t \in Threads, Close(t)
    PROVE  RdmaInv'
<1> DEFINE x == th[t]
           c == x.old
           r == [x EXCEPT !.old = 0]
           v == [r EXCEPT !.pc = "inner", !.att = 1]
           z == [r EXCEPT !.pc = "ensure", !.att = 1, !.key = r.region, !.region = None]
           y == IF r.path = "inner" THEN v ELSE IF r.region = None THEN ZcFailed(r) ELSE z
           k == [clients[c] EXCEPT !.open = FALSE, !.conn = 0, !.era = 0, !.addr = 0,
                                   !.regions = <<>>, !.inner = None]
<1>1. /\ TablesTyped /\ ThreadsTyped /\ x \in ThRec /\ Shape(t, x) /\ mem \in [Threads -> Opt]
      /\ x.client \in 0 .. Len(clients) /\ x.dict \in 0 .. Len(dicts)
  BY Mover
<1>2. x.pc = "close" /\ Disturbing(t, y) /\ x.out = "none"
  BY <1>1 DEF Close, At, Shape
<1>3. /\ pool' = pool /\ enabled' = enabled /\ up' = up /\ epoch' = epoch /\ mem' = mem /\ mixed' = mixed
      /\ era' = era /\ dicts' = dicts
  BY DEF Close, server, caches
<1>4. PICK A : clients \in Seq(ClientRec(A)) /\ dicts \in Seq(DictRec(A))
  BY <1>1 DEF TablesTyped
<1>5. /\ Len(clients) \in Nat /\ Len(dicts) \in Nat /\ pool # 0 => pool \in 1 .. Len(clients)
  BY <1>1, Lengths
<1>6. PoolInv /\ Closing /\ CachesInv
  BY DEF RdmaInv
<1>7. c # 0 => /\ c \in 1 .. Len(clients) /\ c # pool
               /\ \A u \in Threads : u # t /\ th[u].pc = "close" => th[u].old # c
  BY <1>2, <1>6 DEF Closing
<1>8. /\ TablesTyped' /\ Len(clients') = Len(clients)
      /\ \A b \in 1 .. Len(clients) : b # c => clients'[b] = clients[b]
      /\ c # 0 => clients'[c].open = FALSE /\ clients'[c].era = 0
  <2>1. CASE c = 0
    <3>1. clients' = clients
      BY <2>1 DEF Close
    <3> QED
      BY <1>1, <1>3, <2>1, <3>1 DEF TablesTyped
  <2>2. CASE c # 0
    <3> DEFINE B == A \cup {0}
    <3>1. clients' = [clients EXCEPT ![c] = k]
      BY <2>2 DEF Close, Freed
    <3>2. ClientRec(A) \subseteq ClientRec(B) /\ DictRec(A) \subseteq DictRec(B)
      BY DEF ClientRec, DictRec
    <3>3. clients[c] \in ClientRec(B)
      <4>1. clients[c] \in ClientRec(A)
        BY <1>4, <1>7, <2>2
      <4> QED
        BY <3>2, <4>1
    <3>4. k \in ClientRec(B)
      <4>1. 0 \in B /\ None \in Opt /\ <<>> \in Seq(Buffers) /\ 0 \in Nat
        BY DEF Opt
      <4> HIDE DEF B
      <4> QED
        BY <3>3, <4>1 DEF ClientRec
    <3>5. k.open = FALSE /\ k.era = 0
      BY <3>3 DEF ClientRec
    <3>6. clients \in Seq(ClientRec(B)) /\ dicts \in Seq(DictRec(B))
      <4> DEFINE S1 == ClientRec(A)
                 S2 == ClientRec(B)
                 S3 == DictRec(A)
                 S4 == DictRec(B)
      <4>1. S1 \subseteq S2 /\ S3 \subseteq S4 /\ clients \in Seq(S1) /\ dicts \in Seq(S3)
        BY <1>4, <3>2
      <4> HIDE DEF S1, S2, S3, S4
      <4>2. clients \in Seq(S2) /\ dicts \in Seq(S4)
        BY SMTT(15), <4>1
      <4> QED
        BY <4>2 DEF S2, S4
    <3> HIDE DEF k, B
    <3>7. /\ clients' \in Seq(ClientRec(B)) /\ Len(clients') = Len(clients) /\ clients'[c] = k
          /\ \A b \in 1 .. Len(clients) : b # c => clients'[b] = clients[b]
      BY <1>7, <2>2, <3>1, <3>4, <3>6, OneClient
    <3>8. TablesTyped'
      BY <1>1, <1>3, <3>6, <3>7 DEF TablesTyped
    <3> QED
      BY <3>5, <3>7, <3>8
  <2> QED
    BY <2>1, <2>2
<1>9. \A b \in 1 .. Len(clients) : clients'[b].open => b # c /\ clients'[b] = clients[b]
  <2>1. \A b \in 1 .. Len(clients) : b # 0
    BY SMTT(15), <1>5
  <2> QED
    BY <1>8, <2>1
<1>10. pool # 0 => clients'[pool] = clients[pool]
  <2>1. 0 \notin 1 .. Len(clients)
    BY SMTT(40), <1>5
  <2> QED
    BY SMTT(40), <1>5, <1>7, <1>8, <2>1
<1>11. Grown
  BY SMTT(15), <1>3, <1>5, <1>8 DEF Grown
<1>12. RestTyped'
  BY <1>3, <1>8 DEF RestTyped, RdmaInv, Typed
<1>13. PoolInv'
  <2>1. pool # 0 => clients'[pool].open /\ clients'[pool].era = era
    BY <1>6, <1>10 DEF PoolInv
  <2>2. ASSUME NEW b \in 1 .. Len(clients)
        PROVE  IF clients'[b].open THEN clients'[b].era \in 1 .. Len(dicts) ELSE clients'[b].era = 0
    <3>1. CASE b = c
      <4>1. c # 0
        BY SMTT(15), <1>5, <3>1
      <4> QED
        BY <1>8, <3>1, <4>1
    <3>2. CASE b # c
      BY <1>6, <1>8, <3>2 DEF PoolInv
    <3> QED
      BY <3>1, <3>2
  <2>3. \A b \in 1 .. Len(clients) : clients'[b].open /\ clients'[b].era = era => b = pool
    BY <1>6, <1>9 DEF PoolInv
  <2>4. \A a, b \in 1 .. Len(clients) :
           clients'[a].open /\ clients'[b].open /\ clients'[a].era = clients'[b].era => a = b
    BY ZenonT(40), <1>6, <1>9 DEF PoolInv
  <2> QED
    BY <1>3, <1>8, <2>1, <2>2, <2>3, <2>4 DEF PoolInv
<1>14. CachesInv'
  BY <1>3, <1>6, <1>8, <1>9 DEF CachesInv
<1>15. r \in ThRec
  BY <1>1 DEF ThRec
<1>16. /\ r.path = x.path /\ r.client = x.client /\ r.dict = x.dict
       /\ r.region = x.region /\ r.clean = x.clean /\ r.hurt = x.hurt /\ r.out = "none"
  BY <1>1, <1>2 DEF ThRec
<1>17. r.path \in {"zc", "inner"} /\ r.region \in Opt
  BY <1>15 DEF ThRec
<1> HIDE DEF r
<1>18. v \in ThRec
  BY <1>15 DEF ThRec, Pcs, InnerPcs
<1>19. /\ v.pc = "inner" /\ v.path = x.path /\ v.att = 1 /\ v.client = x.client /\ v.dict = x.dict
       /\ v.clean = x.clean /\ v.hurt = x.hurt /\ v.out = "none"
  BY <1>15, <1>16 DEF ThRec
<1>20. z \in ThRec
  <2>1. "ensure" \in Pcs /\ None \in Opt
    BY DEF Pcs, ZcPcs, Opt
  <2> QED
    BY <1>15, <1>17, <2>1 DEF ThRec
<1>21. /\ z.pc = "ensure" /\ z.path = x.path /\ z.att = 1 /\ z.client = x.client /\ z.dict = x.dict
       /\ z.key = x.region /\ z.clean = x.clean /\ z.hurt = x.hurt /\ z.out = "none"
  BY <1>15, <1>16 DEF ThRec
<1> HIDE DEF v, z
<1>22. ASSUME NEW q, Disturbing(t, q), Fits(t, q), q.pc # "close",
              mixed = FALSE /\ q.clean = TRUE =>
                 /\ Own(t, q, pool, clients'[pool], era, dicts[era].ext, mem[t])
                 /\ Heals(t, q, pool, clients'[pool], enabled, up, epoch)
       PROVE  RdmaInv'
  <2>1. q \in ThRec
    BY <1>22 DEF Fits
  <2>2. Turns(t, q) /\ (\A u \in Threads \ {t} : th'[u].clean = TRUE => th[u].pc = "idle") /\ th'[t] = q
    BY <1>1, <1>22, <2>1, DisturbTurns DEF Turns
  <2>3. Fine(t)'
    BY <1>3, <1>22, <2>2, IsFine
  <2>4. Closing'
    <3>1. ASSUME NEW u \in Threads, th'[u].pc = "close", th'[u].old # 0
          PROVE  /\ th'[u].old \in 1 .. Len(clients') /\ clients'[th'[u].old].open /\ th'[u].old # pool'
                 /\ \A w \in Threads : w # u /\ th'[w].pc = "close" => th'[w].old # th'[u].old
      <4>1. u # t
        BY <1>22, <2>2, <3>1
      <4>2. th[u].pc = "close" /\ th'[u].old = th[u].old /\ th[u].old # 0
        BY ZenonT(40), <2>2, <3>1, <4>1 DEF Turns, Follows
      <4>3. /\ th[u].old \in 1 .. Len(clients) /\ clients[th[u].old].open /\ th[u].old # pool
            /\ \A w \in Threads : w # u /\ th[w].pc = "close" => th[w].old # th[u].old
        BY <1>6, <4>2 DEF Closing
      <4>4. th[u].old # c
        BY <1>7, <4>1, <4>2
      <4>5. clients'[th[u].old] = clients[th[u].old]
        BY <1>8, <4>3, <4>4
      <4>6. ASSUME NEW w \in Threads, w # u, th'[w].pc = "close" PROVE th'[w].old # th'[u].old
        <5>1. w # t
          BY <1>22, <2>2, <4>6
        <5>2. th[w].pc = "close" /\ th'[w].old = th[w].old
          BY <2>2, <4>6, <5>1 DEF Turns, Follows
        <5> QED
          BY <4>2, <4>3, <4>6, <5>2
      <4> QED
        BY ZenonT(40), <1>3, <1>8, <4>2, <4>3, <4>5, <4>6
    <3> QED
      BY <3>1 DEF Closing
  <2> QED
    BY ZenonT(40), <1>3, <1>11, <1>12, <1>13, <1>14, <1>22, <2>2, <2>3, <2>4, Combine
<1>23. ASSUME mixed = FALSE, x.clean = TRUE
       PROVE  /\ x.path = "zc" => x.region = t /\ x.region # None
              /\ t \in Storers => mem[t] = t
              /\ Heals(t, x, pool, clients[pool], enabled, up, epoch)
  <2>1. /\ Own(t, x, pool, clients[pool], era, dicts[era].ext, mem[t])
        /\ Heals(t, x, pool, clients[pool], enabled, up, epoch)
    BY <1>23, WhenClean
  <2>2. t # None
    BY RdmaBackendAssumption
  <2> QED
    BY <1>2, <2>1, <2>2 DEF Own
<1>24. CASE r.path = "inner"
  <2>1. Disturbing(t, v) /\ v.pc # "close"
    BY <1>2, <1>19, <1>24
  <2>2. Shape(t, v)
    BY <1>16, <1>19, <1>24 DEF Shape, UsePcs, EnsurePcs, ZcPcs, InnerPcs
  <2>3. Fits(t, v)
    BY ZenonT(40), <1>1, <1>3, <1>8, <1>18, <1>19, <2>2 DEF Fits
  <2>4. ASSUME mixed = FALSE, v.clean = TRUE
        PROVE  /\ Own(t, v, pool, clients'[pool], era, dicts[era].ext, mem[t])
               /\ Heals(t, v, pool, clients'[pool], enabled, up, epoch)
    <3>1. (t \in Storers => mem[t] = t) /\ Heals(t, x, pool, clients[pool], enabled, up, epoch)
      BY <1>19, <1>23, <2>4
    <3>2. Own(t, v, pool, clients'[pool], era, dicts[era].ext, mem[t])
      BY ZenonT(40), <1>16, <1>19, <1>24, <3>1, OwnInner
    <3>3. x.hurt # FALSE
      BY <1>2, <1>16, <1>24, <3>1 DEF Heals
    <3>4. v.out # "grpc" /\ v.hurt = TRUE
      BY <1>1, <1>19, <3>3 DEF ThRec
    <3> QED
      BY <3>2, <3>4, HealsFalls
  <2> QED
    BY <1>22, <2>1, <2>3, <2>4
<1>25. CASE r.path # "inner" /\ r.region = None
  <2> DEFINE q == ZcFailed(r)
  <2>1. Falls(r, q)
    BY <1>15, ZcFailedFalls
  <2>2. Disturbing(t, q)
    BY <1>2, <1>25
  <2> HIDE DEF q
  <2>3. Over(r, q) /\ q.pc # "close" /\ (q.clean = TRUE => x.clean = TRUE)
    BY <1>16, <2>1 DEF Falls, Over
  <2>4. Fits(t, q)
    BY <1>8, <2>3, OverFits
  <2>5. ~(mixed = FALSE /\ q.clean = TRUE)
    BY ZenonT(40), <1>16, <1>17, <1>23, <1>25, <2>3
  <2> QED
    BY ZenonT(40), <1>22, <2>2, <2>3, <2>4, <2>5
<1>26. CASE r.path # "inner" /\ r.region # None
  <2>1. Disturbing(t, z) /\ z.pc # "close"
    BY <1>2, <1>21, <1>26
  <2>2. x.path = "zc" /\ x.region # None
    BY <1>16, <1>17, <1>26
  <2>3. Shape(t, z)
    BY <1>21, <2>2 DEF Shape, UsePcs, EnsurePcs, ZcPcs, InnerPcs
  <2>4. Fits(t, z)
    BY <1>1, <1>3, <1>8, <1>20, <1>21, <2>3 DEF Fits
  <2>5. ASSUME mixed = FALSE, z.clean = TRUE
        PROVE  /\ Own(t, z, pool, clients'[pool], era, dicts[era].ext, mem[t])
               /\ Heals(t, z, pool, clients'[pool], enabled, up, epoch)
    <3>1. x.region = t /\ (t \in Storers => mem[t] = t) /\ Heals(t, x, pool, clients[pool], enabled, up, epoch)
      BY <1>21, <1>23, <2>2, <2>5
    <3>2. Own(t, z, pool, clients'[pool], era, dicts[era].ext, mem[t])
      BY <1>21, <2>2, <3>1 DEF Own, Registering, Direct, Staged, UsePcs, EnsurePcs
    <3>3. Heals(t, z, pool, clients'[pool], enabled, up, epoch)
      BY ZenonT(40), <1>2, <1>10, <1>21, <2>2, <3>1 DEF Heals
    <3> QED
      BY <3>2, <3>3
  <2> QED
    BY <1>22, <2>1, <2>4, <2>5
<1> QED
  BY <1>24, <1>25, <1>26

-----------------------------------------------------------------------------
(* The steps that ask for the pool. *)

(* A client is created and connected. *)
LEMMA NewPool ==
    ASSUME RdmaInv, pool = 0,
           pool' = NewPlace(clients, {i \in DOMAIN clients : clients[i].open} \union {th[u].client : u \in Threads}),
           clients' = Put(clients, pool', Connected(NewClient(FreeAddr))),
           dicts' = dicts, era' = era, mixed' = mixed
    PROVE  /\ TablesTyped' /\ Grown /\ PoolInv' /\ CachesInv' /\ pool' \in 1 .. Len(clients') /\ pool' # 0 /\ pool' \in Nat
           /\ clients'[pool'].conn = epoch /\ pool' \in 0 .. Len(clients')
           /\ \A c \in 1 .. Len(clients) : clients[c].open => clients'[c].open /\ c # pool'
<1> DEFINE used == {i \in DOMAIN clients : clients[i].open} \union {th[u].client : u \in Threads}
           k == Connected(NewClient(FreeAddr))
           n == pool'
<1>1. TablesTyped /\ ThreadsTyped /\ PoolInv /\ CachesInv /\ epoch \in Nat
  BY DEF RdmaInv, Typed
<1>2. PICK A : clients \in Seq(ClientRec(A)) /\ dicts \in Seq(DictRec(A))
  BY <1>1 DEF TablesTyped
<1>3. /\ Len(clients) \in Nat /\ Len(dicts) \in Nat /\ DOMAIN clients = 1 .. Len(clients)
      /\ era \in 1 .. Len(dicts) /\ era \in Nat
  BY <1>1, <1>2, Lengths
<1>4. Len(clients) + 1 \notin used
  <2>1. \A b \in 1 .. Len(clients) : b # Len(clients) + 1
    BY SMTT(15), <1>3
  <2>2. \A b \in 0 .. Len(clients) : b # Len(clients) + 1
    BY SMTT(15), <1>3
  <2>3. \A u \in Threads : th[u].client \in 0 .. Len(clients)
    BY <1>1 DEF ThreadsTyped
  <2> QED
    BY <1>3, <2>1, <2>2, <2>3
<1>5. n \in 1 .. Len(clients) + 1 /\ n \notin used
  <2>1. NewPlace(clients, used) \in 1 .. Len(clients) + 1 /\ NewPlace(clients, used) \notin used
    <3> HIDE DEF used
    <3> QED
      BY <1>2, <1>4, NewPlaceFree
  <2> QED
    BY <2>1
<1>6. \A c \in 1 .. Len(clients) : clients[c].open => c # n
  BY <1>3, <1>5
<1> HIDE DEF used
<1> DEFINE B == A \cup {FreeAddr}
<1>7. /\ k \in ClientRec(B) /\ k.open = TRUE /\ k.conn = epoch /\ k.era = era /\ k.regions = <<>>
  <2>1. FreeAddr \in B /\ None \in Opt /\ <<>> \in Seq(Buffers)
    BY DEF Opt
  <2> DEFINE j == NewClient(FreeAddr)
  <2> HIDE DEF B
  <2>2. j \in ClientRec(B)
    BY <1>3, <2>1 DEF NewClient, ClientRec
  <2>3. j.open = TRUE /\ j.era = era /\ j.regions = <<>>
    BY DEF NewClient
  <2>4. k = [j EXCEPT !.conn = epoch]
    BY DEF Connected
  <2> HIDE DEF j, k
  <2>5. k \in ClientRec(B)
    BY <1>1, <2>2, <2>4 DEF ClientRec
  <2>6. k.open = TRUE /\ k.conn = epoch /\ k.era = era /\ k.regions = <<>>
    BY <2>2, <2>3, <2>4 DEF ClientRec
  <2> QED
    BY <2>5, <2>6
<1>8. clients \in Seq(ClientRec(B)) /\ dicts \in Seq(DictRec(B))
  <2> DEFINE S1 == ClientRec(A)
             S2 == ClientRec(B)
             S3 == DictRec(A)
             S4 == DictRec(B)
  <2>1. S1 \subseteq S2 /\ S3 \subseteq S4 /\ clients \in Seq(S1) /\ dicts \in Seq(S3)
    BY <1>2 DEF ClientRec, DictRec
  <2> HIDE DEF S1, S2, S3, S4
  <2>2. clients \in Seq(S2) /\ dicts \in Seq(S4)
    BY SMTT(15), <2>1
  <2> QED
    BY <2>2 DEF S2, S4
<1>9. clients' = Put(clients, n, k)
  OBVIOUS
<1> HIDE DEF n, k, B
<1>10. /\ clients' \in Seq(ClientRec(B)) /\ Len(clients') \in Nat /\ Len(clients) <= Len(clients')
       /\ n \in 1 .. Len(clients') /\ clients'[n] = k
       /\ \A j \in 1 .. Len(clients') : j # n => j \in 1 .. Len(clients) /\ clients'[j] = clients[j]
       /\ \A j \in 1 .. Len(clients) : j \in 1 .. Len(clients')
  <2> DEFINE S == ClientRec(B)
  <2>1. clients \in Seq(S) /\ k \in S /\ n \in 1 .. Len(clients) + 1 /\ clients' = Put(clients, n, k)
    BY <1>5, <1>7, <1>8, <1>9
  <2> HIDE DEF S
  <2>2. /\ clients' \in Seq(S) /\ Len(clients') \in Nat /\ Len(clients) <= Len(clients')
        /\ n \in 1 .. Len(clients') /\ clients'[n] = k
        /\ \A j \in 1 .. Len(clients') : j # n => j \in 1 .. Len(clients) /\ clients'[j] = clients[j]
        /\ \A j \in 1 .. Len(clients) : j \in 1 .. Len(clients')
    <3>1. Placed(S, clients, n, k, clients')
      BY <2>1, PutAt
    <3> QED
      BY <3>1 DEF Placed
  <2> QED
    BY <2>2 DEF S
<1>11. n # 0 /\ n \in Nat /\ n \in 0 .. Len(clients') /\ 0 \notin 1 .. Len(clients)
  BY SMTT(15), <1>3, <1>10
<1>12. pool' = n
  BY DEF n
<1>13. TablesTyped'
  BY ZenonT(40), <1>1, <1>8, <1>10, <1>11, <1>12 DEF TablesTyped
<1>14. Grown
  BY SMTT(15), <1>3, <1>10 DEF Grown
<1>15. PoolInv'
  <2>1. \A b \in 1 .. Len(clients) : clients[b].open => clients[b].era # era
    BY <1>1, <1>11 DEF PoolInv
  <2>2. ASSUME NEW b \in 1 .. Len(clients')
        PROVE  IF clients'[b].open THEN clients'[b].era \in 1 .. Len(dicts) ELSE clients'[b].era = 0
    <3>1. CASE b = n
      BY ZenonT(40), <1>3, <1>7, <1>10, <3>1
    <3>2. CASE b # n
      BY SMTT(40), <1>1, <1>10, <3>2 DEF PoolInv
    <3> QED
      BY <3>1, <3>2
  <2>3. ASSUME NEW b \in 1 .. Len(clients'), clients'[b].open, clients'[b].era = era PROVE b = n
    BY <1>10, <2>1, <2>3
  <2>4. ASSUME NEW a \in 1 .. Len(clients'), NEW b \in 1 .. Len(clients'), clients'[a].open, clients'[b].open,
               clients'[a].era = clients'[b].era
        PROVE  a = b
    <3>1. CASE a = n \/ b = n
      BY <1>7, <1>10, <2>3, <2>4, <3>1
    <3>2. CASE a # n /\ b # n
      BY ZenonT(40), <1>1, <1>10, <2>4, <3>2 DEF PoolInv
    <3> QED
      BY <3>1, <3>2
  <2> QED
    BY <1>7, <1>10, <1>12, <2>2, <2>3, <2>4 DEF PoolInv
<1>16. CachesInv'
  <2>1. ASSUME mixed = FALSE, NEW b \in 1 .. Len(clients'), clients'[b].open
        PROVE  CacheOk(dicts[clients'[b].era].ext, dicts[clients'[b].era].put, clients'[b].regions)
    <3>1. CASE b = n
      <4>1. dicts[era] = Dict /\ clients'[b].era = era
        BY <1>1, <1>7, <1>10, <2>1, <3>1 DEF CachesInv
      <4>2. Dict.ext = <<>> /\ Dict.put = {}
        BY DEF Dict
      <4>3. \A i \in 1 .. Len(<<>>) : FALSE
        BY SMTT(15)
      <4>4. CacheOk(<<>>, {}, clients'[b].regions)
        BY <4>3 DEF CacheOk, Keyed
      <4> QED
        BY <4>1, <4>2, <4>4
    <3>2. CASE b # n
      BY <1>1, <1>10, <2>1, <3>2 DEF CachesInv
    <3> QED
      BY <3>1, <3>2
  <2> QED
    BY <1>11, <1>12, <2>1 DEF CachesInv
<1>17. \A c \in 1 .. Len(clients) : clients[c].open => clients'[c].open /\ c # n
  BY <1>6, <1>10
<1> QED
  BY ZenonT(40), <1>7, <1>10, <1>11, <1>12, <1>13, <1>14, <1>15, <1>16, <1>17

(* What a step that found the client goes on with, and what one that got     *)
(* none.                                                                     *)
FoundTyped(t, f) ==
    /\ f \in ThRec /\ f.pc \in {"cached", "find", "call", "stage"} /\ f.out = "none" /\ f.dict \in 0 .. Len(dicts)
    /\ f.pc = "cached" => f.key # None /\ f.path = "zc"
    /\ f.pc = "find" => f.path = "zc" /\ f.att = 0
    /\ f.pc = "stage" => f.path = "inner" /\ t \in Storers
FoundOwn(t, f, m) ==
    mixed = FALSE /\ f.clean = TRUE =>
        /\ f.pc = "cached" => f.key = t
        /\ Direct(f) => \E i \in 1 .. Len(dicts[era].ext) : dicts[era].ext[i] = <<t, f.rid>>
        /\ f.pc = "call" => IF f.path = "zc" THEN f.att = 1 ELSE t \notin Storers
        /\ t \in Storers => m = t
FoundHeals(t, f) ==
    mixed = FALSE /\ f.clean = TRUE /\ f.hurt = FALSE =>
        /\ enabled = TRUE /\ up = TRUE
        /\ f.path = "inner" => t \in Loaders /\ f.att = 0
        /\ f.path = "inner" \/ f.att = 1 => pool = 0 \/ clients[pool].conn = epoch
Absent(t, x, a, m) ==
    /\ Falls(x, a) /\ a.pc # "reset" /\ x \in ThRec
    /\ mixed = FALSE /\ a.clean = TRUE => (pool = 0 => a.out # "grpc") /\ (t \in Storers => m = t)

Handed(t, f, n, y) ==
    /\ y \in ThRec /\ Shape(t, y) /\ y.pc = f.pc /\ y.path = f.path /\ y.att = f.att /\ y.client = n
    /\ y.dict = f.dict /\ y.key = f.key /\ y.rid = f.rid /\ y.clean = f.clean /\ y.hurt = f.hurt /\ y.out = "none"
    /\ y.pc \in {"cached", "find", "call", "stage"}

LEMMA FoundRec ==
    ASSUME NEW t, NEW f, FoundTyped(t, f), NEW n \in Nat, n # 0, NEW y, y = [f EXCEPT !.client = n]
    PROVE  Handed(t, f, n, y)
<1>1. f \in ThRec /\ f.out = "none"
  BY DEF FoundTyped
<1>2. y \in ThRec
  BY <1>1 DEF ThRec
<1>3. /\ y.pc = f.pc /\ y.path = f.path /\ y.att = f.att /\ y.client = n
      /\ y.dict = f.dict /\ y.key = f.key /\ y.rid = f.rid /\ y.clean = f.clean /\ y.hurt = f.hurt /\ y.out = "none"
  BY <1>1 DEF ThRec
<1>4. y.pc \in {"cached", "find", "call", "stage"}
  BY <1>3 DEF FoundTyped
<1>5. Shape(t, y)
  BY <1>3, <1>4 DEF FoundTyped, Shape, UsePcs, EnsurePcs, ZcPcs, InnerPcs
<1> QED
  BY <1>2, <1>3, <1>4, <1>5 DEF Handed

LEMMA FoundFine ==
    ASSUME NEW t \in Threads, NEW f, FoundTyped(t, f), FoundOwn(t, f, mem'[t]), FoundHeals(t, f),
           pool' \in Nat, pool' # 0, th'[t] = [f EXCEPT !.client = pool'],
           pool # 0 => pool' = pool /\ clients'[pool'].conn = clients[pool].conn,
           pool = 0 => clients'[pool'].conn = epoch,
           dicts' = dicts, era' = era, mixed' = mixed, enabled' = enabled, up' = up, epoch' = epoch
    PROVE  Fine(t)'
<1> DEFINE n == pool'
           k == clients'[pool']
           y == th'[t]
<1>1. n \in Nat /\ n # 0 /\ y = [f EXCEPT !.client = n]
  OBVIOUS
<1>2. /\ pool # 0 => n = pool /\ k.conn = clients[pool].conn
      /\ pool = 0 => k.conn = epoch
  OBVIOUS
<1> HIDE DEF n, k, y
<1>0. Handed(t, f, n, y)
  BY <1>1, FoundRec
<1>3. /\ y.pc = f.pc /\ y.path = f.path /\ y.att = f.att /\ y.client = n
      /\ y.key = f.key /\ y.rid = f.rid /\ y.clean = f.clean /\ y.hurt = f.hurt /\ y.out = "none"
      /\ y.pc \in {"cached", "find", "call", "stage"}
  BY <1>0 DEF Handed
<1>4. y.path \in {"zc", "inner"}
  BY <1>3 DEF FoundTyped, ThRec
<1>5. ASSUME mixed = FALSE, y.clean = TRUE
      PROVE  Own(t, y, n, k, era, dicts[era].ext, mem'[t]) /\ Heals(t, y, n, k, enabled, up, epoch)
  <2>1. /\ f.pc = "cached" => f.key = t
        /\ Direct(f) => \E i \in 1 .. Len(dicts[era].ext) : dicts[era].ext[i] = <<t, f.rid>>
        /\ f.pc = "call" => IF f.path = "zc" THEN f.att = 1 ELSE t \notin Storers
        /\ t \in Storers => mem'[t] = t
    BY <1>3, <1>5 DEF FoundOwn
  <2>2. Direct(y) => \E i \in 1 .. Len(dicts[era].ext) : dicts[era].ext[i] = <<t, y.rid>>
    BY <1>3, <2>1 DEF Direct
  <2>3. ~Staged(t, y)
    BY <1>3, <2>1 DEF Staged
  <2>4. Registering(t, y, era)
    BY <1>3, <2>1 DEF Registering, EnsurePcs
  <2>5. Own(t, y, n, k, era, dicts[era].ext, mem'[t])
    BY SMTT(40), <1>1, <1>3, <2>1, <2>2, <2>3, <2>4 DEF Own
  <2>6. y.hurt = FALSE =>
            /\ enabled = TRUE /\ up = TRUE
            /\ y.path = "inner" => t \in Loaders /\ y.att = 0
            /\ y.path = "inner" \/ y.att = 1 => pool = 0 \/ clients[pool].conn = epoch
    BY <1>3, <1>5 DEF FoundHeals
  <2>7. Heals(t, y, n, k, enabled, up, epoch)
    BY <1>1, <1>2, <1>3, <2>6 DEF Heals
  <2> QED
    BY <2>5, <2>7
<1> QED
  BY <1>5 DEF Fine, n, k, y

LEMMA AbsentFine ==
    ASSUME NEW t \in Threads, NEW x, NEW a, Absent(t, x, a, mem'[t]), pool = 0, mixed' = mixed,
           th'[t] = [a EXCEPT !.hurt = TRUE]
    PROVE  Fine(t)' /\ th'[t] \in ThRec /\ Over(x, th'[t]) /\ th'[t].pc # "close"
<1> DEFINE z == th'[t]
<1>1. z = [a EXCEPT !.hurt = TRUE]
  OBVIOUS
<1> HIDE DEF z
<1>2. x \in ThRec /\ Falls(x, a) /\ a.pc # "reset"
  BY DEF Absent
<1>3. Marked(x, a, TRUE, z)
  BY <1>1, <1>2, HurtFalls
<1>4. Falls(x, z) /\ z.hurt = TRUE /\ z.pc # "reset" /\ z.out = a.out /\ z.clean = a.clean
  BY <1>2, <1>3 DEF Marked
<1>5. Over(x, z) /\ z.pc \in {"idle", "inner"} /\ z \in ThRec
  BY <1>4 DEF Falls, Over
<1>6. ASSUME mixed = FALSE, z.clean = TRUE
      PROVE  /\ Own(t, z, pool', clients'[pool'], era', dicts'[era'].ext, mem'[t])
             /\ Heals(t, z, pool', clients'[pool'], enabled', up', epoch')
  <2>1. z.out # "grpc" /\ (t \in Storers => mem'[t] = t)
    BY <1>4, <1>6 DEF Absent
  <2>2. CASE z.pc = "idle"
    <3>1. z.out # "ok"
      BY <1>4, <2>2 DEF Falls
    <3> QED
      BY <1>4, <2>1, <2>2, <3>1, OwnIdle, HealsFalls
  <2>3. CASE z.pc = "inner"
    <3>1. z.path = "inner" /\ z.out = "none"
      BY <1>4, <2>3 DEF Falls
    <3> QED
      BY <1>4, <2>1, <2>3, <3>1, OwnInner, HealsFalls
  <2> QED
    BY <1>5, <2>2, <2>3
<1> QED
  BY <1>5, <1>6 DEF Fine, z

LEMMA WithPoolKeeps ==
    ASSUME RdmaInv, NEW t \in Threads, NEW f, NEW x, NEW a, WithPool(t, f, a),
           FoundTyped(t, f), FoundOwn(t, f, mem'[t]), FoundHeals(t, f), Absent(t, x, a, mem'[t]),
           dicts' = dicts, era' = era, mixed' = mixed, up' = up, epoch' = epoch,
           mem' \in [Threads -> Opt], \A u \in Threads \ {t} : mem'[u] = mem[u]
    PROVE  RdmaInv'
<1>1. TablesTyped /\ ThreadsTyped /\ PoolInv /\ Closing /\ CachesInv
  BY DEF RdmaInv, Typed
<1>2. th \in [Threads -> ThRec]
  BY <1>1 DEF ThreadsTyped
<1>3. /\ Len(clients) \in Nat /\ Len(dicts) \in Nat /\ pool \in Nat /\ pool \in 0 .. Len(clients)
  BY <1>1, Lengths
<1>4. f \in ThRec /\ f.dict \in 0 .. Len(dicts)
  BY DEF FoundTyped
<1>5. CASE pool # 0 /\ Set(t, [f EXCEPT !.client = pool]) /\ UNCHANGED <<enabled, pool, clients, faults>>
  <2> DEFINE y == [f EXCEPT !.client = pool]
  <2>1. /\ y \in ThRec /\ Shape(t, y) /\ y.client = pool /\ y.dict = f.dict /\ y.pc \in {"cached", "find", "call", "stage"}
    <3>1. pool \in Nat /\ pool # 0 /\ y = [f EXCEPT !.client = pool]
      BY <1>3, <1>5
    <3> HIDE DEF y
    <3>2. Handed(t, f, pool, y)
      BY <3>1, FoundRec
    <3> QED
      BY <3>2 DEF Handed
  <2>2. Set(t, y)
    BY <1>5
  <2>3. SameRest /\ clients' = clients
    BY <1>5 DEF SameRest
  <2>4. TablesTyped' /\ SameClients
    BY <1>1, <2>3, UnchangedTables
  <2> HIDE DEF y
  <2>5. Turns(t, y) /\ th'[t] = y
    BY <1>1, <2>1, <2>2, SetTurns DEF Turns
  <2>6. Fits(t, y)
    BY <1>3, <1>4, <2>1, <2>3 DEF Fits
  <2>7. th'[t] = [f EXCEPT !.client = pool']
    BY <1>5, <2>5 DEF y
  <2>8. Fine(t)'
    BY <1>3, <1>5, <2>7, FoundFine
  <2>9. y.pc # "close"
    BY <2>1
  <2> QED
    BY ZenonT(40), <2>3, <2>4, <2>5, <2>6, <2>8, <2>9, QuietStep
<1>6. CASE /\ pool = 0
           /\ pool' = NewPlace(clients, {i \in DOMAIN clients : clients[i].open} \union {th[u].client : u \in Threads})
           /\ clients' = Put(clients, pool', Connected(NewClient(FreeAddr)))
           /\ Set(t, [f EXCEPT !.client = pool']) /\ enabled' = enabled
  <2>1. /\ TablesTyped' /\ Grown /\ PoolInv' /\ CachesInv' /\ pool' # 0 /\ pool' \in Nat
        /\ clients'[pool'].conn = epoch /\ pool' \in 0 .. Len(clients')
        /\ \A c \in 1 .. Len(clients) : clients[c].open => clients'[c].open /\ c # pool'
    BY <1>6, NewPool
  <2> DEFINE n == pool'
             y == [f EXCEPT !.client = pool']
  <2>2. /\ y \in ThRec /\ Shape(t, y) /\ y.client = pool' /\ y.dict = f.dict /\ y.pc \in {"cached", "find", "call", "stage"}
    <3>1. n \in Nat /\ n # 0 /\ y = [f EXCEPT !.client = n]
      BY <2>1
    <3> HIDE DEF n, y
    <3>2. Handed(t, f, n, y)
      BY <3>1, FoundRec
    <3> QED
      BY <3>2 DEF Handed, n
  <2>3. Set(t, y)
    BY <1>6
  <2> HIDE DEF y
  <2>4. Turns(t, y) /\ th'[t] = y
    BY <1>1, <2>2, <2>3, SetTurns DEF Turns
  <2>5. th'[t] = [f EXCEPT !.client = pool']
    BY <2>4 DEF y
  <2>6. Fits(t, y)
    BY <1>4, <2>1, <2>2 DEF Fits
  <2>7. Fine(t)'
    BY <1>6, <2>1, <2>5, FoundFine
  <2>8. y.pc # "close"
    BY <2>2
  <2>9. Closing'
    BY ZenonT(40), <1>1, <2>1, <2>4, <2>8, ClosingKept
  <2>10. RestTyped'
    BY <1>6, <2>1 DEF RestTyped, RdmaInv, Typed
  <2>11. Calm
    BY <1>6, <2>1 DEF Calm
  <2>12. \A u \in Threads \ {t} : Spared(u)
    BY <1>6, <2>11 DEF Spared
  <2> QED
    BY ZenonT(40), <2>1, <2>4, <2>6, <2>7, <2>9, <2>10, <2>12, Combine
<1>7. CASE /\ pool = 0 /\ enabled' = (enabled /\ ~Fallback)
           /\ th' = [Hurt EXCEPT ![t] = [a EXCEPT !.hurt = TRUE]]
           /\ pool' = pool /\ clients' = clients
  <2> DEFINE z == [a EXCEPT !.hurt = TRUE]
  <2>1. th'[t] = z
    BY <1>7 DEF Hurt
  <2>2. Fine(t)' /\ th'[t] \in ThRec /\ Over(x, th'[t]) /\ th'[t].pc # "close"
    BY <1>7, <2>1, AbsentFine
  <2>3. z \in ThRec /\ Over(x, z) /\ z.pc # "close" /\ th' = [Hurt EXCEPT ![t] = z]
    BY <1>7, <2>1, <2>2
  <2> HIDE DEF z
  <2>4. Turns(t, z) /\ \A u \in Threads \ {t} : th[u].pc # "idle" => th'[u].hurt = TRUE
    BY <1>1, <2>3, HurtTurns
  <2>5. TablesTyped'
    BY <1>1, <1>7 DEF TablesTyped
  <2>6. Fits(t, z)
    BY <2>3, <2>5, OverFits
  <2>7. Grown
    BY SMTT(15), <1>3, <1>7 DEF Grown
  <2>8. enabled' \in BOOLEAN
    BY <1>7
  <2>9. RestTyped'
    BY <2>5, <2>8 DEF RestTyped, RdmaInv, Typed
  <2>10. PoolInv' /\ CachesInv'
    BY <1>1, <1>7 DEF PoolInv, CachesInv
  <2>11. Closing'
    BY ZenonT(40), <1>1, <1>7, <2>3, <2>4, <2>5, <2>7, ClosingKept
  <2>12. Calm
    BY <1>7 DEF Calm
  <2>13. \A u \in Threads \ {t} : Spared(u)
    BY <2>4, <2>12 DEF Spared
  <2> QED
    BY ZenonT(40), <2>2, <2>4, <2>6, <2>7, <2>9, <2>10, <2>11, <2>13, Combine
<1> QED
  BY <1>5, <1>6, <1>7 DEF WithPool

(* The steps that ask for the client. *)
Onward(x, p, f) ==
    /\ f \in ThRec /\ f.pc = p /\ f.path = x.path /\ f.att = x.att /\ f.client = x.client /\ f.dict = x.dict
    /\ f.key = x.key /\ f.rid = x.rid /\ f.region = x.region /\ f.clean = x.clean /\ f.hurt = x.hurt /\ f.out = x.out

LEMMA OnwardRec ==
    ASSUME NEW x \in ThRec, NEW p \in {"cached", "find", "call", "stage"}, NEW f, f = [x EXCEPT !.pc = p]
    PROVE  Onward(x, p, f)
<1>1. p \in Pcs
  BY DEF Pcs, ZcPcs, InnerPcs, EnsurePcs
<1>2. f \in ThRec
  BY <1>1 DEF ThRec
<1>3. /\ f.pc = p /\ f.path = x.path /\ f.att = x.att /\ f.client = x.client /\ f.dict = x.dict
      /\ f.key = x.key /\ f.rid = x.rid /\ f.region = x.region /\ f.clean = x.clean /\ f.hurt = x.hurt /\ f.out = x.out
  BY DEF ThRec
<1> QED
  BY <1>2, <1>3 DEF Onward

LEMMA PoolStep ==
    ASSUME RdmaInv, NEW t \in Threads, th[t].pc # "idle", NEW p \in {"cached", "find", "call", "stage"},
           NEW f, f = [th[t] EXCEPT !.pc = p], NEW a, WithPool(t, f, a),
           FoundTyped(t, f), FoundOwn(t, f, mem[t]), Falls(th[t], a), a.pc # "reset",
           mixed = FALSE /\ a.clean = TRUE /\ pool = 0 => a.out # "grpc",
           dicts' = dicts, era' = era, mixed' = mixed, up' = up, epoch' = epoch, mem' = mem
    PROVE  RdmaInv'
<1> DEFINE x == th[t]
<1>1. x \in ThRec /\ mem \in [Threads -> Opt]
  BY Mover
<1>2. Onward(x, p, f)
  BY <1>1, OnwardRec
<1>3. ASSUME mixed = FALSE, x.clean = TRUE
      PROVE  /\ t \in Storers => mem[t] = t
             /\ x.hurt = FALSE => /\ enabled = TRUE /\ up = TRUE
                                  /\ x.path = "inner" => t \in Loaders /\ x.att = 0
                                  /\ x.path = "inner" \/ x.att = 1 => pool = 0 \/ clients[pool].conn = epoch
  <2>1. /\ Own(t, x, pool, clients[pool], era, dicts[era].ext, mem[t])
        /\ Heals(t, x, pool, clients[pool], enabled, up, epoch)
    BY <1>3, WhenClean
  <2>2. t \in Storers => mem[t] = t
    BY <2>1 DEF Own
  <2> QED
    BY <2>1, <2>2 DEF Heals
<1>4. FoundHeals(t, f)
  BY <1>2, <1>3 DEF FoundHeals, Onward
<1>5. a.clean = TRUE => x.clean = TRUE
  BY DEF Falls, Over
<1>6. Absent(t, x, a, mem[t])
  BY <1>1, <1>3, <1>5 DEF Absent
<1>7. FoundOwn(t, f, mem'[t]) /\ Absent(t, x, a, mem'[t])
  BY <1>6
<1>8. mem' \in [Threads -> Opt] /\ \A u \in Threads \ {t} : mem'[u] = mem[u]
  BY <1>1
<1> HIDE DEF x
<1> QED
  BY <1>4, <1>7, <1>8, WithPoolKeeps

LEMMA EnsurePoolKeeps ==
    ASSUME RdmaInv, NEW t \in Threads, EnsurePool(t)
    PROVE  RdmaInv'
<1> DEFINE x == th[t]
           f == [th[t] EXCEPT !.pc = "cached"]
           a == ZcFailed(th[t])
<1>1. x \in ThRec /\ Shape(t, x) /\ x.dict \in 0 .. Len(dicts)
  BY Mover
<1>2. x.pc = "ensure" /\ WithPool(t, f, a)
  BY DEF EnsurePool, At
<1>3. dicts' = dicts /\ era' = era /\ mixed' = mixed /\ up' = up /\ epoch' = epoch /\ mem' = mem
  BY DEF EnsurePool, caches, server
<1>4. x.path = "zc" /\ x.key # None /\ x.out = "none"
  BY <1>1, <1>2 DEF Shape, ZcPcs
<1>5. Falls(x, a) /\ a.out # "grpc" /\ a.pc # "reset"
  BY <1>1, ZcFailedFalls
<1>6. Onward(x, "cached", f)
  BY <1>1, OnwardRec
<1>7. f = [th[t] EXCEPT !.pc = "cached"]
  OBVIOUS
<1> HIDE DEF f, a
<1>8. FoundTyped(t, f)
  BY <1>1, <1>4, <1>6 DEF FoundTyped, Onward
<1>9. FoundOwn(t, f, mem[t])
  <2>1. SUFFICES ASSUME mixed = FALSE, f.clean = TRUE
                 PROVE  f.key = t /\ (t \in Storers => mem[t] = t)
    BY <1>6 DEF FoundOwn, Direct, Onward
  <2>2. Own(t, x, pool, clients[pool], era, dicts[era].ext, mem[t])
    BY <1>6, <2>1, WhenClean DEF Onward
  <2>3. x.key = t /\ (t \in Storers => mem[t] = t)
    BY <1>2, <2>2 DEF Own, Registering
  <2> QED
    BY <1>6, <2>3 DEF Onward
<1> QED
  BY ZenonT(40), <1>2, <1>3, <1>5, <1>7, <1>8, <1>9, PoolStep

LEMMA ZcAgainKeeps ==
    ASSUME RdmaInv, NEW t \in Threads, ZcAgain(t)
    PROVE  RdmaInv'
<1> DEFINE x == th[t]
           f == [th[t] EXCEPT !.pc = "call"]
           a == ZcFailed(th[t])
<1>1. x \in ThRec /\ Shape(t, x) /\ x.dict \in 0 .. Len(dicts)
  BY Mover
<1>2. x.pc = "again" /\ WithPool(t, f, a)
  BY DEF ZcAgain, At
<1>3. dicts' = dicts /\ era' = era /\ mixed' = mixed /\ up' = up /\ epoch' = epoch /\ mem' = mem
  BY DEF ZcAgain, caches, server
<1>4. x.path = "zc" /\ x.att = 1 /\ x.out = "none"
  BY <1>1, <1>2 DEF Shape, ZcPcs
<1>5. Falls(x, a) /\ a.out # "grpc" /\ a.pc # "reset"
  BY <1>1, ZcFailedFalls
<1>6. Onward(x, "call", f)
  BY <1>1, OnwardRec
<1>7. f = [th[t] EXCEPT !.pc = "call"]
  OBVIOUS
<1> HIDE DEF f, a
<1>8. FoundTyped(t, f)
  BY <1>1, <1>4, <1>6 DEF FoundTyped, Onward
<1>9. FoundOwn(t, f, mem[t])
  <2>1. SUFFICES ASSUME mixed = FALSE, f.clean = TRUE
                 PROVE  /\ \E i \in 1 .. Len(dicts[era].ext) : dicts[era].ext[i] = <<t, f.rid>>
                        /\ t \in Storers => mem[t] = t
    BY <1>4, <1>6 DEF FoundOwn, Onward
  <2>2. Own(t, x, pool, clients[pool], era, dicts[era].ext, mem[t])
    BY <1>6, <2>1, WhenClean DEF Onward
  <2>3. /\ \E i \in 1 .. Len(dicts[era].ext) : dicts[era].ext[i] = <<t, x.rid>>
        /\ t \in Storers => mem[t] = t
    BY <1>2, <2>2 DEF Own, Direct
  <2> QED
    BY <1>6, <2>3 DEF Onward
<1> QED
  BY ZenonT(40), <1>2, <1>3, <1>5, <1>7, <1>8, <1>9, PoolStep

LEMMA ZcBeginKeeps ==
    ASSUME RdmaInv, NEW t \in Threads, ZcBegin(t)
    PROVE  RdmaInv'
<1> DEFINE x == th[t]
           f == [th[t] EXCEPT !.pc = "find"]
           a == ZcFailed(th[t])
<1>1. x \in ThRec /\ Shape(t, x) /\ x.dict \in 0 .. Len(dicts) /\ TablesTyped
  BY Mover
<1>2. /\ x.pc = "begin"
      /\ \/ enabled /\ WithPool(t, f, a)
         \/ ~enabled /\ Set(t, a) /\ UNCHANGED <<enabled, pool, clients, faults>>
  BY DEF ZcBegin, At
<1>3. dicts' = dicts /\ era' = era /\ mixed' = mixed /\ up' = up /\ epoch' = epoch /\ mem' = mem
  BY DEF ZcBegin, caches, server
<1>4. x.path = "zc" /\ x.att = 0 /\ x.out = "none"
  BY <1>1, <1>2 DEF Shape, ZcPcs
<1>5. Falls(x, a) /\ a.out # "grpc" /\ a.pc # "reset"
  BY <1>1, ZcFailedFalls
<1>6. Onward(x, "find", f)
  BY <1>1, OnwardRec
<1>7. f = [th[t] EXCEPT !.pc = "find"]
  OBVIOUS
<1> HIDE DEF f, a
<1>8. FoundTyped(t, f)
  BY <1>1, <1>4, <1>6 DEF FoundTyped, Onward
<1>9. FoundOwn(t, f, mem[t])
  <2>1. SUFFICES ASSUME mixed = FALSE, f.clean = TRUE
                 PROVE  /\ \E i \in 1 .. Len(dicts[era].ext) : dicts[era].ext[i] = <<t, f.rid>>
                        /\ t \in Storers => mem[t] = t
    BY <1>6 DEF FoundOwn, Onward
  <2>2. Own(t, x, pool, clients[pool], era, dicts[era].ext, mem[t])
    BY <1>6, <2>1, WhenClean DEF Onward
  <2>3. /\ \E i \in 1 .. Len(dicts[era].ext) : dicts[era].ext[i] = <<t, x.rid>>
        /\ t \in Storers => mem[t] = t
    BY <1>2, <2>2 DEF Own, Direct
  <2> QED
    BY <1>6, <2>3 DEF Onward
<1>10. CASE enabled /\ WithPool(t, f, a)
  BY ZenonT(40), <1>2, <1>3, <1>5, <1>7, <1>8, <1>9, <1>10, PoolStep
<1>11. CASE ~enabled /\ Set(t, a) /\ UNCHANGED <<enabled, pool, clients, faults>>
  <2>1. SameRest /\ clients' = clients
    BY <1>3, <1>11 DEF SameRest
  <2>2. TablesTyped' /\ SameClients
    BY <1>1, <2>1, UnchangedTables
  <2>3. ASSUME mixed = FALSE, x.clean = TRUE
        PROVE  Heals(t, a, pool, clients'[pool], enabled, up, epoch)
    <3>1. Heals(t, x, pool, clients[pool], enabled, up, epoch)
      BY <2>3, WhenClean
    <3>2. x.hurt # FALSE
      BY <1>2, <1>11, <3>1 DEF Heals
    <3>3. a \in ThRec /\ (a.pc = "idle" \/ a.hurt # FALSE)
      BY <1>5, <3>2 DEF Falls, Over
    <3>4. a.pc = "idle" \/ a.hurt = TRUE
      BY <3>3 DEF ThRec
    <3> QED
      BY <1>5, <3>4, HealsFalls
  <2> QED
    BY ZenonT(40), <1>2, <1>3, <1>5, <1>11, <2>1, <2>2, <2>3, QuietFall
<1> QED
  BY <1>2, <1>10, <1>11

LEMMA InnerBeginKeeps ==
    ASSUME RdmaInv, NEW t \in Threads, InnerBegin(t)
    PROVE  RdmaInv'
<1> DEFINE x == th[t]
           p == IF t \in Loaders THEN "call" ELSE "stage"
           f == [th[t] EXCEPT !.pc = p]
           a == InnerFailed(th[t])
           asks == enabled \/ (t \in Loaders /\ th[t].att = 1)
           d == Done(th[t], "grpc", None)
<1>1. x \in ThRec /\ Shape(t, x) /\ x.dict \in 0 .. Len(dicts) /\ TablesTyped
  BY Mover
<1>2. /\ x.pc = "inner"
      /\ \/ asks /\ WithPool(t, f, a)
         \/ /\ ~asks \/ (t \in Storers /\ x.att = 0)
            /\ Set(t, d) /\ UNCHANGED <<enabled, pool, clients, faults>>
  BY DEF InnerBegin, At
<1>3. dicts' = dicts /\ era' = era /\ mixed' = mixed /\ up' = up /\ epoch' = epoch /\ mem' = mem
  BY DEF InnerBegin, caches, server
<1>4. x.path = "inner" /\ x.out = "none"
  BY <1>1, <1>2 DEF Shape, InnerPcs
<1>5. Falls(x, a) /\ a.pc = "idle"
  BY <1>1, InnerFailedFalls
<1>6. /\ p \in {"cached", "find", "call", "stage"} /\ p \in {"call", "stage"}
      /\ (p = "call" => t \in Loaders) /\ (p = "stage" => t \in Storers)
  BY DEF Threads
<1>7. f = [th[t] EXCEPT !.pc = p] /\ t \notin Loaders \cap Storers
  BY RdmaBackendAssumption
<1>8. ASSUME mixed = FALSE, x.clean = TRUE
      PROVE  /\ t \in Storers => mem[t] = t
             /\ x.hurt = FALSE => enabled = TRUE /\ t \in Loaders /\ pool # 0
  <2>1. /\ Own(t, x, pool, clients[pool], era, dicts[era].ext, mem[t])
        /\ Heals(t, x, pool, clients[pool], enabled, up, epoch)
    BY <1>8, WhenClean
  <2>2. t \in Storers => mem[t] = t
    BY <1>2, <2>1 DEF Own
  <2> QED
    BY ZenonT(40), <1>2, <1>4, <2>1, <2>2 DEF Heals
<1>9. CASE asks /\ WithPool(t, f, a)
  <2> HIDE DEF p, f, a
  <2>1. Onward(x, p, f)
    BY <1>1, <1>6, <1>7, OnwardRec
  <2>2. FoundTyped(t, f)
    BY ZenonT(40), <1>1, <1>4, <1>6, <2>1 DEF FoundTyped, Onward
  <2>3. FoundOwn(t, f, mem[t])
    BY ZenonT(40), <1>4, <1>6, <1>7, <1>8, <2>1 DEF FoundOwn, Onward, Direct
  <2>4. mixed = FALSE /\ a.clean = TRUE /\ pool = 0 => a.out # "grpc"
    BY <1>5, <1>8 DEF Falls, Over
  <2>5. a.pc # "reset" /\ x.pc # "idle"
    BY <1>2, <1>5
  <2> QED
    BY ZenonT(40), <1>3, <1>5, <1>6, <1>7, <1>9, <2>2, <2>3, <2>4, <2>5, PoolStep
<1>10. CASE /\ ~asks \/ (t \in Storers /\ x.att = 0)
            /\ Set(t, d) /\ UNCHANGED <<enabled, pool, clients, faults>>
  <2>1. SameRest /\ clients' = clients
    BY ZenonT(40), <1>3, <1>10 DEF SameRest
  <2>2. TablesTyped' /\ SameClients
    BY <1>1, <2>1, UnchangedTables
  <2>3. Falls(x, d) /\ d.pc = "idle" /\ d.out = "grpc"
    BY SMTT(40), <1>1, DoneFalls
  <2> HIDE DEF d
  <2>4. ASSUME mixed = FALSE, d.clean = TRUE, x.clean = TRUE PROVE FALSE
    <3>1. x.hurt = FALSE
      BY <2>3, <2>4 DEF Falls
    <3>2. enabled = TRUE /\ t \in Loaders
      BY <1>8, <2>4, <3>1
    <3> QED
      BY <1>7, <1>10, <3>2
  <2> QED
    BY ZenonT(40), <1>2, <1>3, <1>10, <2>1, <2>2, <2>3, <2>4, QuietFall
<1> QED
  BY ZenonT(40), <1>2, <1>9, <1>10

(* A new call. *)
LEMMA BeginKeeps ==
    ASSUME RdmaInv, NEW t \in Threads, Begin(t)
    PROVE  RdmaInv'
<1> DEFINE h == ~up \/ ~enabled
           r == [Idle EXCEPT !.key = t, !.hurt = ~up \/ ~enabled]
           f == [r EXCEPT !.pc = "cached"]
           a == ToBytes(r)
<1>1. /\ TablesTyped /\ ThreadsTyped /\ mem \in [Threads -> Opt] /\ enabled \in BOOLEAN /\ up \in BOOLEAN
  BY DEF RdmaInv, Typed
<1>2. /\ mem' = [mem EXCEPT ![t] = IF t \in Storers THEN t ELSE None]
      /\ \/ enabled /\ WithPool(t, f, a)
         \/ ~enabled /\ Set(t, a) /\ UNCHANGED <<enabled, pool, clients, faults>>
  BY DEF Begin
<1>3. dicts' = dicts /\ era' = era /\ mixed' = mixed /\ up' = up /\ epoch' = epoch
  BY DEF Begin, caches, server
<1>4. /\ mem' \in [Threads -> Opt] /\ (\A u \in Threads \ {t} : mem'[u] = mem[u])
      /\ t \in Storers => mem'[t] = t
  BY <1>1, <1>2 DEF Opt
<1>5. h \in BOOLEAN /\ (h = FALSE => up = TRUE /\ enabled = TRUE) /\ r = [Idle EXCEPT !.key = t, !.hurt = h]
  BY <1>1
<1> HIDE DEF h
<1>6. t \in Opt /\ t # None
  BY RdmaBackendAssumption DEF Opt
<1>7. r \in ThRec
  BY <1>5, <1>6, IdleRec DEF ThRec
<1>8. r.path = "zc" /\ r.key = t /\ r.hurt = h /\ r.dict = 0 /\ r.out = "none" /\ r.att = 0
  BY <1>5 DEF Idle
<1> HIDE DEF r
<1>9. Over(r, a) /\ a.pc = "inner" /\ a.path = "inner" /\ a.att = 0 /\ a.out = "none" /\ a.hurt = r.hurt
  BY <1>7, ToBytesRec
<1>10. Falls(r, a)
  BY <1>9 DEF Falls
<1>11. Onward(r, "cached", f)
  BY <1>7, OnwardRec
<1>12. 0 \in 0 .. Len(dicts)
  BY <1>1, Lengths
<1> HIDE DEF f, a
<1>13. FoundTyped(t, f)
  BY <1>6, <1>8, <1>11, <1>12 DEF FoundTyped, Onward
<1>14. FoundOwn(t, f, mem'[t])
  BY <1>4, <1>8, <1>11 DEF FoundOwn, Onward, Direct
<1>15. FoundHeals(t, f)
  BY SMTT(40), <1>5, <1>8, <1>11 DEF FoundHeals, Onward
<1>16. Absent(t, r, a, mem'[t])
  BY <1>4, <1>7, <1>9, <1>10 DEF Absent
<1>17. CASE enabled /\ WithPool(t, f, a)
  BY ZenonT(40), <1>3, <1>4, <1>13, <1>14, <1>15, <1>16, <1>17, WithPoolKeeps
<1>18. CASE ~enabled /\ Set(t, a) /\ UNCHANGED <<enabled, pool, clients, faults>>
  <2>1. SameRest /\ clients' = clients
    BY <1>3, <1>18 DEF SameRest
  <2>2. TablesTyped' /\ SameClients
    BY <1>1, <2>1, UnchangedTables
  <2>3. a \in ThRec /\ a.pc # "close" /\ Fits(t, a)
    BY <1>9, <2>2, OverFits DEF Over
  <2>4. Turns(t, a) /\ th'[t] = a
    BY ZenonT(40), <1>1, <1>18, <2>3, SetTurns DEF Turns
  <2>5. a.hurt = TRUE
    BY ZenonT(40), <1>5, <1>8, <1>9, <1>18
  <2>6. /\ Own(t, a, pool', clients'[pool'], era', dicts'[era'].ext, mem'[t])
        /\ Heals(t, a, pool', clients'[pool'], enabled', up', epoch')
    BY ZenonT(40), <1>4, <1>9, <2>5, OwnInner, HealsFalls
  <2>7. Fine(t)'
    BY <2>4, <2>6, IsFine
  <2> QED
    BY ZenonT(40), <1>4, <2>1, <2>2, <2>3, <2>4, <2>7, QuietStep
<1> QED
  BY <1>2, <1>17, <1>18

-----------------------------------------------------------------------------
(* The server. *)
LEMMA ServerStep ==
    ASSUME RdmaInv, th' \in [Threads -> ThRec], \A u \in Threads : Follows(th[u], th'[u]),
           enabled' = enabled, pool' = pool, clients' = clients, dicts' = dicts, era' = era, mem' = mem, mixed' = mixed,
           up' \in BOOLEAN, epoch' \in Nat,
           \A u \in Threads : mixed = FALSE /\ th[u].clean = TRUE /\ th[u].pc # "idle" => th'[u].hurt = TRUE
    PROVE  RdmaInv'
<1>1. TablesTyped /\ ThreadsTyped
  BY DEF RdmaInv, Typed
<1>2. TablesTyped' /\ PoolInv' /\ CachesInv'
  BY DEF RdmaInv, Typed, TablesTyped, PoolInv, CachesInv
<1>3. ASSUME NEW u \in Threads
      PROVE  /\ Shape(u, th'[u]) /\ th'[u].client \in 0 .. Len(clients') /\ th'[u].dict \in 0 .. Len(dicts')
  BY SMTT(40), <1>1 DEF ThreadsTyped, Follows, Shape
<1>4. Typed'
  BY ZenonT(40), <1>2, <1>3 DEF ThreadsTyped, RdmaInv, Typed
<1>5. Closing'
  BY SMTT(40) DEF RdmaInv, Closing, Follows
<1>6. Calm
  <2>1. pool # 0 => clients'[pool] = clients[pool]
    OBVIOUS
  <2> QED
    BY <2>1 DEF Calm
<1>7. ASSUME NEW u \in Threads PROVE Fine(u)'
  <2>1. Fine(u) /\ Follows(th[u], th'[u])
    BY DEF RdmaInv
  <2>2. CASE mixed = FALSE /\ th[u].clean = TRUE
    <3>1. Spared(u)
      BY <1>6, <2>2 DEF Spared
    <3> QED
      BY ZenonT(40), <1>1, <2>1, <3>1, Others
  <2>3. CASE ~(mixed = FALSE /\ th[u].clean = TRUE)
    BY <2>1, <2>3 DEF Fine, Follows
  <2> QED
    BY ZenonT(40), <2>2, <2>3
<1> QED
  BY <1>2, <1>4, <1>5, <1>7 DEF RdmaInv

LEMMA CrashKeeps ==
    ASSUME RdmaInv, Crash
    PROVE  RdmaInv'
<1>1. ThreadsTyped /\ epoch \in Nat
  BY DEF RdmaInv, Typed
<1>2. /\ th' = Hurt /\ up' = FALSE /\ enabled' = enabled /\ pool' = pool /\ clients' = clients /\ dicts' = dicts
      /\ era' = era /\ epoch' = epoch /\ mem' = mem /\ mixed' = mixed
  BY DEF Crash, tables, caches
<1>3. Hurt \in [Threads -> ThRec]
  <2>1. Hurt = [u \in Threads |-> Hurt[u]]
    BY DEF Hurt
  <2> QED
    BY <1>1, <2>1, HurtRec
<1>4. /\ th' \in [Threads -> ThRec]
      /\ \A u \in Threads : Follows(th[u], th'[u]) /\ (th[u].pc # "idle" => th'[u].hurt = TRUE)
  BY <1>1, <1>2, <1>3, HurtRec
<1> QED
  BY ZenonT(40), <1>1, <1>2, <1>4, ServerStep

LEMMA RestartKeeps ==
    ASSUME RdmaInv, Restart
    PROVE  RdmaInv'
<1>1. ThreadsTyped /\ epoch \in Nat /\ up \in BOOLEAN /\ th \in [Threads -> ThRec]
  BY DEF RdmaInv, Typed, ThreadsTyped
<1>2. /\ th' = th /\ up' = TRUE /\ enabled' = enabled /\ pool' = pool /\ clients' = clients /\ dicts' = dicts
      /\ era' = era /\ epoch' = epoch + 1 /\ mem' = mem /\ mixed' = mixed /\ ~up
  BY DEF Restart, tables, caches
<1>3. epoch' \in Nat
  BY SMTT(15), <1>1, <1>2
<1>4. \A u \in Threads : Follows(th[u], th'[u])
  BY <1>2 DEF Follows
<1>5. ASSUME NEW u \in Threads, mixed = FALSE, th[u].clean = TRUE, th[u].pc # "idle"
      PROVE  th'[u].hurt = TRUE
  <2>1. Heals(u, th[u], pool, clients[pool], enabled, up, epoch)
    BY <1>5, WhenClean
  <2>2. th[u].hurt # FALSE
    BY <1>2, <1>5, <2>1 DEF Heals
  <2>3. th[u].hurt \in BOOLEAN
    BY <1>1 DEF ThRec
  <2> QED
    BY <1>2, <2>2, <2>3
<1> QED
  BY ZenonT(40), <1>1, <1>2, <1>3, <1>4, <1>5, ServerStep

-----------------------------------------------------------------------------
(* At the start the pool's client has the load buffer of a thread registered, *)
(* and nobody has called.                                                    *)
LEMMA InitInv == Init => RdmaInv
<1> SUFFICES ASSUME Init PROVE RdmaInv
  OBVIOUS
<1>1. /\ enabled = TRUE /\ pool = 1 /\ up = TRUE /\ epoch = 1 /\ era = 1 /\ mixed = FALSE
      /\ mem = [t \in Threads |-> None] /\ th = [t \in Threads |-> Idle]
  BY DEF Init
<1>2. PICK t \in Loaders : /\ dicts = <<[ext |-> <<<<t, 1>>>>, put |-> {}]>>
                           /\ clients = <<[Connected(NewClient(1)) EXCEPT !.regions = <<t>>]>>
  BY DEF Init
<1> DEFINE k == [Connected(NewClient(1)) EXCEPT !.regions = <<t>>]
           d == [ext |-> <<<<t, 1>>>>, put |-> {}]
           A == {1}
<1>3. t \in Threads /\ <<t>> \in Seq(Buffers) /\ None \in Opt /\ <<t, 1>> \in Entries
  BY DEF Threads, Buffers, Opt, Entries
<1>5. k \in ClientRec(A) /\ k.open = TRUE /\ k.conn = 1 /\ k.era = 1 /\ k.regions = <<t>>
  <2> DEFINE j == NewClient(1)
             l == Connected(j)
  <2>1. <<>> \in Seq(Buffers) /\ 1 \in A /\ 1 \in Nat
    OBVIOUS
  <2> HIDE DEF A
  <2>2. j \in ClientRec(A)
    BY <1>1, <1>3, <2>1 DEF NewClient, ClientRec
  <2>3. j.open = TRUE /\ j.era = 1
    BY <1>1 DEF NewClient
  <2>4. l = [j EXCEPT !.conn = 1]
    BY <1>1 DEF Connected
  <2>5. k = [l EXCEPT !.regions = <<t>>]
    OBVIOUS
  <2> HIDE DEF j, l, k
  <2>6. l \in ClientRec(A)
    BY <2>1, <2>2, <2>4 DEF ClientRec
  <2>7. l.open = TRUE /\ l.era = 1 /\ l.conn = 1
    BY <2>2, <2>3, <2>4 DEF ClientRec
  <2>8. k \in ClientRec(A)
    BY <1>3, <2>5, <2>6 DEF ClientRec
  <2>9. k.open = TRUE /\ k.era = 1 /\ k.conn = 1 /\ k.regions = <<t>>
    BY <2>5, <2>6, <2>7 DEF ClientRec
  <2> QED
    BY <2>8, <2>9
<1>6. d \in DictRec(A) /\ d.ext = <<<<t, 1>>>> /\ d.put = {}
  BY SMTT(40), <1>3 DEF DictRec
<1>7. clients = <<k>> /\ dicts = <<d>>
  BY <1>2
<1> HIDE DEF k, d
<1>8. /\ Len(clients) = 1 /\ Len(dicts) = 1 /\ clients[1] = k /\ dicts[1] = d
      /\ clients \in Seq(ClientRec(A)) /\ dicts \in Seq(DictRec(A))
  <2> DEFINE S == ClientRec(A)
             T == DictRec(A)
  <2>1. k \in S /\ d \in T
    BY <1>5, <1>6
  <2> HIDE DEF S, T
  <2>2. /\ Len(clients) = 1 /\ Len(dicts) = 1 /\ clients[1] = k /\ dicts[1] = d
        /\ clients \in Seq(S) /\ dicts \in Seq(T)
    BY SMTT(15), <1>7, <2>1
  <2> QED
    BY <2>2 DEF S, T
<1>9. 1 \in 0 .. 1 /\ 0 \in 0 .. 1 /\ 1 \in 1 .. 1 /\ 1 # 0 /\ \A i \in 1 .. 1 : i = 1
  BY SMTT(15)
<1>10. TablesTyped
  BY <1>1, <1>8, <1>9 DEF TablesTyped
<1>11. Idle \in ThRec /\ (\A u : Shape(u, Idle)) /\ Idle.client = 0 /\ Idle.dict = 0 /\ Idle.pc = "idle" /\ Idle.out = "none"
  BY IdleRec DEF Idle
<1>12. \A u \in Threads : th[u] = Idle
  BY <1>1
<1>13. ThreadsTyped
  BY <1>1, <1>8, <1>9, <1>11, <1>12 DEF ThreadsTyped
<1>14. Typed
  BY <1>1, <1>3, <1>10, <1>13 DEF Typed
<1>15. PoolInv
  BY ZenonT(40), <1>1, <1>5, <1>8, <1>9 DEF PoolInv
<1>16. Closing
  BY <1>11, <1>12 DEF Closing
<1>17. CacheOk(d.ext, d.put, k.regions)
  <2>1. Len(d.ext) = 1 /\ d.ext[1] = <<t, 1>> /\ Len(k.regions) = 1 /\ k.regions[1] = t
    BY SMTT(15), <1>5, <1>6
  <2>2. Keyed(d.ext)
    BY <1>9, <2>1 DEF Keyed
  <2>3. <<t, 1>>[1] = t /\ <<t, 1>>[2] = 1
    OBVIOUS
  <2> QED
    BY ZenonT(40), <1>6, <1>9, <2>1, <2>2, <2>3 DEF CacheOk, Names
<1>18. CachesInv
  BY ZenonT(40), <1>1, <1>5, <1>8, <1>9, <1>17 DEF CachesInv
<1>19. ASSUME NEW u \in Threads PROVE Fine(u)
  <2>1. th[u].pc = "idle" /\ th[u].out = "none"
    BY <1>11, <1>12
  <2>2. /\ Own(u, th[u], pool, clients[pool], era, dicts[era].ext, mem[u])
        /\ Heals(u, th[u], pool, clients[pool], enabled, up, epoch)
    BY <2>1, OwnIdle, HealsFalls
  <2> QED
    BY <2>2 DEF Fine
<1> QED
  BY ZenonT(40), <1>14, <1>15, <1>16, <1>18, <1>19 DEF RdmaInv

LEMMA StepInv == RdmaInv /\ [Next]_vars => RdmaInv'
<1> SUFFICES ASSUME RdmaInv, [Next]_vars PROVE RdmaInv'
  OBVIOUS
<1>1. CASE Crash
  BY <1>1, CrashKeeps
<1>2. CASE Restart
  BY <1>2, RestartKeeps
<1>3. ASSUME NEW t \in Threads, Begin(t) PROVE RdmaInv'
  BY <1>3, BeginKeeps
<1>4. ASSUME NEW t \in Threads, Step(t) PROVE RdmaInv'
  <2>1. CASE EnsurePool(t) \/ EnsureCached(t) \/ EnsureEvict(t) \/ EnsureRegister(t)
    BY ZenonT(40), <2>1, EnsurePoolKeeps, EnsureCachedKeeps, EnsureEvictKeeps, EnsureRegisterKeeps
  <2>2. CASE ZcBegin(t) \/ ZcFind(t) \/ ZcAgain(t)
    BY <2>2, ZcBeginKeeps, ZcFindKeeps, ZcAgainKeeps
  <2>3. CASE Call(t) \/ CallFails(t) \/ CallMisses(t) \/ LoadReturns(t) \/ StoreReturns(t)
    BY ZenonT(40), <2>3, CallKeeps, CallFailsKeeps, CallMissesKeeps, LoadReturnsKeeps, StoreReturnsKeeps
  <2>4. CASE Reset(t) \/ Close(t)
    BY <2>4, ResetKeeps, CloseKeeps
  <2>5. CASE InnerBegin(t) \/ Stage(t) \/ Copy(t) \/ View(t)
    BY ZenonT(40), <2>5, InnerBeginKeeps, StageKeeps, CopyKeeps, ViewKeeps
  <2> QED
    BY ZenonT(40), <1>4, <2>1, <2>2, <2>3, <2>4, <2>5 DEF Step
<1>5. CASE UNCHANGED vars
  <2>1. /\ enabled' = enabled /\ pool' = pool /\ clients' = clients /\ dicts' = dicts /\ era' = era
        /\ mem' = mem /\ up' = up /\ epoch' = epoch /\ th' = th /\ mixed' = mixed
    BY <1>5 DEF vars
  <2> QED
    BY <2>1 DEF RdmaInv, Typed, TablesTyped, ThreadsTyped, PoolInv, Closing, CachesInv, Fine
<1> QED
  BY <1>1, <1>2, <1>3, <1>4, <1>5 DEF Next

LEMMA Holds == Spec => []RdmaInv
BY InitInv, StepInv, PTL DEF Spec

LEMMA CleanTyped ==
    ASSUME RdmaInv, NEW t \in Threads
    PROVE  th[t].clean \in BOOLEAN /\ mixed \in BOOLEAN
BY DEF RdmaInv, Typed, ThreadsTyped, ThRec

(* KVServiceBackend with its RdmaClient: a call that succeeded over RDMA has *)
(* moved the caller's own data, whatever the other threads, the server and   *)
(* the region cache did, unless one of them reset the pool, evicted a        *)
(* region, used the client's own buffer or missed its own during the call,   *)
(* or a cache entry was made across a reset.                                 *)
THEOREM OwnBytesMoved == Spec => []OwnBytes
<1>1. RdmaInv => OwnBytes
  <2> SUFFICES ASSUME RdmaInv, NEW t \in Threads, th[t].out = "ok", th[t].clean, ~mixed
               PROVE  th[t].got = t
    BY DEF OwnBytes
  <2>1. th[t].clean = TRUE /\ mixed = FALSE
    BY CleanTyped
  <2>2. Own(t, th[t], pool, clients[pool], era, dicts[era].ext, mem[t])
    BY <2>1, WhenClean
  <2> QED
    BY <2>2 DEF Own
<1> QED
  BY <1>1, Holds, PTL

(* The retry of get_chunks_into, put_chunks_from, _try_rdma_put and          *)
(* _get_chunks_rdma after _reset_rdma_client_pool: a call that fell back to  *)
(* gRPC was hurt by a fault of its own time or disturbed by another thread,  *)
(* so a connection that died while idle sends no call to gRPC.               *)
THEOREM IdleDeathHealed == Spec => []Healed
<1>1. RdmaInv => Healed
  <2> SUFFICES ASSUME RdmaInv, NEW t \in Threads, th[t].out = "grpc", th[t].clean, ~mixed
               PROVE  FALSE
    BY DEF Healed
  <2>1. th[t].clean = TRUE /\ mixed = FALSE
    BY CleanTyped
  <2>2. Heals(t, th[t], pool, clients[pool], enabled, up, epoch)
    BY <2>1, WhenClean
  <2> QED
    BY <2>2 DEF Heals
<1> QED
  BY <1>1, Holds, PTL
=============================================================================
