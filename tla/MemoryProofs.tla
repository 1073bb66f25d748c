---------------------------- MODULE MemoryProofs ----------------------------
(* The memory tier for every capacity, every set of keys and sizes and any   *)
(* number of concurrent requests: the steps of a request, its eviction loop  *)
(* and which metadata a read may purge; the byte counter and the capacity;   *)
(* and, while requests come one at a time, that a read returns the current   *)
(* value, through whichever RPC it was written, and an expired one only      *)
(* through GetStream.                                                        *)
EXTENDS MemoryTier, FiniteSetTheorems, TLAPS

(* Time limits of the provers, for a busy machine. *)
USE ZenonT(10), SMTT(15)

Generation == Nat \ {0}
Entry == [key : Keys, data : Generation, meta : Nat]
Labels == {"idle", "store", "reread", "pop_cache", "pop_chunks", "insert", "fit", "evict",
           "place", "live", "live_purge", "peek", "look", "look_chunks", "fetch", "fetch_purge",
           "purge", "retire", "deleted"}
Verdicts == {"none", "expired", "fresh", "other"}
Request == [pc : Labels, then : Labels, op : Writes \cup Reads \cup {"delete", "none"},
            key : Keys \cup {"none"}, data : Nat, ver : Nat, floor : Nat,
            dead : SUBSET Generation, verdict : Verdicts]

(* A map holds at most one entry of a key. *)
Unique(s) == \A i, j \in DOMAIN s : s[i].key = s[j].key => i = j
MapSeq == {s \in Seq(Entry) : Unique(s)}
Entries(s) == {s[i] : i \in DOMAIN s}

-----------------------------------------------------------------------------
(* Maps as sequences. *)

LEMMA RemoveAtProperties ==
    ASSUME NEW S, NEW s \in Seq(S), NEW i \in 1 .. Len(s)
    PROVE  /\ RemoveAt(s, i) \in Seq(S)
           /\ Len(RemoveAt(s, i)) = Len(s) - 1
           /\ \A j \in 1 .. Len(s) - 1 : RemoveAt(s, i)[j] = IF j < i THEN s[j] ELSE s[j + 1]
BY SMTT(15) DEF RemoveAt

LEMMA FirstHit ==
    ASSUME NEW s \in MapSeq, NEW k
    PROVE  \/ Places(s, k) = {} /\ Hits(s, k) = <<>> /\ Without(s, k) = s
           \/ \E i \in 1 .. Len(s) : /\ Places(s, k) = {i} /\ s[i].key = k
                                     /\ Hits(s, k) = <<s[i]>> /\ Without(s, k) = RemoveAt(s, i)
<1>1. CASE Places(s, k) = {}
  BY <1>1 DEF Hits, Without
<1>2. CASE Places(s, k) # {}
  <2>1. PICK i \in Places(s, k) : i = CHOOSE j \in Places(s, k) : TRUE
    BY <1>2
  <2>2. i \in 1 .. Len(s) /\ s[i].key = k /\ Places(s, k) = {i}
    BY SMTT(15) DEF Places, MapSeq, Unique
  <2> QED
    BY <1>2, <2>1, <2>2 DEF Hits, Without
<1> QED
  BY <1>1, <1>2

(* Removing a key's entry leaves the others. *)
LEMMA WithoutMap ==
    ASSUME NEW s \in MapSeq, NEW k
    PROVE  /\ Without(s, k) \in MapSeq
           /\ Entries(Without(s, k)) = {e \in Entries(s) : e.key # k}
<1>1. CASE Places(s, k) = {} /\ Without(s, k) = s
  BY <1>1 DEF Places, Entries
<1>2. ASSUME NEW i \in 1 .. Len(s), s[i].key = k, Without(s, k) = RemoveAt(s, i)
      PROVE  /\ Without(s, k) \in MapSeq
             /\ Entries(Without(s, k)) = {e \in Entries(s) : e.key # k}
  <2> DEFINE r == RemoveAt(s, i)
  <2>1. s \in Seq(Entry) /\ Unique(s)
    BY DEF MapSeq
  <2>2. /\ r \in Seq(Entry) /\ Len(r) = Len(s) - 1
        /\ \A j \in 1 .. Len(s) - 1 : r[j] = IF j < i THEN s[j] ELSE s[j + 1]
    BY <2>1, RemoveAtProperties
  <2> HIDE DEF r
  <2>3. Unique(r)
    <3> SUFFICES ASSUME NEW x \in 1 .. Len(s) - 1, NEW y \in 1 .. Len(s) - 1,
                        r[x].key = r[y].key
                 PROVE  x = y
      BY SMTT(15), <2>1, <2>2 DEF Unique
    <3>1. PICK u \in 1 .. Len(s) : u = (IF x < i THEN x ELSE x + 1) /\ r[x] = s[u]
      BY SMTT(15), <2>1, <2>2
    <3>2. PICK v \in 1 .. Len(s) : v = (IF y < i THEN y ELSE y + 1) /\ r[y] = s[v]
      BY SMTT(15), <2>1, <2>2
    <3>3. u = v
      BY SMTT(15), <2>1, <3>1, <3>2 DEF Unique
    <3> QED
      BY SMTT(15), <3>1, <3>2, <3>3
  <2>4. ASSUME NEW e \in Entries(r) PROVE e \in Entries(s) /\ e.key # k
    <3>1. PICK j \in 1 .. Len(s) - 1 : e = r[j]
      BY SMTT(15), <2>1, <2>2 DEF Entries
    <3>2. PICK l \in 1 .. Len(s) : e = s[l] /\ l # i
      BY SMTT(15), <2>1, <2>2, <3>1
    <3> QED
      BY SMTT(15), <1>2, <2>1, <3>2 DEF Entries, Unique
  <2>5. ASSUME NEW e \in Entries(s), e.key # k PROVE e \in Entries(r)
    <3>1. PICK l \in 1 .. Len(s) : e = s[l] /\ l # i
      BY SMTT(15), <1>2, <2>1, <2>5 DEF Entries
    <3>2. PICK j \in 1 .. Len(s) - 1 : e = r[j]
      <4>1. CASE l < i
        BY SMTT(15), <2>1, <2>2, <3>1, <4>1
      <4>2. CASE l > i
        <5>1. l - 1 \in 1 .. Len(s) - 1 /\ r[l - 1] = s[l]
          BY SMTT(15), <2>1, <2>2, <3>1, <4>2
        <5> QED
          BY <3>1, <5>1
      <4> QED
        BY SMTT(15), <3>1, <4>1, <4>2
    <3> QED
      BY SMTT(15), <2>1, <2>2, <3>2 DEF Entries
  <2> QED
    BY <1>2, <2>2, <2>3, <2>4, <2>5 DEF MapSeq, r
<1> QED
  BY <1>1, <1>2, FirstHit

LEMMA AppendMap ==
    ASSUME NEW s \in MapSeq, NEW e \in Entry, \A x \in Entries(s) : x.key # e.key
    PROVE  /\ Append(s, e) \in MapSeq
           /\ Entries(Append(s, e)) = Entries(s) \cup {e}
<1>1. s \in Seq(Entry) /\ Unique(s)
  BY DEF MapSeq
<1> USE <1>1
<1>2. /\ Append(s, e) \in Seq(Entry) /\ Len(Append(s, e)) = Len(s) + 1
      /\ Append(s, e)[Len(s) + 1] = e
      /\ \A i \in 1 .. Len(s) : Append(s, e)[i] = s[i]
  BY SMTT(15)
<1> USE <1>2
<1>3. \A i \in 1 .. Len(s) : s[i].key # e.key
  BY SMTT(15) DEF Entries
<1> DEFINE a == Append(s, e)
<1> HIDE DEF a
<1>4. Unique(a)
  BY SMTT(15), <1>3 DEF Unique, a
<1>5. Entries(a) = Entries(s) \cup {e}
  BY SMTT(15) DEF Entries, a
<1> QED
  BY <1>4, <1>5 DEF MapSeq, a

LEMMA TailMap ==
    ASSUME NEW s \in MapSeq, s # <<>>
    PROVE  /\ Tail(s) \in MapSeq /\ Head(s) \in Entries(s)
           /\ Entries(Tail(s)) = {e \in Entries(s) : e.key # Head(s).key}
<1>1. s \in Seq(Entry) /\ Unique(s) /\ Len(s) > 0
  BY SMTT(15) DEF MapSeq
<1> USE <1>1
<1>2. /\ Tail(s) \in Seq(Entry) /\ Len(Tail(s)) = Len(s) - 1 /\ Head(s) = s[1]
      /\ \A i \in 1 .. Len(s) - 1 : Tail(s)[i] = s[i + 1]
  BY SMTT(15)
<1> USE <1>2
<1> DEFINE t == Tail(s)
<1> HIDE DEF t
<1>3. Unique(t)
  BY SMTT(15) DEF Unique, t
<1>4. ASSUME NEW e \in Entries(t) PROVE e \in Entries(s) /\ e.key # s[1].key
  <2>1. PICK i \in 1 .. Len(s) - 1 : e = s[i + 1]
    BY SMTT(15), <1>4 DEF Entries, t
  <2> QED
    BY SMTT(15), <2>1 DEF Entries, Unique
<1>5. ASSUME NEW e \in Entries(s), e.key # s[1].key PROVE e \in Entries(t)
  <2>1. PICK i \in 1 .. Len(s) : e = s[i] /\ i # 1
    BY SMTT(15), <1>5 DEF Entries
  <2>2. i - 1 \in 1 .. Len(s) - 1 /\ t[i - 1] = s[i]
    BY SMTT(15), <2>1 DEF t
  <2>3. i - 1 \in DOMAIN t
    BY SMTT(15), <2>2 DEF t
  <2> QED
    BY <2>1, <2>2, <2>3 DEF Entries
<1> QED
  BY SMTT(15), <1>3, <1>4, <1>5 DEF MapSeq, Entries, t

(* A hit moves to the end of the map. *)
LEMMA TouchMap ==
    ASSUME NEW s \in MapSeq, NEW k
    PROVE  Recent(s, k) \in MapSeq /\ Entries(Recent(s, k)) = Entries(s)
<1>1. /\ Without(s, k) \in MapSeq
      /\ Entries(Without(s, k)) = {e \in Entries(s) : e.key # k}
  BY WithoutMap
<1> USE <1>1
<1>2. CASE Hits(s, k) = <<>> /\ Without(s, k) = s
  BY <1>2 DEF Recent
<1>3. ASSUME NEW i \in 1 .. Len(s), s[i].key = k, Hits(s, k) = <<s[i]>>, Places(s, k) = {i}
      PROVE  Recent(s, k) \in MapSeq /\ Entries(Recent(s, k)) = Entries(s)
  <2> USE <1>3
  <2>1. s[i] \in Entry /\ s[i] \in Entries(s)
    BY SMTT(15) DEF MapSeq, Entries
  <2>2. Recent(s, k) = Append(Without(s, k), s[i])
    BY SMTT(15) DEF Recent
  <2>3. {e \in Entries(s) : e.key # k} \cup {s[i]} = Entries(s)
    BY SMTT(15), <2>1 DEF Entries, Places
  <2>4. \A x \in Entries(Without(s, k)) : x.key # s[i].key
    OBVIOUS
  <2>5. /\ Append(Without(s, k), s[i]) \in MapSeq
        /\ Entries(Append(Without(s, k), s[i])) = Entries(Without(s, k)) \cup {s[i]}
    BY <2>1, <2>4, AppendMap
  <2> QED
    BY <2>2, <2>3, <2>5
<1> QED
  BY <1>2, <1>3, FirstHit

-----------------------------------------------------------------------------
(* Types, and how requests move. *)

PopPcs == {"pop_cache", "pop_chunks"}

(* A request that is going to insert has a value to insert. *)
Carrying(pc, then) == \/ pc \in {"reread", "fetch_purge", "insert", "fit", "evict", "place"}
                      \/ pc \in PopPcs /\ then \in {"insert", "fit"}

(* Which requests are at a label, and with what. *)
ShapeOf(pc, then, data, op) ==
    /\ pc \in PopPcs => then \in {"insert", "fit", "purge", "deleted"}
    /\ Carrying(pc, then) => data # 0
    /\ pc \in {"store", "reread"} => op \in Writes
    /\ pc \in {"live", "live_purge"} => op \in {"get", "get_stream"}
    /\ pc = "peek" => op = "get_stream"
    /\ pc \in {"look", "look_chunks", "fetch", "fetch_purge", "purge"} => op \in Reads
    /\ pc \in {"retire", "deleted"} => op = "delete"
    /\ pc \in PopPcs => /\ then = "purge" => op \in Reads
                        /\ then = "deleted" => op = "delete"

Shape(p) ==
    /\ Active(p) => h[p].key \in Keys
    /\ ShapeOf(h[p].pc, h[p].then, h[p].data, h[p].op)

StateTypes ==
    /\ meta \in [Keys -> Nat] /\ last \in Nat /\ lapsed \in SUBSET Generation
    /\ l1 \in [Maps -> MapSeq] /\ size \in Int
    /\ lock \in [Maps -> Handlers \cup {"free"}]
    /\ overlapped \in BOOLEAN

TypeInv ==
    /\ StateTypes
    /\ h \in [Handlers -> Request]
    /\ \A p \in Handlers : Shape(p)

(* Request p goes on, with these values; the others stay where they are. *)
Moved(p, pc, then, data, ver) ==
    /\ h' \in [Handlers -> Request]
    /\ \A q \in Handlers \ {p} : h'[q] = h[q]
    /\ h'[p].pc = pc /\ h'[p].then = then /\ h'[p].data = data /\ h'[p].ver = ver
    /\ h'[p].op = h[p].op /\ h'[p].key = h[p].key /\ h'[p].floor = h[p].floor
    /\ h'[p].dead = h[p].dead /\ h'[p].verdict = h[p].verdict

Answered(p, g) ==
    /\ h' \in [Handlers -> Request]
    /\ \A q \in Handlers \ {p} : h'[q] = h[q]
    /\ h'[p].pc = "idle" /\ h'[p].dead = {} /\ h'[p].verdict = Verdict(p, g)

LEMMA GotoMoves ==
    ASSUME h \in [Handlers -> Request], NEW p \in Handlers, NEW l \in Labels, Goto(p, l)
    PROVE  Moved(p, l, h[p].then, h[p].data, h[p].ver)
BY SMTT(15) DEF Goto, Moved, Request

LEMMA InvalidateMoves ==
    ASSUME h \in [Handlers -> Request], NEW p \in Handlers, NEW l \in Labels, Invalidate(p, l)
    PROVE  Moved(p, "pop_cache", l, h[p].data, h[p].ver)
<1> DEFINE a == "pop_cache"
<1>1. a \in Labels /\ h' = [h EXCEPT ![p].pc = a, ![p].then = l]
  BY DEF Invalidate, Labels
<1> HIDE DEF a
<1>2. Moved(p, a, l, h[p].data, h[p].ver)
  BY ZenonT(60), <1>1 DEF Moved, Request
<1> QED
  BY <1>2 DEF a

LEMMA VersionMoves ==
    ASSUME h \in [Handlers -> Request], NEW p \in Handlers, NEW l \in Labels, NEW v \in Nat,
           h' = [h EXCEPT ![p].pc = l, ![p].ver = v]
    PROVE  Moved(p, l, h[p].then, h[p].data, v)
BY ZenonT(60) DEF Moved, Request

LEMMA ThenVersionMoves ==
    ASSUME h \in [Handlers -> Request], NEW p \in Handlers, NEW l \in Labels, NEW v \in Nat,
           h' = [h EXCEPT ![p].pc = "pop_cache", ![p].then = l, ![p].ver = v]
    PROVE  Moved(p, "pop_cache", l, h[p].data, v)
<1> DEFINE r == [h[p] EXCEPT !.pc = "pop_cache", !.then = l, !.ver = v]
<1>1. h[p] \in Request
  OBVIOUS
<1>2. /\ r \in Request /\ r.pc = "pop_cache" /\ r.then = l /\ r.ver = v
      /\ r.data = h[p].data /\ r.op = h[p].op /\ r.key = h[p].key /\ r.floor = h[p].floor
      /\ r.dead = h[p].dead /\ r.verdict = h[p].verdict
  BY ZenonT(60), <1>1 DEF Request, Labels
<1>3. h' = [h EXCEPT ![p] = r]
  OBVIOUS
<1> HIDE DEF r
<1> QED
  BY ZenonT(60), <1>2, <1>3 DEF Moved

LEMMA DataMoves ==
    ASSUME h \in [Handlers -> Request], NEW p \in Handlers, NEW l \in Labels, NEW d \in Nat,
           h' = [h EXCEPT ![p].pc = l, ![p].data = d]
    PROVE  Moved(p, l, h[p].then, d, h[p].ver)
BY ZenonT(60) DEF Moved, Request

LEMMA DataVersionMoves ==
    ASSUME h \in [Handlers -> Request], NEW p \in Handlers, NEW l \in Labels,
           NEW d \in Nat, NEW v \in Nat,
           h' = [h EXCEPT ![p].pc = l, ![p].data = d, ![p].ver = v]
    PROVE  Moved(p, l, h[p].then, d, v)
BY ZenonT(60) DEF Moved, Request

LEMMA AnswerMoves ==
    ASSUME h \in [Handlers -> Request], NEW p \in Handlers, NEW g, Answer(p, g)
    PROVE  Answered(p, g)
<1> DEFINE r == [NoRequest EXCEPT !.verdict = Verdict(p, g)]
<1>1. Verdict(p, g) \in Verdicts
  BY DEF Verdict, Verdicts
<1>2. r \in Request /\ r.pc = "idle" /\ r.dead = {} /\ r.verdict = Verdict(p, g)
  BY <1>1 DEF NoRequest, Request, Labels
<1>3. h' = [h EXCEPT ![p] = r]
  BY DEF Answer
<1> HIDE DEF r
<1> QED
  BY <1>2, <1>3 DEF Answered

(* A request begins. *)
Started(p, op, k) ==
    /\ h' \in [Handlers -> Request]
    /\ \A q \in Handlers \ {p} : h'[q] = h[q]
    /\ h'[p].pc \in {"store", "live", "retire", "look"}
    /\ h'[p].pc = "store" => op \in Writes
    /\ h'[p].pc = "live" => op \in {"get", "get_stream"}
    /\ h'[p].pc = "look" => op \in Reads
    /\ h'[p].pc = "retire" => op = "delete"
    /\ h'[p].op = op /\ h'[p].key = k /\ h'[p].floor = meta[k] /\ h'[p].verdict = "none"
    /\ h'[p].dead = IF op \in Reads THEN lapsed ELSE {}

LEMMA BeginMoves ==
    ASSUME StateTypes, h \in [Handlers -> Request], NEW p \in Handlers,
           NEW op \in Ops, NEW k \in Keys, Begin(p, op, k)
    PROVE  Started(p, op, k)
<1> DEFINE pc == CASE op \in Writes -> "store" [] op \in {"get", "get_stream"} -> "live"
                   [] op = "delete" -> "retire" [] OTHER -> "look"
           r == [NoRequest EXCEPT !.pc = pc, !.op = op, !.key = k, !.floor = meta[k],
                                  !.dead = IF op \in Reads THEN lapsed ELSE {}]
<1>1. op \in Writes \cup Reads \cup {"delete"}
  BY MemoryAssumption
<1>2. /\ pc \in {"store", "live", "retire", "look"}
      /\ pc = "store" => op \in Writes
      /\ pc = "live" => op \in {"get", "get_stream"}
      /\ pc = "look" => op \in Reads
      /\ pc = "retire" => op = "delete"
  BY <1>1 DEF Writes, Reads
<1> HIDE DEF pc
<1>3. /\ r \in Request /\ r.pc = pc /\ r.op = op /\ r.key = k /\ r.floor = meta[k]
      /\ r.verdict = "none" /\ r.dead = IF op \in Reads THEN lapsed ELSE {}
  BY ZenonT(30), <1>1, <1>2 DEF NoRequest, Request, StateTypes, Labels, Verdicts
<1>4. h' = [h EXCEPT ![p] = r]
  BY DEF Begin, pc
<1> HIDE DEF r
<1> QED
  BY <1>2, <1>3, <1>4 DEF Started

-----------------------------------------------------------------------------
(* What each step does to its request, and that the types hold after it. *)

LEMMA MovedTypes ==
    ASSUME TypeInv, NEW p \in Handlers, NEW a, NEW b, NEW d, NEW v,
           StateTypes', Moved(p, a, b, d, v), a = "idle" \/ h[p].key \in Keys,
           ShapeOf(a, b, d, h[p].op)
    PROVE  TypeInv'
<1>1. ASSUME NEW q \in Handlers PROVE Shape(q)'
  <2>1. CASE q = p
    BY <2>1 DEF Moved, Shape, Active
  <2>2. CASE q # p
    BY <2>2 DEF Moved, Shape, Active, TypeInv
  <2> QED
    BY <2>1, <2>2
<1> QED
  BY <1>1 DEF Moved, TypeInv

LEMMA AnsweredTypes ==
    ASSUME TypeInv, NEW p \in Handlers, NEW g, StateTypes', Answered(p, g)
    PROVE  TypeInv'
<1>1. ASSUME NEW q \in Handlers PROVE Shape(q)'
  <2>1. CASE q = p
    BY <2>1 DEF Answered, Shape, Active, ShapeOf, Carrying, PopPcs
  <2>2. CASE q # p
    BY <2>2 DEF Answered, Shape, Active, TypeInv
  <2> QED
    BY <2>1, <2>2
<1> QED
  BY <1>1 DEF Answered, TypeInv

LEMMA RequestTypes ==
    ASSUME TypeInv, NEW p \in Handlers
    PROVE  /\ h \in [Handlers -> Request] /\ h[p] \in Request
           /\ h[p].pc \in Labels /\ h[p].then \in Labels /\ h[p].data \in Nat /\ h[p].ver \in Nat
           /\ h[p].floor \in Nat /\ h[p].dead \in SUBSET Generation /\ h[p].verdict \in Verdicts
           /\ h[p].pc # "idle" => h[p].key \in Keys /\ meta[h[p].key] \in Nat
           /\ ShapeOf(h[p].pc, h[p].then, h[p].data, h[p].op)
BY DEF TypeInv, StateTypes, Request, Shape, Active

LEMMA BeginTypes ==
    ASSUME TypeInv, NEW p \in Handlers, NEW op \in Ops, NEW k \in Keys, Begin(p, op, k)
    PROVE  TypeInv'
<1>1. Started(p, op, k)
  BY BeginMoves DEF TypeInv
<1> USE <1>1
<1>2. StateTypes'
  BY DEF Begin, TypeInv, StateTypes, redisVars, l1Vars
<1>3. ASSUME NEW q \in Handlers PROVE Shape(q)'
  <2>1. CASE q = p
    BY <2>1 DEF Started, Shape, Active, ShapeOf, Carrying, PopPcs
  <2>2. CASE q # p
    BY <2>2 DEF Started, Shape, Active, TypeInv
  <2> QED
    BY <2>1, <2>2
<1> QED
  BY <1>2, <1>3 DEF Started, TypeInv

LEMMA TtlTypes ==
    ASSUME TypeInv, NEW g \in TtlGens, TtlPasses(g)
    PROVE  TypeInv'
<1>1. g \in Generation
  BY SMTT(15), MemoryAssumption DEF Generation
<1>2. StateTypes'
  BY <1>1 DEF TtlPasses, TypeInv, StateTypes, l1Vars
<1> QED
  BY <1>2 DEF TtlPasses, TypeInv, Shape, Active

(* A step that leaves the cache alone. *)
LEMMA StoreMoves ==
    ASSUME TypeInv, NEW p \in Handlers, Store(p)
    PROVE  /\ TypeInv' /\ h[p].pc = "store" /\ UNCHANGED <<lapsed, l1Vars, overlapped>>
           /\ \/ Answered(p, 0) /\ UNCHANGED <<meta, last>>
              \/ /\ Moved(p, "reread", h[p].then, last + 1, h[p].ver)
                 /\ meta' = [meta EXCEPT ![h[p].key] = last + 1]
<1>1. h[p].pc = "store" /\ UNCHANGED <<lapsed, l1Vars, overlapped>>
  BY DEF Store
<1> USE <1>1
<1>2. CASE Answer(p, 0) /\ UNCHANGED <<meta, last>>
  <2> USE <1>2
  <2>1. Answered(p, 0)
    BY RequestTypes, AnswerMoves
  <2>2. StateTypes'
    BY DEF TypeInv, StateTypes, l1Vars
  <2> QED
    BY <2>1, <2>2, AnsweredTypes
<1>3. CASE /\ last' = last + 1 /\ meta' = [meta EXCEPT ![h[p].key] = last + 1]
           /\ h' = [h EXCEPT ![p].pc = "reread", ![p].data = last + 1]
  <2> USE <1>3
  <2>1. last + 1 \in Nat /\ last + 1 # 0 /\ "reread" \in Labels
    BY SMTT(15) DEF TypeInv, StateTypes, Labels
  <2> USE <2>1
  <2>2. Moved(p, "reread", h[p].then, last + 1, h[p].ver)
    BY RequestTypes, DataMoves
  <2>3. StateTypes'
    BY DEF TypeInv, StateTypes, l1Vars
  <2>4. h[p].key \in Keys /\ ShapeOf("reread", h[p].then, last + 1, h[p].op)
    BY RequestTypes DEF ShapeOf, PopPcs
  <2>5. TypeInv'
    BY <2>2, <2>3, <2>4, MovedTypes
  <2> QED
    BY <2>2, <2>5
<1> QED
  BY <1>2, <1>3 DEF Store

LEMMA RereadMoves ==
    ASSUME TypeInv, NEW p \in Handlers, Reread(p)
    PROVE  /\ TypeInv' /\ h[p].pc = "reread" /\ UNCHANGED <<redisVars, l1Vars, overlapped>>
           /\ Moved(p, "pop_cache", "insert", h[p].data, meta[h[p].key])
<1>1. h[p].pc = "reread" /\ UNCHANGED <<redisVars, l1Vars, overlapped>>
  BY DEF Reread
<1> USE <1>1
<1>2. Moved(p, "pop_cache", "insert", h[p].data, meta[h[p].key])
  <2>1. "insert" \in Labels /\ meta[h[p].key] \in Nat /\ h \in [Handlers -> Request]
    BY RequestTypes DEF Labels
  <2> QED
    BY <2>1, ThenVersionMoves DEF Reread
<1>3. StateTypes'
  BY DEF TypeInv, StateTypes, redisVars, l1Vars
<1>4. h[p].key \in Keys /\ ShapeOf("pop_cache", "insert", h[p].data, h[p].op)
  BY RequestTypes DEF ShapeOf, Carrying, PopPcs
<1> QED
  BY <1>2, <1>3, <1>4, MovedTypes

LEMMA InsertMoves ==
    ASSUME TypeInv, NEW p \in Handlers, Insert(p)
    PROVE  /\ TypeInv' /\ h[p].pc = "insert" /\ UNCHANGED <<redisVars, l1Vars, overlapped>>
           /\ \/ Answered(p, h[p].data)
              \/ /\ Size[h[p].key] <= Capacity
                 /\ Moved(p, "pop_cache", "fit", h[p].data, h[p].ver)
<1>1. h[p].pc = "insert" /\ UNCHANGED <<redisVars, l1Vars, overlapped>>
  BY DEF Insert
<1> USE <1>1
<1>2. StateTypes'
  BY DEF TypeInv, StateTypes, redisVars, l1Vars
<1>3. CASE Answer(p, h[p].data)
  BY <1>2, <1>3, RequestTypes, AnswerMoves, AnsweredTypes
<1>4. CASE ~(Size[h[p].key] > Capacity) /\ Invalidate(p, "fit")
  <2>1. "fit" \in Labels /\ h \in [Handlers -> Request]
    BY RequestTypes DEF Labels
  <2>2. Moved(p, "pop_cache", "fit", h[p].data, h[p].ver)
    BY <1>4, <2>1, InvalidateMoves
  <2>3. h[p].key \in Keys /\ ShapeOf("pop_cache", "fit", h[p].data, h[p].op)
    BY RequestTypes DEF ShapeOf, Carrying, PopPcs
  <2>4. Size[h[p].key] <= Capacity
    BY SMTT(15), <1>4, <2>3, MemoryAssumption
  <2> QED
    BY <1>2, <2>2, <2>3, <2>4, MovedTypes
<1> QED
  BY <1>3, <1>4 DEF Insert

LEMMA LiveMoves ==
    ASSUME TypeInv, NEW p \in Handlers, Live(p)
    PROVE  /\ TypeInv' /\ h[p].pc = "live" /\ UNCHANGED <<redisVars, l1Vars, overlapped>>
           /\ \E a \in {"live_purge", "look", "peek"} :
                /\ a = "live_purge" => meta[h[p].key] \in lapsed
                /\ Moved(p, a, h[p].then, h[p].data, meta[h[p].key])
<1>1. h[p].pc = "live" /\ UNCHANGED <<redisVars, l1Vars, overlapped>>
  BY DEF Live
<1> USE <1>1
<1>2. StateTypes'
  BY DEF TypeInv, StateTypes, redisVars, l1Vars
<1> DEFINE a == IF meta[h[p].key] \in lapsed THEN "live_purge" ELSE AfterLive(h[p].op)
<1>3. /\ a \in {"live_purge", "look", "peek"} /\ a \in Labels
      /\ a = "live_purge" => meta[h[p].key] \in lapsed
      /\ a = "peek" => h[p].op # "get"
  BY DEF AfterLive, Labels
<1> USE <1>3
<1>4. h' = [h EXCEPT ![p].pc = a, ![p].ver = meta[h[p].key]]
  BY DEF Live
<1> HIDE DEF a
<1>5. Moved(p, a, h[p].then, h[p].data, meta[h[p].key])
  BY <1>4, RequestTypes, VersionMoves
<1>6. h[p].key \in Keys /\ ShapeOf(a, h[p].then, h[p].data, h[p].op)
  BY RequestTypes DEF ShapeOf, Carrying, PopPcs, Reads
<1>7. TypeInv'
  BY <1>2, <1>5, <1>6, MovedTypes
<1> QED
  BY <1>5, <1>7

LEMMA PurgeTypes ==
    ASSUME TypeInv, NEW k \in Keys, NEW g, DeleteIfExpired(k, g), UNCHANGED <<last, lapsed, l1Vars, overlapped>>
    PROVE  StateTypes'
<1>1. meta' \in [Keys -> Nat]
  BY DEF DeleteIfExpired, TypeInv, StateTypes
<1> QED
  BY <1>1 DEF TypeInv, StateTypes, l1Vars

LEMMA LivePurgeMoves ==
    ASSUME TypeInv, NEW p \in Handlers, LivePurge(p)
    PROVE  /\ TypeInv' /\ h[p].pc = "live_purge" /\ UNCHANGED <<last, lapsed, l1Vars, overlapped>>
           /\ DeleteIfExpired(h[p].key, h[p].ver)
           /\ \E a \in {"look", "peek"} : Moved(p, a, h[p].then, h[p].data, h[p].ver)
<1>1. /\ h[p].pc = "live_purge" /\ UNCHANGED <<last, lapsed, l1Vars, overlapped>>
      /\ DeleteIfExpired(h[p].key, h[p].ver)
  BY DEF LivePurge
<1> USE <1>1
<1>2. StateTypes' /\ h[p].key \in Keys
  BY RequestTypes, PurgeTypes
<1> DEFINE a == AfterLive(h[p].op)
<1>3. a \in {"look", "peek"} /\ a \in Labels /\ (a = "peek" => h[p].op # "get")
  BY DEF AfterLive, Labels
<1> USE <1>3
<1>4. Goto(p, a)
  BY DEF LivePurge
<1> HIDE DEF a
<1>5. Moved(p, a, h[p].then, h[p].data, h[p].ver)
  BY <1>4, RequestTypes, GotoMoves
<1>6. ShapeOf(a, h[p].then, h[p].data, h[p].op)
  BY RequestTypes DEF ShapeOf, Carrying, PopPcs, Reads
<1>7. TypeInv'
  BY <1>2, <1>5, <1>6, MovedTypes
<1> QED
  BY <1>5, <1>7

LEMMA FetchMoves ==
    ASSUME TypeInv, NEW p \in Handlers, Fetch(p)
    PROVE  /\ TypeInv' /\ h[p].pc = "fetch" /\ UNCHANGED <<redisVars, l1Vars, overlapped>>
           /\ LET g == meta[h[p].key] IN
              \/ g = 0 /\ Answered(p, 0)
              \/ g # 0 /\ g \in lapsed /\ Moved(p, "fetch_purge", h[p].then, g, g)
              \/ g # 0 /\ g \notin lapsed /\ Answered(p, g)
              \/ g # 0 /\ g \notin lapsed /\ Moved(p, "insert", h[p].then, g, g)
<1>1. h[p].pc = "fetch" /\ UNCHANGED <<redisVars, l1Vars, overlapped>>
  BY DEF Fetch
<1> USE <1>1
<1>2. StateTypes'
  BY DEF TypeInv, StateTypes, redisVars, l1Vars
<1> USE <1>2
<1>3. meta[h[p].key] \in Nat /\ h[p].key \in Keys
  BY RequestTypes
<1> USE <1>3
<1> DEFINE g == meta[h[p].key]
<1>4. CASE g = 0 /\ Answer(p, 0)
  BY <1>4, RequestTypes, AnswerMoves, AnsweredTypes
<1>5. CASE g # 0 /\ g \notin lapsed /\ Answer(p, g)
  BY <1>5, RequestTypes, AnswerMoves, AnsweredTypes
<1>6. CASE g # 0 /\ g \in lapsed /\ h' = [h EXCEPT ![p].pc = "fetch_purge", ![p].data = g, ![p].ver = g]
  <2> USE <1>6
  <2>1. "fetch_purge" \in Labels /\ h \in [Handlers -> Request]
    BY RequestTypes DEF Labels
  <2>2. Moved(p, "fetch_purge", h[p].then, g, g)
    BY <2>1, DataVersionMoves
  <2>3. ShapeOf("fetch_purge", h[p].then, g, h[p].op)
    BY RequestTypes DEF ShapeOf, PopPcs
  <2> QED
    BY <2>2, <2>3, MovedTypes
<1>7. CASE g # 0 /\ g \notin lapsed /\ h' = [h EXCEPT ![p].pc = "insert", ![p].data = g, ![p].ver = g]
  <2> USE <1>7
  <2>1. "insert" \in Labels /\ h \in [Handlers -> Request]
    BY RequestTypes DEF Labels
  <2>2. Moved(p, "insert", h[p].then, g, g)
    BY <2>1, DataVersionMoves
  <2>3. ShapeOf("insert", h[p].then, g, h[p].op)
    BY RequestTypes DEF ShapeOf, PopPcs
  <2> QED
    BY <2>2, <2>3, MovedTypes
<1> QED
  BY <1>4, <1>5, <1>6, <1>7 DEF Fetch

LEMMA FetchPurgeMoves ==
    ASSUME TypeInv, NEW p \in Handlers, FetchPurge(p)
    PROVE  /\ TypeInv' /\ h[p].pc = "fetch_purge" /\ UNCHANGED <<last, lapsed, l1Vars, overlapped>>
           /\ DeleteIfExpired(h[p].key, h[p].ver)
           /\ \/ Answered(p, 0)
              \/ /\ meta[h[p].key] # h[p].ver
                 /\ Moved(p, "insert", h[p].then, h[p].data, h[p].ver)
<1>1. /\ h[p].pc = "fetch_purge" /\ UNCHANGED <<last, lapsed, l1Vars, overlapped>>
      /\ DeleteIfExpired(h[p].key, h[p].ver)
  BY DEF FetchPurge
<1> USE <1>1
<1>2. StateTypes' /\ h[p].key \in Keys
  BY RequestTypes, PurgeTypes
<1>3. CASE Answer(p, 0)
  BY <1>2, <1>3, RequestTypes, AnswerMoves, AnsweredTypes
<1>4. CASE meta[h[p].key] # h[p].ver /\ Goto(p, "insert")
  <2>1. "insert" \in Labels /\ h \in [Handlers -> Request]
    BY RequestTypes DEF Labels
  <2>2. Moved(p, "insert", h[p].then, h[p].data, h[p].ver)
    BY <1>4, <2>1, GotoMoves
  <2>3. ShapeOf("insert", h[p].then, h[p].data, h[p].op)
    BY RequestTypes DEF ShapeOf, Carrying, PopPcs
  <2> QED
    BY <1>2, <1>4, <2>2, <2>3, MovedTypes
<1> QED
  BY <1>3, <1>4 DEF FetchPurge

LEMMA PurgeMoves ==
    ASSUME TypeInv, NEW p \in Handlers, Purge(p)
    PROVE  /\ TypeInv' /\ h[p].pc = "purge" /\ UNCHANGED <<last, lapsed, l1Vars, overlapped>>
           /\ DeleteIfExpired(h[p].key, h[p].ver)
           /\ Answered(p, 0)
<1>1. /\ h[p].pc = "purge" /\ UNCHANGED <<last, lapsed, l1Vars, overlapped>>
      /\ DeleteIfExpired(h[p].key, h[p].ver) /\ Answer(p, 0)
  BY DEF Purge
<1>2. StateTypes'
  BY <1>1, RequestTypes, PurgeTypes
<1> QED
  BY <1>1, <1>2, RequestTypes, AnswerMoves, AnsweredTypes

LEMMA RetireMoves ==
    ASSUME TypeInv, NEW p \in Handlers, Retire(p)
    PROVE  /\ TypeInv' /\ h[p].pc = "retire" /\ UNCHANGED <<last, lapsed, l1Vars, overlapped>>
           /\ meta' = [meta EXCEPT ![h[p].key] = 0]
           /\ Moved(p, "pop_cache", "deleted", h[p].data, h[p].ver)
<1>1. /\ h[p].pc = "retire" /\ UNCHANGED <<last, lapsed, l1Vars, overlapped>>
      /\ meta' = [meta EXCEPT ![h[p].key] = 0] /\ Invalidate(p, "deleted")
  BY DEF Retire
<1> USE <1>1
<1>2. StateTypes'
  BY DEF TypeInv, StateTypes, l1Vars
<1>3. Moved(p, "pop_cache", "deleted", h[p].data, h[p].ver)
  <2>1. "deleted" \in Labels /\ h \in [Handlers -> Request]
    BY RequestTypes DEF Labels
  <2> QED
    BY <2>1, InvalidateMoves
<1>4. h[p].key \in Keys /\ ShapeOf("pop_cache", "deleted", h[p].data, h[p].op)
  BY RequestTypes DEF ShapeOf, Carrying, PopPcs
<1> QED
  BY <1>2, <1>3, <1>4, MovedTypes

LEMMA DeletedMoves ==
    ASSUME TypeInv, NEW p \in Handlers, Deleted(p)
    PROVE  /\ TypeInv' /\ h[p].pc = "deleted" /\ UNCHANGED <<redisVars, l1Vars, overlapped>>
           /\ Answered(p, 0)
<1>1. h[p].pc = "deleted" /\ UNCHANGED <<redisVars, l1Vars, overlapped>> /\ Answer(p, 0)
  BY DEF Deleted
<1>2. StateTypes'
  BY <1>1 DEF TypeInv, StateTypes, redisVars, l1Vars
<1> QED
  BY <1>1, <1>2, RequestTypes, AnswerMoves, AnsweredTypes

(* Steps on a map. *)
LEMMA EntryOf ==
    ASSUME NEW s \in MapSeq, NEW e \in Entries(s)
    PROVE  e \in Entry
BY SMTT(15) DEF Entries, MapSeq

LEMMA HitEntry ==
    ASSUME NEW s \in MapSeq, NEW k, Hits(s, k) # <<>>
    PROVE  Hits(s, k)[1] \in Entries(s) /\ Hits(s, k)[1].key = k
<1>1. PICK i \in 1 .. Len(s) : s[i].key = k /\ Hits(s, k) = <<s[i]>>
  BY SMTT(15), FirstHit
<1>2. s[i] \in Entries(s)
  BY SMTT(15) DEF Entries, MapSeq
<1> QED
  BY SMTT(15), <1>1, <1>2

LEMMA PopMoves ==
    ASSUME TypeInv, NEW p \in Handlers, NEW m \in Maps, Pop(p, m)
    PROVE  /\ TypeInv' /\ h[p].pc = PopLabel(m) /\ h[p].pc \in PopPcs /\ h[p].key \in Keys
           /\ lock[m] = "free" /\ UNCHANGED <<redisVars, lock, overlapped>>
           /\ l1' = [l1 EXCEPT ![m] = Without(l1[m], h[p].key)]
           /\ size' = size - Size[h[p].key] * Len(Hits(l1[m], h[p].key))
           /\ Moved(p, IF m = "cache" THEN "pop_chunks" ELSE h[p].then,
                    h[p].then, h[p].data, h[p].ver)
<1>1. /\ h[p].pc = PopLabel(m) /\ lock[m] = "free" /\ UNCHANGED <<redisVars, lock, overlapped>>
      /\ l1' = [l1 EXCEPT ![m] = Without(l1[m], h[p].key)]
      /\ size' = size - Size[h[p].key] * Len(Hits(l1[m], h[p].key))
      /\ Goto(p, IF m = "cache" THEN "pop_chunks" ELSE h[p].then)
  BY DEF Pop, PopAs
<1> USE <1>1
<1>2. h[p].pc \in PopPcs /\ h[p].key \in Keys
  BY RequestTypes DEF PopLabel, PopPcs
<1> USE <1>2
<1> DEFINE a == IF m = "cache" THEN "pop_chunks" ELSE h[p].then
<1>3. a \in Labels /\ ShapeOf(a, h[p].then, h[p].data, h[p].op)
  BY SMTT(15), RequestTypes DEF ShapeOf, Carrying, PopPcs, Labels
<1>4. Moved(p, a, h[p].then, h[p].data, h[p].ver)
  BY <1>3, RequestTypes, GotoMoves
<1>5. /\ l1[m] \in MapSeq /\ Without(l1[m], h[p].key) \in MapSeq
      /\ Len(Hits(l1[m], h[p].key)) \in Nat /\ Size[h[p].key] \in Nat
  <2>1. l1[m] \in MapSeq
    BY DEF TypeInv, StateTypes
  <2>2. Hits(l1[m], h[p].key) = <<>> \/ \E e : Hits(l1[m], h[p].key) = <<e>>
    BY SMTT(15), <2>1, FirstHit
  <2> QED
    BY <2>1, <2>2, WithoutMap, MemoryAssumption
<1>6. StateTypes'
  <2>1. size' \in Int
    BY SMTT(15), <1>5 DEF TypeInv, StateTypes
  <2> QED
    BY <1>5, <2>1 DEF TypeInv, StateTypes, redisVars
<1>7. TypeInv'
  BY <1>3, <1>4, <1>6, MovedTypes
<1> QED
  BY <1>4, <1>7

LEMMA FitMoves ==
    ASSUME TypeInv, NEW p \in Handlers, Fit(p)
    PROVE  /\ TypeInv' /\ h[p].pc = "fit" /\ UNCHANGED <<redisVars, l1, size, overlapped>>
           /\ h[p].key \in Keys /\ MapOf(h[p].op) \in Maps
           /\ lock[MapOf(h[p].op)] \in {"free", p}
           /\ lock' = [lock EXCEPT ![MapOf(h[p].op)] = p]
           /\ \/ /\ Over(p, MapOf(h[p].op))
                 /\ Moved(p, "evict", h[p].then, h[p].data, h[p].ver)
              \/ /\ ~Over(p, MapOf(h[p].op))
                 /\ Moved(p, "place", h[p].then, h[p].data, h[p].ver)
<1>1. /\ h[p].pc = "fit" /\ UNCHANGED <<redisVars, l1, size, overlapped>>
      /\ lock[MapOf(h[p].op)] \in {"free", p}
      /\ lock' = [lock EXCEPT ![MapOf(h[p].op)] = p]
  BY DEF Fit
<1> USE <1>1
<1>2. h[p].key \in Keys /\ MapOf(h[p].op) \in Maps
  BY RequestTypes DEF MapOf, Maps
<1> USE <1>2
<1>3. StateTypes'
  BY DEF TypeInv, StateTypes, redisVars
<1>4. ASSUME NEW a \in {"evict", "place"}, Goto(p, a)
      PROVE  TypeInv' /\ Moved(p, a, h[p].then, h[p].data, h[p].ver)
  <2>1. a \in Labels /\ ShapeOf(a, h[p].then, h[p].data, h[p].op)
    BY RequestTypes DEF Labels, ShapeOf, Carrying, PopPcs
  <2>2. Moved(p, a, h[p].then, h[p].data, h[p].ver)
    BY <1>4, <2>1, RequestTypes, GotoMoves
  <2> QED
    BY <1>3, <2>1, <2>2, MovedTypes
<1>5. CASE Over(p, MapOf(h[p].op)) /\ Goto(p, "evict")
  BY <1>4, <1>5
<1>6. CASE ~Over(p, MapOf(h[p].op)) /\ Goto(p, "place")
  BY <1>4, <1>6
<1> QED
  BY <1>5, <1>6 DEF Fit

LEMMA EvictMoves ==
    ASSUME TypeInv, EvictionFrees, NEW p \in Handlers, Evict(p)
    PROVE  LET m == MapOf(h[p].op) IN
           /\ TypeInv' /\ h[p].pc = "evict" /\ UNCHANGED <<redisVars, lock, overlapped>>
           /\ h[p].key \in Keys /\ m \in Maps /\ l1[m] # <<>>
           /\ Head(l1[m]) \in Entries(l1[m]) /\ Head(l1[m]).key \in Keys
           /\ l1' = [l1 EXCEPT ![m] = Tail(l1[m])]
           /\ size' = size - Size[Head(l1[m]).key]
           /\ Moved(p, "fit", h[p].then, h[p].data, h[p].ver)
<1> DEFINE m == MapOf(h[p].op)
<1>1. /\ h[p].pc = "evict" /\ UNCHANGED <<redisVars, lock, overlapped>>
      /\ l1' = [l1 EXCEPT ![m] = Tail(l1[m])]
      /\ size' = size - Size[Head(l1[m]).key]
      /\ Goto(p, "fit")
  BY DEF Evict
<1> USE <1>1
<1>2. h[p].key \in Keys /\ m \in Maps /\ l1[m] # <<>>
  BY RequestTypes DEF MapOf, Maps, EvictionFrees
<1> USE <1>2
<1>3. l1[m] \in MapSeq /\ Tail(l1[m]) \in MapSeq /\ Head(l1[m]) \in Entries(l1[m])
  <2>1. l1[m] \in MapSeq
    BY DEF TypeInv, StateTypes
  <2> QED
    BY <2>1, TailMap
<1> USE <1>3
<1>4. Head(l1[m]).key \in Keys
  BY EntryOf DEF Entry
<1> HIDE DEF m
<1>5. StateTypes'
  <2>1. size' \in Int
    BY SMTT(15), <1>4, MemoryAssumption DEF TypeInv, StateTypes
  <2>2. l1' \in [Maps -> MapSeq]
    BY DEF TypeInv, StateTypes
  <2> QED
    BY <2>1, <2>2 DEF TypeInv, StateTypes, redisVars
<1>6. "fit" \in Labels /\ ShapeOf("fit", h[p].then, h[p].data, h[p].op)
  BY RequestTypes DEF Labels, ShapeOf, Carrying, PopPcs
<1>7. Moved(p, "fit", h[p].then, h[p].data, h[p].ver)
  BY <1>6, RequestTypes, GotoMoves
<1>8. TypeInv'
  BY <1>5, <1>6, <1>7, MovedTypes
<1> QED
  BY <1>4, <1>7, <1>8 DEF m

NewEntry(p) == [key |-> h[p].key, data |-> h[p].data, meta |-> h[p].ver]

LEMMA PlaceMoves ==
    ASSUME TypeInv, NEW p \in Handlers, Place(p)
    PROVE  LET m == MapOf(h[p].op) IN
           /\ TypeInv' /\ h[p].pc = "place" /\ UNCHANGED <<redisVars, overlapped>>
           /\ h[p].key \in Keys /\ m \in Maps /\ NewEntry(p) \in Entry
           /\ \A e \in Entries(Without(l1[m], h[p].key)) : e.key # NewEntry(p).key
           /\ l1' = [l1 EXCEPT ![m] = Append(Without(l1[m], h[p].key), NewEntry(p))]
           /\ size' = size - Size[h[p].key] * Len(Hits(l1[m], h[p].key)) + Size[h[p].key]
           /\ lock' = [lock EXCEPT ![m] = "free"]
           /\ Answered(p, h[p].data)
<1> DEFINE m == MapOf(h[p].op)
           k == h[p].key
<1>1. /\ h[p].pc = "place" /\ UNCHANGED <<redisVars, overlapped>>
      /\ l1' = [l1 EXCEPT ![m] = Append(Without(l1[m], k), NewEntry(p))]
      /\ size' = size - Size[k] * Len(Hits(l1[m], k)) + Size[k]
      /\ lock' = [lock EXCEPT ![m] = "free"]
      /\ Answer(p, h[p].data)
  BY DEF Place, NewEntry
<1> USE <1>1
<1>2. k \in Keys /\ m \in Maps
  BY RequestTypes DEF MapOf, Maps
<1> USE <1>2
<1>3. NewEntry(p) \in Entry /\ NewEntry(p).key = k
  BY RequestTypes DEF NewEntry, Entry, Generation, ShapeOf, Carrying
<1> USE <1>3
<1>4. /\ l1[m] \in MapSeq /\ Without(l1[m], k) \in MapSeq
      /\ \A e \in Entries(Without(l1[m], k)) : e.key # NewEntry(p).key
  <2>1. l1[m] \in MapSeq
    BY DEF TypeInv, StateTypes
  <2> QED
    BY SMTT(15), <2>1, WithoutMap
<1> USE <1>4
<1>5. Append(Without(l1[m], k), NewEntry(p)) \in MapSeq
  BY AppendMap
<1>6. Len(Hits(l1[m], k)) \in Nat /\ Size[k] \in Nat
  <2>1. Hits(l1[m], k) = <<>> \/ \E e : Hits(l1[m], k) = <<e>>
    BY SMTT(15), FirstHit
  <2> QED
    BY <2>1, MemoryAssumption
<1> HIDE DEF m, k
<1>7. StateTypes'
  <2>1. size' \in Int
    BY SMTT(15), <1>6 DEF TypeInv, StateTypes
  <2>2. l1' \in [Maps -> MapSeq]
    BY <1>5 DEF TypeInv, StateTypes
  <2> QED
    BY <2>1, <2>2 DEF TypeInv, StateTypes, redisVars
<1>8. Answered(p, h[p].data)
  BY RequestTypes, AnswerMoves
<1>9. TypeInv'
  BY <1>7, <1>8, AnsweredTypes
<1> QED
  BY <1>8, <1>9 DEF m, k

(* A lookup that hits reorders the map and leaves its entries as they are. *)
Touched(m) ==
    /\ l1' \in [Maps -> MapSeq]
    /\ \A n \in Maps : Entries(l1'[n]) = Entries(l1[n]) /\ (n # m => l1'[n] = l1[n])

LEMMA TouchKeeps ==
    ASSUME l1 \in [Maps -> MapSeq], NEW m \in Maps, NEW k, Touch(m, k)
    PROVE  Touched(m)
<1> DEFINE t == Recent(l1[m], k)
<1>1. l1[m] \in MapSeq /\ t \in MapSeq /\ Entries(t) = Entries(l1[m])
  BY TouchMap
<1>2. l1' = [l1 EXCEPT ![m] = t]
  BY DEF Touch
<1> HIDE DEF t
<1> QED
  BY <1>1, <1>2 DEF Touched

LEMMA PeekMoves ==
    ASSUME TypeInv, NEW p \in Handlers, Peek(p)
    PROVE  /\ TypeInv' /\ h[p].pc = "peek" /\ UNCHANGED <<redisVars, size, lock, overlapped>>
           /\ lock["chunks"] = "free" /\ Touched("chunks")
           /\ \/ \E e \in Entries(l1["chunks"]) : e.key = h[p].key /\ Answered(p, e.data)
              \/ Moved(p, "look", h[p].then, h[p].data, h[p].ver)
<1> DEFINE hit == Hits(l1["chunks"], h[p].key)
<1>1. /\ h[p].pc = "peek" /\ UNCHANGED <<redisVars, size, lock, overlapped>>
      /\ lock["chunks"] = "free" /\ Touch("chunks", h[p].key)
      /\ IF hit # <<>> THEN Answer(p, hit[1].data) ELSE Goto(p, "look")
  BY DEF Peek
<1> USE <1>1
<1>2. Touched("chunks") /\ l1["chunks"] \in MapSeq
  BY TouchKeeps DEF TypeInv, StateTypes, Maps
<1> USE <1>2
<1>3. StateTypes'
  BY DEF TypeInv, StateTypes, redisVars, Touched
<1>4. CASE hit # <<>> /\ Answer(p, hit[1].data)
  <2>1. hit[1] \in Entries(l1["chunks"]) /\ hit[1].key = h[p].key
    BY <1>4, HitEntry
  <2>2. Answered(p, hit[1].data)
    BY <1>4, RequestTypes, AnswerMoves
  <2>3. TypeInv'
    BY <1>3, <2>2, AnsweredTypes
  <2> HIDE DEF hit
  <2> QED
    BY <2>1, <2>2, <2>3
<1>5. CASE Goto(p, "look")
  <2>1. "look" \in Labels /\ h \in [Handlers -> Request]
    BY RequestTypes DEF Labels
  <2>2. Moved(p, "look", h[p].then, h[p].data, h[p].ver)
    BY <1>5, <2>1, GotoMoves
  <2>3. h[p].key \in Keys /\ ShapeOf("look", h[p].then, h[p].data, h[p].op)
    BY RequestTypes DEF ShapeOf, Carrying, PopPcs, Reads
  <2>4. TypeInv'
    BY <1>3, <2>2, <2>3, MovedTypes
  <2> QED
    BY <2>2, <2>4
<1> QED
  BY <1>4, <1>5

LEMMA LookupMoves ==
    ASSUME TypeInv, NEW p \in Handlers, NEW m \in Maps, NEW a \in {"look_chunks", "fetch"},
           h[p].pc \in {"look", "look_chunks"}, Lookup(p, m, a)
    PROVE  /\ TypeInv' /\ UNCHANGED <<redisVars, size, lock, overlapped>>
           /\ lock[m] = "free" /\ Touched(m)
           /\ \/ Moved(p, a, h[p].then, h[p].data, h[p].ver)
              \/ \E e \in Entries(l1[m]) :
                    /\ e.key = h[p].key /\ Expired(e)
                    /\ Moved(p, "pop_cache", "purge", h[p].data, e.meta)
              \/ \E e \in Entries(l1[m]) : e.key = h[p].key /\ ~Expired(e) /\ Answered(p, e.data)
<1> DEFINE hit == Hits(l1[m], h[p].key)
<1>1. /\ UNCHANGED <<redisVars, size, lock, overlapped>>
      /\ lock[m] = "free" /\ Touch(m, h[p].key)
  BY DEF Lookup
<1> USE <1>1
<1>2. Touched(m) /\ l1[m] \in MapSeq
  BY TouchKeeps DEF TypeInv, StateTypes
<1> USE <1>2
<1>3. StateTypes' /\ h[p].key \in Keys
  <2>1. StateTypes'
    BY DEF TypeInv, StateTypes, redisVars, Touched
  <2> QED
    BY <2>1, RequestTypes
<1> USE <1>3
<1>4. CASE Goto(p, a)
  <2>1. a \in Labels /\ ShapeOf(a, h[p].then, h[p].data, h[p].op)
    BY RequestTypes DEF Labels, ShapeOf, Carrying, PopPcs
  <2>2. Moved(p, a, h[p].then, h[p].data, h[p].ver)
    BY <1>4, <2>1, RequestTypes, GotoMoves
  <2>3. TypeInv'
    BY <2>1, <2>2, MovedTypes
  <2> QED
    BY <2>2, <2>3
<1>5. ASSUME hit # <<>>
      PROVE  hit[1] \in Entries(l1[m]) /\ hit[1].key = h[p].key /\ hit[1].meta \in Nat
  <2>1. hit[1] \in Entries(l1[m]) /\ hit[1].key = h[p].key
    BY <1>5, HitEntry
  <2> QED
    BY <2>1, EntryOf DEF Entry
<1> USE <1>5
<1>6. CASE /\ hit # <<>> /\ Expired(hit[1])
           /\ h' = [h EXCEPT ![p].pc = "pop_cache", ![p].then = "purge", ![p].ver = hit[1].meta]
  <2>1. "purge" \in Labels /\ ShapeOf("pop_cache", "purge", h[p].data, h[p].op)
    BY RequestTypes DEF Labels, ShapeOf, Carrying, PopPcs
  <2> HIDE DEF hit
  <2>2. Moved(p, "pop_cache", "purge", h[p].data, hit[1].meta)
    BY <1>6, <2>1, RequestTypes, ThenVersionMoves
  <2>3. TypeInv'
    BY <2>1, <2>2, MovedTypes
  <2> QED
    BY <1>6, <2>2, <2>3
<1>7. CASE hit # <<>> /\ ~Expired(hit[1]) /\ Answer(p, hit[1].data)
  <2> HIDE DEF hit
  <2>2. Answered(p, hit[1].data)
    BY <1>7, RequestTypes, AnswerMoves
  <2>3. TypeInv'
    BY <2>2, AnsweredTypes
  <2> QED
    BY <1>7, <2>2, <2>3
<1> QED
  BY <1>4, <1>6, <1>7 DEF Lookup

LEMMA LookMoves ==
    ASSUME NEW p \in Handlers, Look(p) \/ LookChunks(p)
    PROVE  /\ h[p].pc \in {"look", "look_chunks"}
           /\ \E m \in Maps, a \in {"look_chunks", "fetch"} : Lookup(p, m, a)
BY DEF Look, LookChunks, MapOf, Maps

(* What the two lookups and the two halves of a backend fetch leave alone,   *)
(* and where they lead.                                                      *)
LEMMA LookEnds ==
    ASSUME TypeInv, NEW p \in Handlers, Look(p) \/ LookChunks(p)
    PROVE  /\ TypeInv' /\ UNCHANGED <<size, lock>>
           /\ \E m \in Maps : lock[m] = "free" /\ Touched(m)
           /\ \A q \in Handlers \ {p} : h'[q] = h[q]
           /\ h'[p].pc \in {"idle", "look_chunks", "fetch", "pop_cache"}
           /\ h'[p].pc = "pop_cache" => h'[p].then = "purge"
<1>1. PICK m \in Maps : \E a \in {"look_chunks", "fetch"} : Lookup(p, m, a)
  BY LookMoves
<1>2. PICK a \in {"look_chunks", "fetch"} : Lookup(p, m, a)
  BY <1>1
<1>3. /\ TypeInv' /\ UNCHANGED <<size, lock>> /\ lock[m] = "free" /\ Touched(m)
      /\ \/ Moved(p, a, h[p].then, h[p].data, h[p].ver)
         \/ \E v : Moved(p, "pop_cache", "purge", h[p].data, v)
         \/ \E g : Answered(p, g)
  BY <1>2, LookMoves, LookupMoves
<1>4. CASE Moved(p, a, h[p].then, h[p].data, h[p].ver)
  BY <1>3, <1>4 DEF Moved
<1>5. CASE \E v : Moved(p, "pop_cache", "purge", h[p].data, v)
  BY <1>3, <1>5 DEF Moved
<1>6. CASE \E g : Answered(p, g)
  BY <1>3, <1>6 DEF Answered
<1> QED
  BY <1>3, <1>4, <1>5, <1>6

LEMMA FetchEnds ==
    ASSUME TypeInv, NEW p \in Handlers, Fetch(p) \/ FetchPurge(p)
    PROVE  /\ TypeInv' /\ UNCHANGED l1Vars
           /\ \A q \in Handlers \ {p} : h'[q] = h[q]
           /\ h'[p].pc \in {"idle", "fetch_purge", "insert"}
<1>1. /\ TypeInv' /\ UNCHANGED l1Vars
      /\ \/ \E g : Answered(p, g)
         \/ \E b, d, v : Moved(p, "fetch_purge", b, d, v)
         \/ \E b, d, v : Moved(p, "insert", b, d, v)
  <2>1. CASE Fetch(p)
    BY <2>1, FetchMoves
  <2>2. CASE FetchPurge(p)
    BY <2>2, FetchPurgeMoves
  <2> QED
    BY <2>1, <2>2
<1> QED
  BY <1>1 DEF Answered, Moved

-----------------------------------------------------------------------------
(* The lock of a map, and the eviction loop. *)

(* A request holds the map's lock from the loop condition to the pop or the  *)
(* insert.                                                                   *)
LockInv ==
    /\ \A p \in Handlers : h[p].pc \in {"evict", "place"} => lock[MapOf(h[p].op)] = p
    /\ EvictionFrees

(* A step in map m, which request p holds or nobody, disturbs no request     *)
(* that is between the loop condition and the insert.                        *)
UndisturbedBy(p) ==
    \A q \in Handlers \ {p} : h[q].pc \in {"evict", "place"} =>
        LET m == MapOf(h[q].op) IN l1'[m] = l1[m] /\ lock'[m] = lock[m]

LEMMA OthersHold ==
    ASSUME LockInv, NEW p \in Handlers, NEW m \in Maps, lock[m] \in {"free", p},
           \A n \in Maps \ {m} : l1'[n] = l1[n] /\ lock'[n] = lock[n]
    PROVE  UndisturbedBy(p)
<1> SUFFICES ASSUME NEW q \in Handlers \ {p}, h[q].pc \in {"evict", "place"}
             PROVE  LET n == MapOf(h[q].op) IN l1'[n] = l1[n] /\ lock'[n] = lock[n]
  BY DEF UndisturbedBy
<1>1. MapOf(h[q].op) # m
  BY SMTT(15), MemoryAssumption DEF LockInv
<1>2. MapOf(h[q].op) \in Maps
  BY DEF MapOf, Maps
<1> QED
  BY <1>1, <1>2

LEMMA LockStep ==
    ASSUME LockInv, NEW p \in Handlers, \A q \in Handlers \ {p} : h'[q] = h[q], UndisturbedBy(p),
           h'[p].pc \in {"evict", "place"} => lock'[MapOf(h'[p].op)] = p,
           h'[p].pc = "evict" => l1'[MapOf(h'[p].op)] # <<>>
    PROVE  LockInv'
<1> SUFFICES ASSUME NEW q \in Handlers
             PROVE  /\ h'[q].pc \in {"evict", "place"} => lock'[MapOf(h'[q].op)] = q
                    /\ h'[q].pc = "evict" => l1'[MapOf(h'[q].op)] # <<>>
  BY DEF LockInv, EvictionFrees
<1>1. CASE q = p
  BY <1>1
<1>2. CASE q # p
  BY SMTT(15), <1>2 DEF LockInv, EvictionFrees, UndisturbedBy
<1> QED
  BY <1>1, <1>2

LEMMA QuietLock ==
    ASSUME LockInv, NEW p \in Handlers, UNCHANGED l1Vars,
           \A q \in Handlers \ {p} : h'[q] = h[q], h'[p].pc \notin {"evict", "place"}
    PROVE  LockInv'
BY LockStep DEF l1Vars, UndisturbedBy

LEMMA TouchLock ==
    ASSUME LockInv, NEW p \in Handlers, NEW m \in Maps, lock[m] = "free", Touched(m), lock' = lock,
           \A q \in Handlers \ {p} : h'[q] = h[q], h'[p].pc \notin {"evict", "place"}
    PROVE  LockInv' /\ UndisturbedBy(p)
BY OthersHold, LockStep DEF Touched

LEMMA AnsweredLock ==
    ASSUME LockInv, NEW p \in Handlers, NEW g, Answered(p, g), UNCHANGED l1Vars
    PROVE  LockInv'
BY QuietLock DEF Answered

LEMMA MovedLock ==
    ASSUME LockInv, NEW p \in Handlers, NEW a, NEW b, NEW d, NEW v, Moved(p, a, b, d, v),
           a \notin {"evict", "place"}, UNCHANGED l1Vars
    PROVE  LockInv'
BY QuietLock DEF Moved

(* The four steps that work in a map. *)
LEMMA PopLock ==
    ASSUME TypeInv, LockInv, NEW p \in Handlers, NEW m \in Maps, Pop(p, m)
    PROVE  LockInv' /\ UndisturbedBy(p)
<1>1. /\ lock[m] = "free" /\ lock' = lock /\ h[p].pc \in PopPcs
      /\ l1' = [l1 EXCEPT ![m] = Without(l1[m], h[p].key)]
      /\ Moved(p, IF m = "cache" THEN "pop_chunks" ELSE h[p].then, h[p].then, h[p].data, h[p].ver)
  BY PopMoves
<1> USE <1>1
<1>2. UndisturbedBy(p)
  BY OthersHold DEF TypeInv, StateTypes
<1>3. h'[p].pc \notin {"evict", "place"}
  BY RequestTypes DEF ShapeOf, Moved
<1> QED
  BY <1>2, <1>3, LockStep DEF Moved

LEMMA FitLock ==
    ASSUME TypeInv, LockInv, NEW p \in Handlers, Fit(p)
    PROVE  LockInv' /\ UndisturbedBy(p)
<1> DEFINE m == MapOf(h[p].op)
<1>1. /\ l1' = l1 /\ m \in Maps /\ lock[m] \in {"free", p}
      /\ lock' = [lock EXCEPT ![m] = p] /\ lock'[m] = p
  BY SMTT(15), FitMoves DEF TypeInv, StateTypes
<1> USE <1>1
<1>2. UndisturbedBy(p)
  BY OthersHold DEF TypeInv, StateTypes
<1>3. CASE Over(p, m) /\ Moved(p, "evict", h[p].then, h[p].data, h[p].ver)
  <2>1. l1[m] # <<>>
    BY <1>3 DEF Over
  <2> QED
    BY <1>2, <1>3, <2>1, LockStep DEF Moved
<1>4. CASE ~Over(p, m) /\ Moved(p, "place", h[p].then, h[p].data, h[p].ver)
  BY <1>2, <1>4, LockStep DEF Moved
<1> QED
  BY <1>3, <1>4, FitMoves

LEMMA EvictLock ==
    ASSUME TypeInv, LockInv, NEW p \in Handlers, Evict(p)
    PROVE  LockInv' /\ UndisturbedBy(p)
<1> DEFINE m == MapOf(h[p].op)
<1>1. EvictionFrees
  BY DEF LockInv
<1>2. /\ h[p].pc = "evict" /\ lock' = lock /\ m \in Maps
      /\ l1' = [l1 EXCEPT ![m] = Tail(l1[m])]
      /\ Moved(p, "fit", h[p].then, h[p].data, h[p].ver)
  BY <1>1, EvictMoves
<1> USE <1>2
<1>3. lock[m] = p
  BY DEF LockInv
<1>4. UndisturbedBy(p)
  BY <1>3, OthersHold DEF TypeInv, StateTypes
<1> QED
  BY <1>4, LockStep DEF Moved

LEMMA PlaceLock ==
    ASSUME TypeInv, LockInv, NEW p \in Handlers, Place(p)
    PROVE  LockInv' /\ UndisturbedBy(p)
<1> DEFINE m == MapOf(h[p].op)
<1>1. /\ h[p].pc = "place" /\ lock' = [lock EXCEPT ![m] = "free"] /\ m \in Maps
      /\ l1' = [l1 EXCEPT ![m] = Append(Without(l1[m], h[p].key), NewEntry(p))]
      /\ Answered(p, h[p].data)
  BY PlaceMoves
<1> USE <1>1
<1>2. lock[m] = p
  BY DEF LockInv
<1>3. UndisturbedBy(p)
  BY <1>2, OthersHold DEF TypeInv, StateTypes
<1> QED
  BY <1>3, LockStep DEF Answered

LoopInv == TypeInv /\ LockInv

LEMMA InitLoop ==
    Init => LoopInv
<1> SUFFICES ASSUME Init PROVE LoopInv
  OBVIOUS
<1>1. <<>> \in MapSeq
  BY SMTT(15) DEF MapSeq, Unique
<1>2. NoRequest \in Request
  BY DEF NoRequest, Request, Labels, Verdicts
<1>3. StateTypes
  <2>1. l1 \in [Maps -> MapSeq] /\ meta \in [Keys -> Nat] /\ lock \in [Maps -> Handlers \cup {"free"}]
    BY <1>1 DEF Init
  <2>2. last \in Nat /\ size \in Int
    BY SMTT(15) DEF Init
  <2>3. lapsed \in SUBSET Generation /\ overlapped \in BOOLEAN
    BY DEF Init
  <2> QED
    BY <2>1, <2>2, <2>3 DEF StateTypes
<1>4. \A p \in Handlers : h[p] \in Request /\ h[p].pc = "idle" /\ Shape(p)
  BY <1>2 DEF Init, NoRequest, Shape, ShapeOf, Carrying, PopPcs, Active
<1>5. TypeInv
  BY <1>2, <1>3, <1>4 DEF Init, TypeInv
<1> QED
  BY <1>4, <1>5 DEF LoopInv, LockInv, EvictionFrees

LEMMA LoopStep ==
    LoopInv /\ [Next]_vars => LoopInv'
<1> SUFFICES ASSUME LoopInv, [Next]_vars PROVE LoopInv'
  OBVIOUS
<1>0. TypeInv /\ LockInv
  BY DEF LoopInv
<1> USE <1>0
<1>1. CASE UNCHANGED vars
  BY <1>1 DEF LoopInv, vars, TypeInv, StateTypes, Shape, Active, LockInv, EvictionFrees
<1>2. ASSUME NEW g \in TtlGens, TtlPasses(g) PROVE LoopInv'
  <2>1. TypeInv'
    BY <1>2, TtlTypes
  <2>2. LockInv'
    BY <1>2 DEF TtlPasses, l1Vars, LockInv, EvictionFrees
  <2> QED
    BY <2>1, <2>2 DEF LoopInv
<1>3. ASSUME NEW p \in Handlers, NEW op \in Ops, NEW k \in Keys, Begin(p, op, k) PROVE LoopInv'
  <2>1. TypeInv' /\ Started(p, op, k) /\ UNCHANGED l1Vars
    BY <1>3, BeginTypes, BeginMoves DEF Begin, TypeInv
  <2>2. LockInv'
    BY <2>1, QuietLock DEF Started
  <2> QED
    BY <2>1, <2>2 DEF LoopInv
<1>4. ASSUME NEW p \in Handlers, Step(p) PROVE LoopInv'
  <2>1. CASE Store(p)
    BY SMTT(15), <2>1, StoreMoves, AnsweredLock, MovedLock DEF LoopInv, PopPcs
  <2>2. CASE Reread(p)
    BY SMTT(15), <2>2, RereadMoves, MovedLock DEF LoopInv
  <2>3. ASSUME NEW m \in Maps, Pop(p, m) PROVE LoopInv'
    BY <2>3, PopMoves, PopLock DEF LoopInv
  <2>4. CASE Insert(p)
    BY SMTT(15), <2>4, InsertMoves, AnsweredLock, MovedLock DEF LoopInv
  <2>5. CASE Fit(p)
    BY <2>5, FitMoves, FitLock DEF LoopInv
  <2>6. CASE Evict(p)
    BY <2>6, EvictMoves, EvictLock DEF LoopInv, LockInv
  <2>7. CASE Place(p)
    BY <2>7, PlaceMoves, PlaceLock DEF LoopInv
  <2>8. CASE Live(p)
    BY <2>8, LiveMoves, MovedLock DEF LoopInv, PopPcs
  <2>9. CASE LivePurge(p)
    BY <2>9, LivePurgeMoves, MovedLock DEF LoopInv, PopPcs
  <2>10. CASE Peek(p)
    <3>1. TypeInv' /\ lock["chunks"] = "free" /\ Touched("chunks") /\ UNCHANGED <<size, lock>>
      BY <2>10, PeekMoves
    <3>2. /\ \A q \in Handlers \ {p} : h'[q] = h[q]
          /\ h'[p].pc \in {"idle", "look"}
      BY <2>10, PeekMoves DEF Answered, Moved
    <3> QED
      BY <3>1, <3>2, TouchLock DEF LoopInv, PopPcs, Maps
  <2>11. CASE Look(p) \/ LookChunks(p)
    <3> USE LookEnds
    <3>1. PICK m \in Maps : lock[m] = "free" /\ Touched(m)
      BY <2>11
    <3> QED
      BY <2>11, <3>1, TouchLock DEF LoopInv
  <2>12. CASE Fetch(p) \/ FetchPurge(p)
    BY <2>12, FetchEnds, QuietLock DEF LoopInv
  <2>14. CASE Purge(p)
    BY <2>14, PurgeMoves, AnsweredLock DEF LoopInv
  <2>15. CASE Retire(p)
    BY SMTT(15), <2>15, RetireMoves, MovedLock DEF LoopInv
  <2>16. CASE Deleted(p)
    BY <2>16, DeletedMoves, AnsweredLock DEF LoopInv
  <2> QED
    BY ZenonT(40), <1>4, <2>1, <2>2, <2>3, <2>4, <2>5, <2>6, <2>7, <2>8, <2>9, <2>10, <2>11, <2>12, <2>14,
       <2>15, <2>16 DEF Step
<1> QED
  BY <1>1, <1>2, <1>3, <1>4 DEF Next

LEMMA LoopAlways ==
    Spec => []LoopInv
BY InitLoop, LoopStep, PTL DEF Spec

(* The entry that the loop condition saw is still there when it is popped.   *)
THEOREM EvictionEnds ==
    Spec => []EvictionFrees
<1>1. LoopInv => EvictionFrees
  BY DEF LoopInv, LockInv
<1> QED
  BY <1>1, LoopAlways, PTL

(* Only delete_if_expired, with a generation that has expired, and DELETE    *)
(* take a key's metadata away: a read's purge never removes a newer PUT.     *)
THEOREM OnlyExpiredGo ==
    Spec => OnlyExpiredPurged
<1> DEFINE Kept == \A k \in Keys : meta[k] # 0 /\ meta'[k] = 0 =>
                      \/ meta[k] \in lapsed
                      \/ \E p \in Handlers : h[p].pc = "retire" /\ h[p].key = k /\ h'[p] # h[p]
<1>1. LoopInv /\ [Next]_vars => [Kept]_vars
  <2> SUFFICES ASSUME LoopInv, Next PROVE Kept
    OBVIOUS
  <2>1. TypeInv
    BY DEF LoopInv
  <2>2. CASE meta' = meta
    BY <2>2
  <2>3. ASSUME NEW k, NEW g, DeleteIfExpired(k, g) PROVE Kept
    BY <2>1, <2>3 DEF DeleteIfExpired, TypeInv, StateTypes
  <2>4. ASSUME NEW p \in Handlers, Store(p) PROVE Kept
    <3>1. CASE meta' = [meta EXCEPT ![h[p].key] = last + 1]
      BY SMTT(15), <2>1, <3>1 DEF TypeInv, StateTypes
    <3> QED
      BY <2>2, <2>4, <3>1 DEF Store
  <2>5. ASSUME NEW p \in Handlers, Retire(p) PROVE Kept
    <3>1. h[p].pc = "retire" /\ h'[p].pc = "pop_cache" /\ meta' = [meta EXCEPT ![h[p].key] = 0]
      BY <2>1, <2>5, RetireMoves DEF Moved
    <3>2. h'[p] # h[p]
      BY <3>1
    <3> QED
      BY <2>1, <3>1, <3>2 DEF TypeInv, StateTypes
  <2>6. ASSUME NEW p \in Handlers, Step(p), ~Store(p), ~Retire(p) PROVE Kept
    <3>1. CASE LivePurge(p) \/ FetchPurge(p) \/ Purge(p)
      BY <2>3, <3>1 DEF LivePurge, FetchPurge, Purge
    <3>2. CASE ~(LivePurge(p) \/ FetchPurge(p) \/ Purge(p))
      <4>1. meta' = meta
        BY <2>6, <3>2 DEF Step, redisVars, Reread, Pop, PopAs, Insert, Fit, Evict, Place, Live, Peek,
                          Look, LookChunks, Lookup, Fetch, Deleted
      <4> QED
        BY <2>2, <4>1
    <3> QED
      BY <3>1, <3>2
  <2>7. ASSUME NEW p \in Handlers, NEW op \in Ops, NEW k \in Keys, Begin(p, op, k) PROVE Kept
    BY <2>2, <2>7 DEF Begin, redisVars
  <2>8. ASSUME NEW g \in TtlGens, TtlPasses(g) PROVE Kept
    BY <2>2, <2>8 DEF TtlPasses
  <2> QED
    BY <2>4, <2>5, <2>6, <2>7, <2>8 DEF Next
<1>2. Spec => [][Kept]_vars
  BY <1>1, LoopAlways, PTL DEF Spec
<1> QED
  BY <1>2 DEF OnlyExpiredPurged

-----------------------------------------------------------------------------
(* The bytes a map holds. *)

KeyBytes(k) == {k} \X (1 .. Size[k])
Finite(s) == IsFiniteSet(Held(s)) /\ Cardinality(Held(s)) \in Nat

LEMMA KeyBytesCount ==
    ASSUME NEW k \in Keys
    PROVE  IsFiniteSet(KeyBytes(k)) /\ Cardinality(KeyBytes(k)) = Size[k]
<1>1. Size[k] \in Nat
  BY MemoryAssumption
<1>2. IsFiniteSet(1 .. Size[k]) /\ Cardinality(1 .. Size[k]) = Size[k]
  <2>1. IsFiniteSet(1 .. Size[k])
    BY SMTT(15), <1>1, FS_Interval
  <2>2. Cardinality(1 .. Size[k]) = IF 1 > Size[k] THEN 0 ELSE Size[k] - 1 + 1
    BY SMTT(15), <1>1, FS_Interval
  <2> QED
    BY SMTT(15), <1>1, <2>1, <2>2
<1>3. IsFiniteSet({k}) /\ Cardinality({k}) = 1
  BY FS_Singleton
<1>4. IsFiniteSet(KeyBytes(k)) /\ Cardinality(KeyBytes(k)) = 1 * Size[k]
  BY ZenonT(60), <1>2, <1>3, FS_Product DEF KeyBytes
<1> QED
  BY SMTT(15), <1>1, <1>4

LEMMA HeldEntries ==
    ASSUME NEW s \in MapSeq, NEW x
    PROVE  x \in Held(s) <=> \E e \in Entries(s) : x \in KeyBytes(e.key)
BY DEF Held, Entries, KeyBytes

(* A map t that is s without the entry of key k holds k's bytes fewer. *)
LEMMA HeldSplit ==
    ASSUME NEW s \in MapSeq, NEW t \in MapSeq, NEW k \in Keys, Finite(s),
           Entries(t) = {e \in Entries(s) : e.key # k}
    PROVE  /\ Finite(t)
           /\ (\E e \in Entries(s) : e.key = k) =>
                 Cardinality(Held(s)) = Cardinality(Held(t)) + Size[k]
<1>1. Held(t) \in SUBSET Held(s)
  BY HeldEntries
<1>2. Finite(t)
  BY <1>1, FS_Subset, FS_CardinalityType DEF Finite
<1> USE <1>2
<1>3. ASSUME \E e \in Entries(s) : e.key = k
      PROVE  Cardinality(Held(s)) = Cardinality(Held(t)) + Size[k]
  <2>1. Held(s) = Held(t) \cup KeyBytes(k)
    BY <1>3, HeldEntries
  <2>2. Held(t) \cap KeyBytes(k) = {}
    BY SMTT(15), HeldEntries DEF KeyBytes
  <2>3. Cardinality(Held(t) \cup KeyBytes(k)) =
           Cardinality(Held(t)) + Cardinality(KeyBytes(k)) - Cardinality(Held(t) \cap KeyBytes(k))
    BY KeyBytesCount, FS_Union DEF Finite
  <2>4. Cardinality(Held(t) \cap KeyBytes(k)) = 0
    BY <2>2, FS_EmptySet
  <2>5. Cardinality(Held(t)) \in Nat /\ Size[k] \in Nat /\ Cardinality(KeyBytes(k)) = Size[k]
    BY KeyBytesCount, MemoryAssumption DEF Finite
  <2> QED
    BY SMTT(15), <2>1, <2>3, <2>4, <2>5
<1> QED
  BY <1>3

LEMMA HeldSame ==
    ASSUME NEW s \in MapSeq, NEW t \in MapSeq, Entries(t) = Entries(s)
    PROVE  Held(t) = Held(s)
BY HeldEntries

LEMMA HeldWithout ==
    ASSUME NEW s \in MapSeq, NEW k \in Keys, Finite(s)
    PROVE  /\ Finite(Without(s, k))
           /\ Len(Hits(s, k)) \in {0, 1}
           /\ Cardinality(Held(s)) =
                 Cardinality(Held(Without(s, k))) + Size[k] * Len(Hits(s, k))
<1>1. /\ Without(s, k) \in MapSeq
      /\ Entries(Without(s, k)) = {e \in Entries(s) : e.key # k}
  BY WithoutMap
<1>2. /\ Finite(Without(s, k))
      /\ (\E e \in Entries(s) : e.key = k) =>
            Cardinality(Held(s)) = Cardinality(Held(Without(s, k))) + Size[k]
  BY <1>1, HeldSplit
<1> USE <1>2
<1>3. Size[k] \in Nat /\ Cardinality(Held(s)) \in Nat /\ Cardinality(Held(Without(s, k))) \in Nat
  BY MemoryAssumption DEF Finite
<1>4. CASE Hits(s, k) = <<>> /\ Without(s, k) = s
  <2>1. Len(Hits(s, k)) = 0
    BY SMTT(15), <1>4
  <2> QED
    BY SMTT(15), <1>3, <1>4, <2>1
<1>5. ASSUME NEW i \in 1 .. Len(s), s[i].key = k, Hits(s, k) = <<s[i]>>
      PROVE  /\ Len(Hits(s, k)) \in {0, 1}
             /\ Cardinality(Held(s)) =
                   Cardinality(Held(Without(s, k))) + Size[k] * Len(Hits(s, k))
  <2>1. Len(Hits(s, k)) = 1
    BY <1>5
  <2>2. s[i] \in Entries(s)
    BY SMTT(15) DEF Entries, MapSeq
  <2>3. Cardinality(Held(s)) = Cardinality(Held(Without(s, k))) + Size[k] * 1
    BY SMTT(15), <1>3, <1>5, <2>2
  <2> QED
    BY <2>1, <2>3
<1>6. \/ Hits(s, k) = <<>> /\ Without(s, k) = s
      \/ \E i \in 1 .. Len(s) : s[i].key = k /\ Hits(s, k) = <<s[i]>>
  BY SMTT(15), FirstHit
<1>7. CASE \E i \in 1 .. Len(s) : s[i].key = k /\ Hits(s, k) = <<s[i]>>
  BY <1>5, <1>7
<1> QED
  BY <1>4, <1>6, <1>7

LEMMA HeldAppend ==
    ASSUME NEW s \in MapSeq, NEW e \in Entry, \A x \in Entries(s) : x.key # e.key, Finite(s)
    PROVE  /\ Finite(Append(s, e))
           /\ Cardinality(Held(Append(s, e))) = Cardinality(Held(s)) + Size[e.key]
<1>1. Append(s, e) \in MapSeq /\ Entries(Append(s, e)) = Entries(s) \cup {e} /\ e.key \in Keys
  BY AppendMap DEF Entry
<1> USE <1>1
<1>2. Held(Append(s, e)) = Held(s) \cup KeyBytes(e.key)
  BY HeldEntries
<1>3. IsFiniteSet(KeyBytes(e.key)) /\ IsFiniteSet(Held(s))
  BY KeyBytesCount DEF Finite
<1>4. Finite(Append(s, e))
  BY <1>2, <1>3, FS_Union, FS_CardinalityType DEF Finite
<1>5. Entries(s) = {x \in Entries(Append(s, e)) : x.key # e.key}
  OBVIOUS
<1> QED
  BY <1>4, <1>5, HeldSplit

-----------------------------------------------------------------------------
(* The byte counter and the capacity. *)

Inserting(p) == \/ h[p].pc \in {"fit", "evict", "place"}
                \/ h[p].pc \in PopPcs /\ h[p].then = "fit"

(* At the insert there is room in the map for the entry. *)
CacheInv ==
    /\ \A p \in Handlers : Inserting(p) => Size[h[p].key] <= Capacity
    /\ \A p \in Handlers : h[p].pc = "place" => Bytes(MapOf(h[p].op)) + Size[h[p].key] <= Capacity
    /\ \A m \in Maps : Finite(l1[m])
    /\ SizeAccounted
    /\ EachWithinCapacity

BytesOf(s) == Cardinality(Held(s))

LEMMA BytesAreCounted ==
    ASSUME NEW s, Finite(s)
    PROVE  BytesOf(s) \in Nat
BY FS_CardinalityType DEF Finite, BytesOf

(* What a step of request p must establish. *)
LEMMA CacheStep ==
    ASSUME CacheInv, NEW p \in Handlers, \A q \in Handlers \ {p} : h'[q] = h[q], UndisturbedBy(p),
           \A m \in Maps : Finite(l1'[m]) /\ BytesOf(l1'[m]) <= Capacity,
           size' = BytesOf(l1'["cache"]) + BytesOf(l1'["chunks"]),
           Inserting(p)' => Size[h'[p].key] <= Capacity,
           h'[p].pc = "place" => BytesOf(l1'[MapOf(h'[p].op)]) + Size[h'[p].key] <= Capacity
    PROVE  CacheInv'
<1>1. SizeAccounted' /\ EachWithinCapacity' /\ \A m \in Maps : Finite(l1'[m])
  BY DEF SizeAccounted, EachWithinCapacity, Bytes, BytesOf
<1>2. ASSUME NEW q \in Handlers
      PROVE  /\ Inserting(q)' => Size[h'[q].key] <= Capacity
             /\ h'[q].pc = "place" => Bytes(MapOf(h[q].op))' + Size[h'[q].key] <= Capacity
  <2>1. CASE q = p
    BY <2>1 DEF Bytes, BytesOf
  <2>2. CASE q # p
    BY <2>2 DEF CacheInv, Inserting, Bytes, UndisturbedBy
  <2> QED
    BY <2>1, <2>2
<1> QED
  BY <1>1, <1>2 DEF CacheInv

LEMMA CacheBytes ==
    ASSUME CacheInv
    PROVE  /\ \A m \in Maps : /\ Finite(l1[m]) /\ BytesOf(l1[m]) \in Nat
                              /\ BytesOf(l1[m]) <= Capacity
           /\ size = BytesOf(l1["cache"]) + BytesOf(l1["chunks"])
BY BytesAreCounted DEF CacheInv, SizeAccounted, EachWithinCapacity, Bytes, BytesOf

(* A step that leaves the maps alone. *)
LEMMA QuietCache ==
    ASSUME CacheInv, NEW p \in Handlers, UNCHANGED l1Vars,
           \A q \in Handlers \ {p} : h'[q] = h[q], h'[p].pc # "place",
           Inserting(p)' => Size[h'[p].key] <= Capacity
    PROVE  CacheInv'
BY CacheBytes, CacheStep DEF l1Vars, UndisturbedBy

LEMMA TouchCache ==
    ASSUME TypeInv, LockInv, CacheInv, NEW p \in Handlers, NEW m \in Maps, lock[m] = "free", Touched(m),
           UNCHANGED <<size, lock>>, \A q \in Handlers \ {p} : h'[q] = h[q],
           h'[p].pc \notin {"fit", "evict", "place"},
           h'[p].pc \in PopPcs => h'[p].then # "fit"
    PROVE  CacheInv'
<1>1. \A n \in Maps : Finite(l1'[n]) /\ BytesOf(l1'[n]) = BytesOf(l1[n])
  <2>1. ASSUME NEW n \in Maps PROVE Held(l1'[n]) = Held(l1[n])
    BY HeldSame DEF Touched, TypeInv, StateTypes
  <2> QED
    BY <2>1, CacheBytes DEF Finite, BytesOf
<1>2. UndisturbedBy(p)
  BY TouchLock
<1>3. /\ \A n \in Maps : BytesOf(l1'[n]) <= Capacity
      /\ size' = BytesOf(l1'["cache"]) + BytesOf(l1'["chunks"])
  BY <1>1, CacheBytes DEF Maps
<1>4. ~Inserting(p)'
  BY DEF Inserting
<1> QED
  BY <1>1, <1>2, <1>3, <1>4, CacheStep

(* The sum of both maps when one of them, m, becomes t. *)
Beside(m, n, t) ==
    /\ Maps = {m, n} /\ l1'[m] = t /\ l1'[n] = l1[n]
    /\ \A x, y \in Nat : BytesOf(l1[m]) = x /\ BytesOf(l1[n]) = y =>
          BytesOf(l1["cache"]) + BytesOf(l1["chunks"]) = x + y
    /\ \A x, y \in Nat : BytesOf(t) = x /\ BytesOf(l1[n]) = y =>
          BytesOf(l1'["cache"]) + BytesOf(l1'["chunks"]) = x + y

LEMMA OtherMap ==
    ASSUME l1 \in [Maps -> MapSeq], NEW m \in Maps, NEW t, l1' = [l1 EXCEPT ![m] = t]
    PROVE  \E n \in Maps : Beside(m, n, t)
<1>1. CASE m = "cache"
  <2>1. Maps = {m, "chunks"} /\ l1'[m] = t /\ l1'["chunks"] = l1["chunks"] /\ "chunks" \in Maps
    BY <1>1 DEF Maps
  <2> QED
    BY <1>1, <2>1 DEF Beside
<1>2. CASE m = "chunks"
  <2>1. Maps = {m, "cache"} /\ l1'[m] = t /\ l1'["cache"] = l1["cache"] /\ "cache" \in Maps
    BY <1>2 DEF Maps
  <2> QED
    BY SMTT(15), <1>2, <2>1 DEF Beside
<1> QED
  BY <1>1, <1>2 DEF Maps

(* Map m becomes t, and the counter follows. *)
LEMMA MapChange ==
    ASSUME TypeInv, CacheInv, NEW m \in Maps, NEW t, l1' = [l1 EXCEPT ![m] = t], Finite(t),
           size' = size - BytesOf(l1[m]) + BytesOf(t), BytesOf(t) <= Capacity
    PROVE  /\ \A n \in Maps : Finite(l1'[n]) /\ BytesOf(l1'[n]) <= Capacity
           /\ size' = BytesOf(l1'["cache"]) + BytesOf(l1'["chunks"])
<1>1. l1 \in [Maps -> MapSeq]
  BY DEF TypeInv, StateTypes
<1>2. PICK n \in Maps : Beside(m, n, t)
  BY <1>1, OtherMap
<1> USE <1>2
<1>3. BytesOf(t) \in Nat /\ BytesOf(l1[m]) \in Nat /\ BytesOf(l1[n]) \in Nat
  BY CacheBytes, BytesAreCounted
<1> USE <1>3
<1>4. size' = BytesOf(l1'["cache"]) + BytesOf(l1'["chunks"])
  <2>1. size = BytesOf(l1[m]) + BytesOf(l1[n])
    BY CacheBytes DEF Beside
  <2>2. BytesOf(l1'["cache"]) + BytesOf(l1'["chunks"]) = BytesOf(t) + BytesOf(l1[n])
    BY DEF Beside
  <2> QED
    BY SMTT(15), <2>1, <2>2
<1> QED
  BY <1>4, CacheBytes DEF Beside

LEMMA PopCache ==
    ASSUME TypeInv, LockInv, CacheInv, NEW p \in Handlers, NEW m \in Maps, Pop(p, m)
    PROVE  CacheInv'
<1> DEFINE k == h[p].key
           t == Without(l1[m], k)
<1>1. /\ h[p].pc \in PopPcs /\ k \in Keys /\ lock[m] = "free" /\ lock' = lock
      /\ l1' = [l1 EXCEPT ![m] = t]
      /\ size' = size - Size[k] * Len(Hits(l1[m], k))
      /\ Moved(p, IF m = "cache" THEN "pop_chunks" ELSE h[p].then,
               h[p].then, h[p].data, h[p].ver)
  BY PopMoves
<1> USE <1>1
<1>2. /\ l1[m] \in MapSeq /\ Finite(t) /\ Len(Hits(l1[m], k)) \in {0, 1}
      /\ BytesOf(l1[m]) = BytesOf(t) + Size[k] * Len(Hits(l1[m], k))
  <2>1. l1[m] \in MapSeq /\ Finite(l1[m])
    BY CacheBytes DEF TypeInv, StateTypes
  <2> QED
    BY <2>1, HeldWithout DEF BytesOf
<1> USE <1>2
<1>3. BytesOf(t) \in Nat /\ BytesOf(l1[m]) \in Nat /\ size \in Int /\ Size[k] \in Nat
  BY CacheBytes, BytesAreCounted, MemoryAssumption DEF TypeInv, StateTypes
<1> USE <1>3
<1>4. size' = size - BytesOf(l1[m]) + BytesOf(t) /\ BytesOf(t) <= BytesOf(l1[m])
  <2>1. Size[k] * Len(Hits(l1[m], k)) \in Nat
    BY SMTT(15)
  <2>2. \A a, b, c, d, e : a \in Int /\ b \in Nat /\ c \in Nat /\ d \in Nat /\ c = b + d /\ e = a - d
           => e = a - c + b /\ b <= c
    BY SMTT(15)
  <2> QED
    BY <2>1, <2>2
<1>5. BytesOf(t) <= Capacity
  BY SMTT(15), <1>4, CacheBytes, MemoryAssumption
<1>6. /\ \A n \in Maps : Finite(l1'[n]) /\ BytesOf(l1'[n]) <= Capacity
      /\ size' = BytesOf(l1'["cache"]) + BytesOf(l1'["chunks"])
  BY <1>4, <1>5, MapChange
<1>7. UndisturbedBy(p)
  BY PopLock
<1>8. h'[p].pc \notin {"evict", "place"} /\ (Inserting(p)' => Size[h'[p].key] <= Capacity)
  <2>1. h[p].then \in {"insert", "fit", "purge", "deleted"}
    BY RequestTypes DEF ShapeOf
  <2> QED
    BY <2>1 DEF Moved, Inserting, PopPcs, CacheInv
<1> QED
  BY <1>6, <1>7, <1>8, CacheStep DEF Moved

LEMMA FitCache ==
    ASSUME TypeInv, LockInv, CacheInv, NEW p \in Handlers, Fit(p)
    PROVE  CacheInv'
<1> DEFINE m == MapOf(h[p].op)
<1>1. /\ h[p].pc = "fit" /\ l1' = l1 /\ size' = size
      /\ h[p].key \in Keys /\ m \in Maps /\ lock[m] \in {"free", p}
      /\ lock' = [lock EXCEPT ![m] = p] /\ lock'[m] = p
  BY SMTT(15), FitMoves DEF TypeInv, StateTypes
<1> USE <1>1
<1>2. Size[h[p].key] <= Capacity
  BY DEF CacheInv, Inserting
<1> USE <1>2
<1>3. \A n \in Maps : Finite(l1'[n]) /\ BytesOf(l1'[n]) <= Capacity
  BY CacheBytes
<1>4. UndisturbedBy(p)
  BY FitLock
<1>5. CASE Over(p, m) /\ Moved(p, "evict", h[p].then, h[p].data, h[p].ver)
  <2>1. l1[m] # <<>>
    BY <1>5 DEF Over
  <2> QED
    BY <1>3, <1>4, <1>5, <2>1, CacheBytes, CacheStep DEF Moved
<1>6. CASE ~Over(p, m) /\ Moved(p, "place", h[p].then, h[p].data, h[p].ver)
  <2>1. BytesOf(l1[m]) + Size[h[p].key] <= Capacity
    <3>1. /\ BytesOf(l1[m]) \in Nat /\ BytesOf(l1["cache"]) \in Nat /\ BytesOf(l1["chunks"]) \in Nat
          /\ Size[h[p].key] \in Nat /\ Capacity \in Nat
      BY CacheBytes, MemoryAssumption DEF Maps
    <3> USE <3>1
    <3>2. CASE ~(size + Size[h[p].key] > Capacity)
      <4>1. BytesOf(l1[m]) <= size
        BY SMTT(15), CacheBytes DEF Maps
      <4>2. size \in Int
        BY DEF TypeInv, StateTypes
      <4> QED
        BY SMTT(15), <3>2, <4>1, <4>2
    <3>3. CASE l1[m] = <<>>
      <4>1. Held(l1[m]) = {}
        BY SMTT(15), <3>3 DEF Held
      <4>2. BytesOf(l1[m]) = 0
        BY <4>1, FS_EmptySet DEF BytesOf
      <4> QED
        BY SMTT(15), <4>2
    <3> QED
      BY <1>6, <3>2, <3>3 DEF Over
  <2> QED
    BY <1>3, <1>4, <1>6, <2>1, CacheBytes, CacheStep DEF Moved
<1> QED
  BY <1>5, <1>6, FitMoves

LEMMA EvictCache ==
    ASSUME TypeInv, LockInv, CacheInv, NEW p \in Handlers, Evict(p)
    PROVE  CacheInv'
<1> DEFINE m == MapOf(h[p].op)
           t == Tail(l1[m])
           e == Head(l1[m])
<1>1. /\ h[p].pc = "evict" /\ lock' = lock /\ m \in Maps /\ l1[m] # <<>>
      /\ h[p].key \in Keys /\ e \in Entries(l1[m]) /\ e.key \in Keys
      /\ l1' = [l1 EXCEPT ![m] = t] /\ size' = size - Size[e.key]
      /\ Moved(p, "fit", h[p].then, h[p].data, h[p].ver)
  <2>1. EvictionFrees
    BY DEF LockInv
  <2> QED
    BY <2>1, EvictMoves
<1> USE <1>1
<1>2. Finite(t) /\ BytesOf(l1[m]) = BytesOf(t) + Size[e.key]
  <2>1. l1[m] \in MapSeq /\ Finite(l1[m])
    BY CacheBytes DEF TypeInv, StateTypes
  <2>2. t \in MapSeq /\ Entries(t) = {x \in Entries(l1[m]) : x.key # e.key}
    BY <2>1, TailMap
  <2> HIDE DEF t, e
  <2> QED
    BY ZenonT(40), <2>1, <2>2, HeldSplit DEF BytesOf
<1> USE <1>2
<1> HIDE DEF t, e
<1>3. BytesOf(t) \in Nat /\ BytesOf(l1[m]) \in Nat /\ size \in Int /\ Size[e.key] \in Nat
  BY CacheBytes, BytesAreCounted, MemoryAssumption DEF TypeInv, StateTypes
<1>4. size' = size - BytesOf(l1[m]) + BytesOf(t) /\ BytesOf(t) <= BytesOf(l1[m])
  BY SMTT(15), <1>3
<1>5. BytesOf(t) <= Capacity
  BY SMTT(15), <1>3, <1>4, CacheBytes, MemoryAssumption
<1>6. /\ \A n \in Maps : Finite(l1'[n]) /\ BytesOf(l1'[n]) <= Capacity
      /\ size' = BytesOf(l1'["cache"]) + BytesOf(l1'["chunks"])
  BY <1>4, <1>5, MapChange
<1>7. UndisturbedBy(p)
  BY EvictLock
<1>8. h'[p].pc = "fit" /\ Size[h'[p].key] <= Capacity
  BY DEF Moved, CacheInv, Inserting
<1> QED
  BY <1>6, <1>7, <1>8, CacheStep DEF Moved

LEMMA PlaceCache ==
    ASSUME TypeInv, LockInv, CacheInv, NEW p \in Handlers, Place(p)
    PROVE  CacheInv'
<1> DEFINE m == MapOf(h[p].op)
           k == h[p].key
           s == Without(l1[m], k)
           t == Append(s, NewEntry(p))
<1>1. /\ h[p].pc = "place" /\ lock' = [lock EXCEPT ![m] = "free"]
      /\ k \in Keys /\ m \in Maps /\ NewEntry(p) \in Entry
      /\ \A e \in Entries(s) : e.key # NewEntry(p).key
      /\ l1' = [l1 EXCEPT ![m] = t]
      /\ size' = size - Size[k] * Len(Hits(l1[m], k)) + Size[k]
      /\ Answered(p, h[p].data)
  BY PlaceMoves
<1>2. /\ l1[m] \in MapSeq /\ s \in MapSeq /\ Finite(s) /\ Len(Hits(l1[m], k)) \in {0, 1}
      /\ BytesOf(l1[m]) = BytesOf(s) + Size[k] * Len(Hits(l1[m], k))
  <2>1. l1[m] \in MapSeq /\ Finite(l1[m])
    BY <1>1, CacheBytes DEF TypeInv, StateTypes
  <2> QED
    BY <1>1, <2>1, HeldWithout, WithoutMap DEF BytesOf
<1>3. Finite(t) /\ BytesOf(t) = BytesOf(s) + Size[k]
  <2>1. NewEntry(p).key = k
    BY ZenonT(40) DEF NewEntry
  <2> HIDE DEF s, k
  <2> QED
    BY <1>1, <1>2, <2>1, HeldAppend DEF BytesOf
<1>4. /\ BytesOf(t) \in Nat /\ BytesOf(s) \in Nat /\ BytesOf(l1[m]) \in Nat /\ size \in Int
      /\ Size[k] \in Nat /\ Size[k] * Len(Hits(l1[m], k)) \in Nat /\ Capacity \in Nat
  <2>1. BytesOf(t) \in Nat /\ BytesOf(s) \in Nat /\ BytesOf(l1[m]) \in Nat
    BY <1>1, <1>2, <1>3, CacheBytes, BytesAreCounted
  <2>2. size \in Int /\ Size[k] \in Nat /\ Capacity \in Nat
    BY <1>1, MemoryAssumption DEF TypeInv, StateTypes
  <2> QED
    BY SMTT(15), <1>2, <2>1, <2>2
<1>5. BytesOf(l1[m]) + Size[k] <= Capacity
  BY <1>1 DEF CacheInv, Bytes, BytesOf
<1>7. size' = size - BytesOf(l1[m]) + BytesOf(t) /\ BytesOf(t) <= Capacity
  <2> DEFINE d == Size[k] * Len(Hits(l1[m], k))
  <2>1. size' = size - d + Size[k] /\ BytesOf(l1[m]) = BytesOf(s) + d /\ d \in Nat
    BY <1>1, <1>2, <1>4
  <2>2. /\ BytesOf(t) \in Nat /\ BytesOf(s) \in Nat /\ BytesOf(l1[m]) \in Nat /\ size \in Int
        /\ Size[k] \in Nat /\ Capacity \in Nat
    BY <1>4
  <2> HIDE DEF d, s, t, k, m
  <2> QED
    BY SMTT(15), <1>3, <1>5, <2>1, <2>2
<1> HIDE DEF s, t, k
<1>8. /\ \A n \in Maps : Finite(l1'[n]) /\ BytesOf(l1'[n]) <= Capacity
      /\ size' = BytesOf(l1'["cache"]) + BytesOf(l1'["chunks"])
  BY <1>1, <1>3, <1>7, MapChange
<1>9. UndisturbedBy(p)
  BY PlaceLock
<1>10. h'[p].pc = "idle" /\ ~Inserting(p)'
  BY <1>1 DEF Answered, Inserting, PopPcs
<1> QED
  BY <1>1, <1>8, <1>9, <1>10, CacheStep DEF Answered

CacheTypes == LoopInv /\ CacheInv

LEMMA InitCache ==
    Init => CacheTypes
<1> SUFFICES ASSUME Init PROVE CacheTypes
  OBVIOUS
<1>1. \A m \in Maps : Finite(l1[m]) /\ Bytes(m) = 0
  <2>1. IsFiniteSet({}) /\ Cardinality({}) = 0
    BY FS_EmptySet
  <2>2. \A m \in Maps : Held(l1[m]) = {}
    BY SMTT(15) DEF Init, Held
  <2> QED
    BY SMTT(15), <2>1, <2>2 DEF Finite, Bytes
<1>2. SizeAccounted /\ EachWithinCapacity
  BY SMTT(15), <1>1, MemoryAssumption DEF Init, SizeAccounted, EachWithinCapacity, Maps
<1>3. \A p \in Handlers : h[p].pc = "idle"
  BY DEF Init, NoRequest
<1> QED
  BY <1>1, <1>2, <1>3, InitLoop DEF CacheTypes, CacheInv, Inserting, PopPcs

(* An answered request, one that begins and one that moves on outside the    *)
(* insertion are quiet.                                                      *)
LEMMA AnsweredQuiet ==
    ASSUME CacheInv, NEW p \in Handlers, NEW g, Answered(p, g), UNCHANGED l1Vars
    PROVE  CacheInv'
BY QuietCache DEF Answered, Inserting, PopPcs

LEMMA MovedQuiet ==
    ASSUME CacheInv, NEW p \in Handlers, NEW a, NEW b, NEW d, NEW v, Moved(p, a, b, d, v),
           a \notin {"fit", "evict", "place"},
           a \in PopPcs /\ b = "fit" => Size[h[p].key] <= Capacity, UNCHANGED l1Vars
    PROVE  CacheInv'
BY QuietCache DEF Moved, Inserting

LEMMA CacheStepNext ==
    CacheTypes /\ [Next]_vars => CacheTypes'
<1> SUFFICES ASSUME CacheTypes, [Next]_vars PROVE CacheInv'
  BY LoopStep DEF CacheTypes
<1>0. TypeInv /\ LockInv /\ CacheInv
  BY DEF CacheTypes, LoopInv
<1> USE <1>0
<1>1. CASE UNCHANGED vars
  BY <1>1 DEF vars, CacheInv, Inserting,
              SizeAccounted, EachWithinCapacity, Bytes
<1>2. ASSUME NEW g \in TtlGens, TtlPasses(g) PROVE CacheInv'
  BY <1>2 DEF TtlPasses, l1Vars, CacheInv, Inserting, SizeAccounted, EachWithinCapacity, Bytes
<1>3. ASSUME NEW p \in Handlers, NEW op \in Ops, NEW k \in Keys, Begin(p, op, k) PROVE CacheInv'
  <2>1. Started(p, op, k) /\ UNCHANGED l1Vars
    BY <1>3, BeginMoves DEF Begin, TypeInv
  <2> QED
    BY <2>1, QuietCache DEF Started, Inserting, PopPcs
<1>4. ASSUME NEW p \in Handlers, Step(p) PROVE CacheInv'
  <2>1. CASE Store(p)
    BY SMTT(15), <2>1, StoreMoves, AnsweredQuiet, MovedQuiet DEF PopPcs
  <2>2. CASE Reread(p)
    BY SMTT(15), <2>2, RereadMoves, MovedQuiet
  <2>3. ASSUME NEW m \in Maps, Pop(p, m) PROVE CacheInv'
    BY <2>3, PopCache
  <2>4. CASE Insert(p)
    BY SMTT(15), <2>4, InsertMoves, AnsweredQuiet, MovedQuiet
  <2>5. CASE Fit(p)
    BY <2>5, FitCache
  <2>6. CASE Evict(p)
    BY <2>6, EvictCache
  <2>7. CASE Place(p)
    BY <2>7, PlaceCache
  <2>8. CASE Live(p)
    BY <2>8, LiveMoves, MovedQuiet DEF PopPcs
  <2>9. CASE LivePurge(p)
    BY <2>9, LivePurgeMoves, MovedQuiet DEF PopPcs
  <2>10. CASE Peek(p)
    <3>1. lock["chunks"] = "free" /\ Touched("chunks") /\ UNCHANGED <<size, lock>>
      BY <2>10, PeekMoves
    <3>2. /\ \A q \in Handlers \ {p} : h'[q] = h[q]
          /\ h'[p].pc \in {"idle", "look"}
      BY <2>10, PeekMoves DEF Answered, Moved
    <3> QED
      BY <3>1, <3>2, TouchCache DEF PopPcs, Maps
  <2>11. CASE Look(p) \/ LookChunks(p)
    <3> USE LookEnds
    <3>1. PICK m \in Maps : lock[m] = "free" /\ Touched(m)
      BY <2>11
    <3> QED
      BY <2>11, <3>1, TouchCache DEF PopPcs
  <2>12. CASE Fetch(p) \/ FetchPurge(p)
    BY <2>12, FetchEnds, QuietCache DEF Inserting, PopPcs
  <2>14. CASE Purge(p)
    BY <2>14, PurgeMoves, AnsweredQuiet
  <2>15. CASE Retire(p)
    BY SMTT(15), <2>15, RetireMoves, MovedQuiet
  <2>16. CASE Deleted(p)
    BY ZenonT(40), <2>16, DeletedMoves, AnsweredQuiet
  <2> QED
    BY ZenonT(40), <1>4, <2>1, <2>2, <2>3, <2>4, <2>5, <2>6, <2>7, <2>8, <2>9, <2>10, <2>11, <2>12, <2>14,
       <2>15, <2>16 DEF Step
<1> QED
  BY <1>1, <1>2, <1>3, <1>4 DEF Next

LEMMA CacheAlways ==
    Spec => []CacheTypes
BY InitCache, CacheStepNext, PTL DEF Spec

(* current_size is at every moment what the entries of both maps hold,       *)
(* whatever the requests do and however the sections under the two mutexes   *)
(* of memory_tier.rs interleave.                                             *)
THEOREM SizeIsHeld ==
    Spec => []SizeAccounted
<1>1. CacheTypes => SizeAccounted
  BY DEF CacheTypes, CacheInv
<1> QED
  BY <1>1, CacheAlways, PTL

(* Neither map outgrows the capacity, although the loop that makes room      *)
(* reads a counter that other requests move through the other map.           *)
THEOREM WithinCapacity ==
    Spec => []EachWithinCapacity
<1>1. CacheTypes => EachWithinCapacity
  BY DEF CacheTypes, CacheInv
<1> QED
  BY <1>1, CacheAlways, PTL

-----------------------------------------------------------------------------
(* Requests that come one at a time. *)

Alone == \A p, q \in Handlers : Active(p) /\ Active(q) => p = q

(* Request p is still going to pop its key from map m. *)
ClearingAt(pc, m) == pc \in {"reread", "pop_cache"} \/ (pc = "pop_chunks" /\ m = "chunks")
Clearing(p, m) == ClearingAt(h[p].pc, m)

(* What a request is going to insert carries the metadata of its own         *)
(* generation, and had not expired when the request began.                   *)
OwnMetaOf(p) ==
    LET r == h[p] IN
    /\ r.dead \subseteq lapsed
    /\ r.pc = "reread" => r.data = meta[r.key]
    /\ r.pc = "fetch_purge" => r.ver = meta[r.key]
    /\ Carrying(r.pc, r.then) /\ r.pc # "reread" => r.ver = r.data
    /\ Carrying(r.pc, r.then) /\ r.pc # "fetch_purge" /\ r.op \in Reads => r.data \notin r.dead

OwnMeta ==
    /\ Alone
    /\ \A m \in Maps : \A e \in Entries(l1[m]) : e.meta = e.data
    /\ \A p \in Handlers : OwnMetaOf(p)

(* Without TTLs L1 holds current values, except of the key that the active   *)
(* request is clearing; what a read answers is current.                      *)
CurrentOf(p) ==
    LET r == h[p] IN
    /\ r.pc \notin {"live_purge", "fetch_purge", "purge"}
    /\ r.pc \in PopPcs => r.then # "purge"
    /\ Carrying(r.pc, r.then) => r.data = meta[r.key]
    /\ Active(p) /\ r.op \in Reads => r.floor = meta[r.key]
    /\ r.verdict \in {"none", "fresh"}

Current ==
    /\ \A m \in Maps : \A e \in Entries(l1[m]) :
        e.data = meta[e.key] \/ \E p \in Handlers : Clearing(p, m) /\ h[p].key = e.key
    /\ \A p \in Handlers : CurrentOf(p)

SequentialInv ==
    /\ ~overlapped => OwnMeta
    /\ ~overlapped /\ lapsed = {} => Current

(* What a step of request p keeps. *)
Progress(p) ==
    /\ OwnMeta'
    /\ lapsed = {} /\ Current => Current'
    /\ h'[p].verdict = "expired" /\ h[p].verdict # "expired" => h[p].op = "get_stream"

LEMMA OthersIdle ==
    ASSUME OwnMeta, NEW p \in Handlers, Active(p), NEW q \in Handlers \ {p}
    PROVE  h[q].pc = "idle"
BY DEF OwnMeta, Alone, Active

LEMMA CurrentEntries ==
    ASSUME OwnMeta, Current, NEW p \in Handlers, Active(p), NEW m \in Maps, NEW e \in Entries(l1[m])
    PROVE  e.data = meta[e.key] \/ (Clearing(p, m) /\ h[p].key = e.key)
<1>1. ASSUME NEW q \in Handlers, Clearing(q, m) PROVE q = p
  BY <1>1, OthersIdle DEF Clearing, ClearingAt
<1> QED
  BY <1>1 DEF Current

LEMMA OwnStep ==
    ASSUME OwnMeta, NEW p \in Handlers, Active(p), \A q \in Handlers \ {p} : h'[q] = h[q],
           lapsed' = lapsed, OwnMetaOf(p)',
           \A m \in Maps : \A e \in Entries(l1'[m]) : e.meta = e.data
    PROVE  OwnMeta'
<1>1. ASSUME NEW q \in Handlers \ {p} PROVE OwnMetaOf(q)' /\ ~Active(q)'
  BY OthersIdle DEF OwnMeta, OwnMetaOf, Carrying, PopPcs, Active
<1> QED
  BY <1>1 DEF OwnMeta, Alone

LEMMA CurrentStep ==
    ASSUME OwnMeta, Current, NEW p \in Handlers, Active(p), \A q \in Handlers \ {p} : h'[q] = h[q],
           CurrentOf(p)',
           \A m \in Maps : \A e \in Entries(l1'[m]) :
                e.data = meta'[e.key] \/ (Clearing(p, m)' /\ h'[p].key = e.key)
    PROVE  Current'
<1>1. ASSUME NEW q \in Handlers \ {p} PROVE CurrentOf(q)'
  BY ZenonT(40), OthersIdle DEF Current, CurrentOf, Carrying, PopPcs, Active
<1> QED
  BY <1>1 DEF Current

LEMMA MovedProgress ==
    ASSUME TypeInv, OwnMeta, NEW p \in Handlers, Active(p), lapsed' = lapsed,
           NEW a, NEW b, NEW d, NEW v, Moved(p, a, b, d, v),
           \A m \in Maps : \A e \in Entries(l1'[m]) : e \in Entries(l1[m]),
           a = "reread" => d = meta'[h[p].key],
           a = "fetch_purge" => v = meta'[h[p].key],
           Carrying(a, b) /\ a # "reread" => v = d,
           Carrying(a, b) /\ a # "fetch_purge" /\ h[p].op \in Reads => d \notin h[p].dead,
           lapsed = {} /\ Current =>
              /\ a \notin {"live_purge", "fetch_purge", "purge"}
              /\ a \in PopPcs => b # "purge"
              /\ Carrying(a, b) => d = meta'[h[p].key]
              /\ h[p].op \in Reads => meta'[h[p].key] = meta[h[p].key]
              /\ \A m \in Maps : \A e \in Entries(l1'[m]) :
                    e.data = meta'[e.key] \/ (ClearingAt(a, m) /\ h[p].key = e.key)
    PROVE  Progress(p)
<1>1. OwnMetaOf(p)'
  <2>1. h[p].dead \subseteq lapsed
    BY DEF OwnMeta, OwnMetaOf
  <2> QED
    BY <2>1 DEF Moved, OwnMetaOf
<1>2. OwnMeta'
  BY <1>1, OwnStep DEF Moved, OwnMeta
<1>3. ASSUME lapsed = {}, Current PROVE Current'
  <2> USE <1>3
  <2>1. CurrentOf(p)'
    <3>1. h[p].op \in Reads => h[p].floor = meta[h[p].key]
      BY DEF Current, CurrentOf
    <3>2. h[p].verdict \in {"none", "fresh"}
      BY DEF Current, CurrentOf
    <3> QED
      BY <3>1, <3>2 DEF Moved, CurrentOf
  <2>2. \A m \in Maps : \A e \in Entries(l1'[m]) :
                e.data = meta'[e.key] \/ (Clearing(p, m)' /\ h'[p].key = e.key)
    BY DEF Moved, Clearing
  <2> QED
    BY ZenonT(40), <2>1, <2>2, CurrentStep DEF Moved
<1> QED
  BY <1>2, <1>3 DEF Progress, Moved

LEMMA AnsweredProgress ==
    ASSUME TypeInv, OwnMeta, NEW p \in Handlers, Active(p), lapsed' = lapsed,
           NEW g, Answered(p, g),
           \A m \in Maps : \A e \in Entries(l1'[m]) : e.meta = e.data,
           h[p].op \in Reads /\ h[p].op # "get_stream" => g \notin h[p].dead,
           lapsed = {} /\ Current =>
              /\ h[p].op \in Reads => g = h[p].floor
              /\ \A m \in Maps : \A e \in Entries(l1'[m]) : e.data = meta'[e.key]
    PROVE  Progress(p)
<1>1. OwnMetaOf(p)'
  BY DEF Answered, OwnMetaOf, Carrying, PopPcs
<1>2. OwnMeta'
  BY <1>1, OwnStep DEF Answered
<1>3. ASSUME lapsed = {}, Current PROVE Current'
  <2> USE <1>3
  <2>1. h[p].dead = {}
    BY DEF OwnMeta, OwnMetaOf
  <2>2. Verdict(p, g) \in {"none", "fresh"}
    BY <2>1 DEF Verdict
  <2>3. CurrentOf(p)'
    BY <2>2 DEF Answered, CurrentOf, Carrying, PopPcs, Active
  <2> QED
    BY <2>3, CurrentStep DEF Answered
<1>4. Verdict(p, g) = "expired" => h[p].op = "get_stream"
  BY DEF Verdict
<1> QED
  BY <1>2, <1>3, <1>4 DEF Progress, Answered

LEMMA OwnEntries ==
    ASSUME OwnMeta
    PROVE  \A m \in Maps : \A e \in Entries(l1[m]) : e.meta = e.data
BY DEF OwnMeta

LEMMA SettledEntries ==
    ASSUME OwnMeta, NEW p \in Handlers, Active(p), h[p].pc # "reread", h[p].pc \notin PopPcs, Current
    PROVE  \A m \in Maps : \A e \in Entries(l1[m]) : e.data = meta[e.key]
BY CurrentEntries DEF Clearing, ClearingAt, PopPcs

(* The operations are told apart. *)
LEMMA OpsDiffer ==
    "delete" \notin Reads /\ \A op \in Writes : op \notin Reads
BY DEF Reads, Writes

LEMMA ZeroNotDead ==
    ASSUME TypeInv, NEW p \in Handlers
    PROVE  0 \notin h[p].dead
BY RequestTypes DEF Generation

LEMMA StoreProgress ==
    ASSUME TypeInv, OwnMeta, NEW p \in Handlers, Store(p)
    PROVE  Progress(p)
<1>1. h[p].pc = "store" /\ lapsed' = lapsed /\ l1' = l1 /\ Active(p)
  BY StoreMoves DEF l1Vars, Active
<1> USE <1>1
<1>2. h[p].op \notin Reads /\ h[p].key \in Keys
  BY ZenonT(40), RequestTypes, OpsDiffer DEF ShapeOf
<1> USE <1>2
<1>3. CASE Answered(p, 0) /\ meta' = meta
  BY ZenonT(40), <1>3, OwnEntries, SettledEntries, AnsweredProgress DEF PopPcs
<1>4. CASE /\ Moved(p, "reread", h[p].then, last + 1, h[p].ver)
           /\ meta' = [meta EXCEPT ![h[p].key] = last + 1]
  <2>1. meta'[h[p].key] = last + 1 /\ \A k \in Keys \ {h[p].key} : meta'[k] = meta[k]
    BY <1>4 DEF TypeInv, StateTypes
  <2>2. ASSUME Current, NEW m \in Maps, NEW e \in Entries(l1'[m])
        PROVE  e.data = meta'[e.key] \/ (ClearingAt("reread", m) /\ h[p].key = e.key)
    <3>1. e.data = meta[e.key] /\ l1[m] \in MapSeq
      BY <2>2, SettledEntries DEF PopPcs, TypeInv, StateTypes
    <3>2. e.key \in Keys
      BY <3>1, EntryOf DEF Entry
    <3> QED
      BY ZenonT(40), <2>1, <3>1, <3>2 DEF ClearingAt
  <2> QED
    BY ZenonT(40), <1>4, <2>1, <2>2, MovedProgress DEF PopPcs
<1> QED
  BY <1>3, <1>4, StoreMoves

LEMMA RereadProgress ==
    ASSUME TypeInv, OwnMeta, NEW p \in Handlers, Reread(p)
    PROVE  Progress(p)
<1>1. /\ h[p].pc = "reread" /\ lapsed' = lapsed /\ l1' = l1 /\ meta' = meta /\ Active(p)
      /\ Moved(p, "pop_cache", "insert", h[p].data, meta[h[p].key])
  BY RereadMoves DEF redisVars, l1Vars, Active
<1> USE <1>1
<1>2. h[p].op \notin Reads
  BY RequestTypes, OpsDiffer DEF ShapeOf
<1>3. h[p].data = meta[h[p].key]
  BY DEF OwnMeta, OwnMetaOf
<1>4. ASSUME Current, NEW m \in Maps, NEW e \in Entries(l1'[m])
      PROVE  e.data = meta'[e.key] \/ (ClearingAt("pop_cache", m) /\ h[p].key = e.key)
  BY <1>4, CurrentEntries DEF ClearingAt
<1> QED
  BY ZenonT(40), <1>2, <1>3, <1>4, MovedProgress DEF PopPcs

LEMMA PopProgress ==
    ASSUME TypeInv, OwnMeta, NEW p \in Handlers, NEW m \in Maps, Pop(p, m)
    PROVE  Progress(p)
<1> DEFINE k == h[p].key
           a == IF m = "cache" THEN "pop_chunks" ELSE h[p].then
<1>1. /\ h[p].pc = PopLabel(m) /\ h[p].pc \in PopPcs /\ k \in Keys
      /\ lapsed' = lapsed /\ meta' = meta /\ Active(p)
      /\ l1' = [l1 EXCEPT ![m] = Without(l1[m], k)]
      /\ Moved(p, a, h[p].then, h[p].data, h[p].ver)
  BY PopMoves DEF redisVars, PopPcs, Active
<1> USE <1>1
<1>2. /\ l1[m] \in MapSeq
      /\ Entries(l1'[m]) = {e \in Entries(l1[m]) : e.key # k}
      /\ \A n \in Maps \ {m} : l1'[n] = l1[n]
  <2>1. l1[m] \in MapSeq
    BY DEF TypeInv, StateTypes
  <2>2. l1'[m] = Without(l1[m], k)
    BY DEF TypeInv, StateTypes
  <2> QED
    BY ZenonT(40), <2>1, <2>2, WithoutMap DEF TypeInv, StateTypes
<1>3. \A n \in Maps : \A e \in Entries(l1'[n]) : e \in Entries(l1[n])
  BY <1>2
<1>4. /\ h[p].then \in {"insert", "fit", "purge", "deleted"}
      /\ a \in {"pop_chunks", "insert", "fit", "purge", "deleted"}
      /\ Carrying(a, h[p].then) => Carrying(h[p].pc, h[p].then)
  BY RequestTypes DEF ShapeOf, Carrying, PopPcs
<1> USE <1>4
<1>5. Carrying(a, h[p].then) => /\ h[p].ver = h[p].data
                                /\ h[p].op \in Reads => h[p].data \notin h[p].dead
  BY DEF OwnMeta, OwnMetaOf, PopPcs
<1>6. ASSUME Current
      PROVE  /\ a \notin {"live_purge", "fetch_purge", "purge"}
             /\ a \in PopPcs => h[p].then # "purge"
             /\ Carrying(a, h[p].then) => h[p].data = meta'[k]
  <2>1. h[p].then # "purge" /\ (Carrying(h[p].pc, h[p].then) => h[p].data = meta[k])
    BY <1>6 DEF Current, CurrentOf
  <2> QED
    BY <2>1
<1>7. ASSUME Current, NEW n \in Maps, NEW e \in Entries(l1'[n])
      PROVE  e.data = meta'[e.key] \/ (ClearingAt(a, n) /\ k = e.key)
  <2>1. e.data = meta[e.key] \/ (ClearingAt(h[p].pc, n) /\ k = e.key)
    BY <1>3, <1>7, CurrentEntries DEF Clearing
  <2>2. CASE n = m
    BY <1>2, <2>1, <2>2
  <2>3. CASE n # m
    BY <2>1, <2>3 DEF ClearingAt, PopLabel, Maps
  <2> QED
    BY <2>2, <2>3
<1> HIDE DEF a, k
<1> QED
  BY ZenonT(40), <1>3, <1>5, <1>6, <1>7, MovedProgress DEF k

(* What a request that inserts carries. *)
LEMMA Carried ==
    ASSUME OwnMeta, NEW p \in Handlers, Carrying(h[p].pc, h[p].then),
           h[p].pc \notin {"reread", "fetch_purge"}
    PROVE  /\ h[p].ver = h[p].data /\ (h[p].op \in Reads => h[p].data \notin h[p].dead)
           /\ Current => /\ h[p].data = meta[h[p].key]
                         /\ Active(p) /\ h[p].op \in Reads => h[p].data = h[p].floor
BY DEF OwnMeta, OwnMetaOf, Current, CurrentOf

LEMMA InsertProgress ==
    ASSUME TypeInv, OwnMeta, NEW p \in Handlers, Insert(p)
    PROVE  Progress(p)
<1>1. h[p].pc = "insert" /\ lapsed' = lapsed /\ l1' = l1 /\ meta' = meta /\ Active(p)
  BY InsertMoves DEF redisVars, l1Vars, Active
<1> USE <1>1
<1>2. Carrying(h[p].pc, h[p].then) /\ Carrying("pop_cache", "fit")
  BY DEF Carrying, PopPcs
<1>3. CASE Answered(p, h[p].data)
  BY ZenonT(40), <1>2, <1>3, Carried, OwnEntries, SettledEntries, AnsweredProgress DEF PopPcs
<1>4. CASE Moved(p, "pop_cache", "fit", h[p].data, h[p].ver)
  BY ZenonT(40), <1>2, <1>4, Carried, SettledEntries, MovedProgress DEF PopPcs
<1> QED
  BY <1>3, <1>4, InsertMoves

LEMMA FitProgress ==
    ASSUME TypeInv, OwnMeta, NEW p \in Handlers, Fit(p)
    PROVE  Progress(p)
<1>1. h[p].pc = "fit" /\ lapsed' = lapsed /\ l1' = l1 /\ meta' = meta /\ Active(p)
  BY FitMoves DEF redisVars, Active
<1>2. Carrying(h[p].pc, h[p].then)
  BY <1>1 DEF Carrying
<1>3. PICK a \in {"evict", "place"} : Moved(p, a, h[p].then, h[p].data, h[p].ver)
  BY FitMoves
<1> QED
  BY ZenonT(40), <1>1, <1>2, <1>3, Carried, SettledEntries, MovedProgress DEF PopPcs

LEMMA EvictProgress ==
    ASSUME TypeInv, EvictionFrees, OwnMeta, NEW p \in Handlers, Evict(p)
    PROVE  Progress(p)
<1> DEFINE m == MapOf(h[p].op)
<1>1. /\ h[p].pc = "evict" /\ lapsed' = lapsed /\ meta' = meta /\ Active(p)
      /\ m \in Maps /\ l1[m] # <<>> /\ l1' = [l1 EXCEPT ![m] = Tail(l1[m])]
      /\ Moved(p, "fit", h[p].then, h[p].data, h[p].ver)
  BY EvictMoves DEF redisVars, Active
<1> USE <1>1
<1>2. Carrying(h[p].pc, h[p].then)
  BY DEF Carrying
<1>3. \A n \in Maps : \A e \in Entries(l1'[n]) : e \in Entries(l1[n])
  <2>1. l1[m] \in MapSeq /\ l1'[m] = Tail(l1[m]) /\ \A n \in Maps \ {m} : l1'[n] = l1[n]
    BY DEF TypeInv, StateTypes
  <2>2. \A e \in Entries(l1'[m]) : e \in Entries(l1[m])
    BY <2>1, TailMap
  <2> QED
    BY <2>1, <2>2
<1> QED
  BY ZenonT(40), <1>2, <1>3, Carried, SettledEntries, MovedProgress DEF PopPcs

LEMMA PlaceProgress ==
    ASSUME TypeInv, OwnMeta, NEW p \in Handlers, Place(p)
    PROVE  Progress(p)
<1> DEFINE m == MapOf(h[p].op)
           k == h[p].key
<1>1. /\ h[p].pc = "place" /\ lapsed' = lapsed /\ meta' = meta /\ Active(p)
      /\ k \in Keys /\ m \in Maps /\ NewEntry(p) \in Entry
      /\ \A e \in Entries(Without(l1[m], k)) : e.key # NewEntry(p).key
      /\ l1' = [l1 EXCEPT ![m] = Append(Without(l1[m], k), NewEntry(p))]
      /\ Answered(p, h[p].data)
  BY PlaceMoves DEF redisVars, Active
<1> USE <1>1
<1>2. Carrying(h[p].pc, h[p].then)
  BY DEF Carrying
<1> USE <1>2
<1>3. \A n \in Maps : \A e \in Entries(l1'[n]) : e \in Entries(l1[n]) \/ e = NewEntry(p)
  <2>1. /\ l1[m] \in MapSeq /\ l1'[m] = Append(Without(l1[m], k), NewEntry(p))
        /\ \A n \in Maps \ {m} : l1'[n] = l1[n]
    BY DEF TypeInv, StateTypes
  <2> USE <2>1
  <2>2. /\ Without(l1[m], k) \in MapSeq
        /\ \A e \in Entries(Without(l1[m], k)) : e \in Entries(l1[m])
    BY WithoutMap
  <2>3. Entries(l1'[m]) = Entries(Without(l1[m], k)) \cup {NewEntry(p)}
    BY <2>2, AppendMap
  <2> QED
    BY <2>2, <2>3
<1>4. NewEntry(p).data = h[p].data /\ NewEntry(p).meta = h[p].ver /\ NewEntry(p).key = k
  BY DEF NewEntry
<1>5. \A n \in Maps : \A e \in Entries(l1'[n]) : e.meta = e.data
  BY ZenonT(40), <1>3, <1>4, Carried, OwnEntries
<1>6. ASSUME Current PROVE \A n \in Maps : \A e \in Entries(l1'[n]) : e.data = meta'[e.key]
  BY ZenonT(40), <1>3, <1>4, <1>6, Carried, SettledEntries DEF PopPcs
<1> QED
  BY ZenonT(40), <1>5, <1>6, Carried, AnsweredProgress

LEMMA LiveProgress ==
    ASSUME TypeInv, OwnMeta, NEW p \in Handlers, Live(p)
    PROVE  Progress(p)
<1>1. h[p].pc = "live" /\ lapsed' = lapsed /\ l1' = l1 /\ meta' = meta /\ Active(p)
  BY LiveMoves DEF redisVars, l1Vars, Active
<1>2. PICK a \in {"live_purge", "look", "peek"} :
                /\ a = "live_purge" => meta[h[p].key] \in lapsed
                /\ Moved(p, a, h[p].then, h[p].data, meta[h[p].key])
  BY LiveMoves
<1>3. ~Carrying(a, h[p].then) /\ a \notin PopPcs /\ (lapsed = {} => a \notin {"live_purge", "fetch_purge", "purge"})
  BY <1>2 DEF Carrying, PopPcs
<1> QED
  BY <1>1, <1>2, <1>3, SettledEntries, MovedProgress DEF PopPcs

LEMMA LivePurgeProgress ==
    ASSUME TypeInv, OwnMeta, NEW p \in Handlers, LivePurge(p)
    PROVE  Progress(p)
<1>1. h[p].pc = "live_purge" /\ lapsed' = lapsed /\ l1' = l1 /\ Active(p)
  BY LivePurgeMoves DEF l1Vars, Active
<1>2. PICK a \in {"look", "peek"} : Moved(p, a, h[p].then, h[p].data, h[p].ver)
  BY LivePurgeMoves
<1>3. ~Carrying(a, h[p].then) /\ ~Current
  BY <1>1 DEF Carrying, PopPcs, Current, CurrentOf
<1> QED
  BY ZenonT(40), <1>1, <1>2, <1>3, MovedProgress

LEMMA FetchProgress ==
    ASSUME TypeInv, OwnMeta, NEW p \in Handlers, Fetch(p)
    PROVE  Progress(p)
<1> DEFINE g == meta[h[p].key]
<1>1. h[p].pc = "fetch" /\ lapsed' = lapsed /\ l1' = l1 /\ meta' = meta /\ Active(p)
  BY FetchMoves DEF redisVars, l1Vars, Active
<1> USE <1>1
<1>2. h[p].op \in Reads /\ h[p].dead \subseteq lapsed /\ (Current => h[p].floor = g)
  <2>1. h[p].op \in Reads
    BY RequestTypes DEF ShapeOf
  <2> QED
    BY <2>1 DEF OwnMeta, OwnMetaOf, Current, CurrentOf
<1> USE <1>2
<1>3. CASE g = 0 /\ Answered(p, 0)
  BY ZenonT(40), <1>3, ZeroNotDead, OwnEntries, SettledEntries, AnsweredProgress DEF PopPcs
<1>4. CASE g \in lapsed /\ Moved(p, "fetch_purge", h[p].then, g, g)
  <2>1. lapsed # {}
    BY <1>4
  <2> QED
    BY ZenonT(40), <1>4, <2>1, MovedProgress
<1>5. CASE g \notin lapsed /\ Answered(p, g)
  BY ZenonT(40), <1>5, OwnEntries, SettledEntries, AnsweredProgress DEF PopPcs
<1>6. CASE g \notin lapsed /\ Moved(p, "insert", h[p].then, g, g)
  BY ZenonT(40), <1>6, SettledEntries, MovedProgress DEF PopPcs
<1> QED
  BY ZenonT(40), <1>3, <1>4, <1>5, <1>6, FetchMoves

LEMMA FetchPurgeProgress ==
    ASSUME TypeInv, OwnMeta, NEW p \in Handlers, FetchPurge(p)
    PROVE  Progress(p)
<1>1. h[p].pc = "fetch_purge" /\ lapsed' = lapsed /\ l1' = l1 /\ Active(p)
  BY FetchPurgeMoves DEF l1Vars, Active
<1>2. h[p].ver = meta[h[p].key] /\ ~Current
  BY <1>1 DEF OwnMeta, OwnMetaOf, Current, CurrentOf
<1>3. Answered(p, 0)
  BY <1>2, FetchPurgeMoves
<1> QED
  BY ZenonT(40), <1>1, <1>2, <1>3, ZeroNotDead, OwnEntries, AnsweredProgress

LEMMA PurgeProgress ==
    ASSUME TypeInv, OwnMeta, NEW p \in Handlers, Purge(p)
    PROVE  Progress(p)
<1>1. h[p].pc = "purge" /\ lapsed' = lapsed /\ l1' = l1 /\ Active(p) /\ Answered(p, 0)
  BY PurgeMoves DEF l1Vars, Active
<1>2. ~Current
  BY <1>1 DEF Current, CurrentOf
<1> QED
  BY ZenonT(40), <1>1, <1>2, ZeroNotDead, OwnEntries, AnsweredProgress

LEMMA RetireProgress ==
    ASSUME TypeInv, OwnMeta, NEW p \in Handlers, Retire(p)
    PROVE  Progress(p)
<1>1. /\ h[p].pc = "retire" /\ lapsed' = lapsed /\ l1' = l1 /\ Active(p)
      /\ meta' = [meta EXCEPT ![h[p].key] = 0]
      /\ Moved(p, "pop_cache", "deleted", h[p].data, h[p].ver)
  BY RetireMoves DEF l1Vars, Active
<1> USE <1>1
<1>2. h[p].op \notin Reads /\ h[p].key \in Keys
  BY RequestTypes, OpsDiffer DEF ShapeOf
<1>3. \A k \in Keys \ {h[p].key} : meta'[k] = meta[k]
  BY DEF TypeInv, StateTypes
<1>4. ASSUME Current, NEW m \in Maps, NEW e \in Entries(l1'[m])
      PROVE  e.data = meta'[e.key] \/ (ClearingAt("pop_cache", m) /\ h[p].key = e.key)
  <2>1. e.data = meta[e.key] /\ l1[m] \in MapSeq
    BY <1>4, SettledEntries DEF PopPcs, TypeInv, StateTypes
  <2>2. e.key \in Keys
    BY <2>1, EntryOf DEF Entry
  <2> QED
    BY ZenonT(40), <1>3, <2>1, <2>2 DEF ClearingAt
<1>5. ~Carrying("pop_cache", "deleted")
  BY DEF Carrying
<1> QED
  BY ZenonT(40), <1>2, <1>4, <1>5, MovedProgress

LEMMA DeletedProgress ==
    ASSUME TypeInv, OwnMeta, NEW p \in Handlers, Deleted(p)
    PROVE  Progress(p)
<1>1. /\ h[p].pc = "deleted" /\ lapsed' = lapsed /\ l1' = l1 /\ meta' = meta /\ Active(p)
      /\ Answered(p, 0)
  BY DeletedMoves DEF redisVars, l1Vars, Active
<1>2. h[p].op \notin Reads
  BY <1>1, RequestTypes, OpsDiffer DEF ShapeOf
<1> QED
  BY ZenonT(40), <1>1, <1>2, OwnEntries, SettledEntries, AnsweredProgress DEF PopPcs

LEMMA PeekProgress ==
    ASSUME TypeInv, OwnMeta, NEW p \in Handlers, Peek(p)
    PROVE  Progress(p)
<1>1. h[p].pc = "peek" /\ lapsed' = lapsed /\ meta' = meta /\ Active(p) /\ Touched("chunks")
  BY PeekMoves DEF redisVars, Active
<1> USE <1>1
<1>2. \A m \in Maps : Entries(l1'[m]) = Entries(l1[m])
  BY DEF Touched
<1>3. h[p].op = "get_stream" /\ h[p].op \in Reads
  BY RequestTypes DEF ShapeOf, Reads
<1>4. CASE Moved(p, "look", h[p].then, h[p].data, h[p].ver)
  <2>1. ~Carrying("look", h[p].then)
    BY DEF Carrying, PopPcs
  <2> QED
    BY ZenonT(40), <1>2, <1>4, <2>1, SettledEntries, MovedProgress DEF PopPcs
<1>5. ASSUME NEW e \in Entries(l1["chunks"]), e.key = h[p].key, Answered(p, e.data) PROVE Progress(p)
  <2>1. Current => e.data = h[p].floor
    <3> SUFFICES ASSUME Current PROVE e.data = h[p].floor
      OBVIOUS
    <3>1. e.data = meta[e.key]
      BY SettledEntries DEF PopPcs, Maps
    <3> QED
      BY ZenonT(40), <1>3, <1>5, <3>1 DEF Current, CurrentOf
  <2> QED
    BY ZenonT(40), <1>2, <1>3, <1>5, <2>1, OwnEntries, SettledEntries, AnsweredProgress DEF PopPcs
<1> QED
  BY ZenonT(40), <1>4, <1>5, PeekMoves

LEMMA LookupProgress ==
    ASSUME TypeInv, OwnMeta, NEW p \in Handlers, Look(p) \/ LookChunks(p)
    PROVE  Progress(p)
<1>1. PICK m \in Maps : \E a \in {"look_chunks", "fetch"} : Lookup(p, m, a)
  BY LookMoves
<1>2. PICK a \in {"look_chunks", "fetch"} : Lookup(p, m, a)
  BY <1>1
<1>3. h[p].pc \in {"look", "look_chunks"}
  BY LookMoves
<1> USE <1>3
<1>4. lapsed' = lapsed /\ meta' = meta /\ Active(p) /\ Touched(m)
  BY ZenonT(40), <1>2, LookupMoves DEF redisVars, Active
<1> USE <1>4
<1>5. \A n \in Maps : Entries(l1'[n]) = Entries(l1[n])
  BY DEF Touched
<1> USE <1>5
<1>6. h[p].op \in Reads /\ h[p].dead \subseteq lapsed /\ (Current => h[p].floor = meta[h[p].key])
  <2>1. h[p].op \in Reads
    BY RequestTypes DEF ShapeOf
  <2> QED
    BY <2>1 DEF OwnMeta, OwnMetaOf, Current, CurrentOf
<1>7. h[p].pc # "reread" /\ h[p].pc \notin PopPcs
  BY DEF PopPcs
<1> USE <1>7
<1>8. ASSUME NEW e \in Entries(l1[m]) PROVE e.meta = e.data /\ (Expired(e) <=> e.data \in lapsed)
  <2>1. e.meta = e.data
    BY OwnEntries
  <2> QED
    BY <2>1 DEF Expired
<1>9. CASE Moved(p, a, h[p].then, h[p].data, h[p].ver)
  <2>1. ~Carrying(a, h[p].then) /\ a \notin PopPcs
    BY DEF Carrying, PopPcs
  <2> QED
    BY ZenonT(40), <1>9, <2>1, SettledEntries, MovedProgress
<1>10. ASSUME NEW e \in Entries(l1[m]), Expired(e), Moved(p, "pop_cache", "purge", h[p].data, e.meta)
       PROVE  Progress(p)
  <2>1. ~Carrying("pop_cache", "purge") /\ lapsed # {}
    BY <1>8, <1>10 DEF Carrying
  <2> QED
    BY ZenonT(40), <1>10, <2>1, MovedProgress
<1>11. ASSUME NEW e \in Entries(l1[m]), e.key = h[p].key, ~Expired(e), Answered(p, e.data)
       PROVE  Progress(p)
  <2> USE <1>11
  <2>1. e.data \notin h[p].dead
    BY <1>6, <1>8
  <2>2. Current => e.data = h[p].floor
    BY <1>6, SettledEntries
  <2> QED
    BY ZenonT(40), <2>1, <2>2, OwnEntries, SettledEntries, AnsweredProgress
<1> QED
  BY ZenonT(40), <1>2, <1>9, <1>10, <1>11, LookupMoves

LEMMA StepProgress ==
    ASSUME TypeInv, LockInv, OwnMeta, NEW p \in Handlers, Step(p)
    PROVE  Progress(p)
<1>1. EvictionFrees
  BY DEF LockInv
<1>2. CASE \/ Store(p) \/ Reread(p) \/ (\E m \in Maps : Pop(p, m)) \/ Insert(p)
           \/ Fit(p) \/ Evict(p) \/ Place(p)
  BY ZenonT(40), <1>1, <1>2, StoreProgress, RereadProgress, PopProgress, InsertProgress, FitProgress,
     EvictProgress, PlaceProgress
<1>3. CASE \/ Live(p) \/ LivePurge(p) \/ Peek(p) \/ Look(p) \/ LookChunks(p)
           \/ Fetch(p) \/ FetchPurge(p) \/ Purge(p) \/ Retire(p) \/ Deleted(p)
  BY ZenonT(40), <1>3, LiveProgress, LivePurgeProgress, PeekProgress, LookupProgress, FetchProgress,
     FetchPurgeProgress, PurgeProgress, RetireProgress, DeletedProgress
<1> QED
  BY <1>2, <1>3 DEF Step

LEMMA StepKeeps ==
    ASSUME NEW p \in Handlers, Step(p)
    PROVE  lapsed' = lapsed /\ overlapped' = overlapped
BY DEF Step, redisVars, Store, Reread, Pop, PopAs, Insert, Fit, Evict, Place, Live, LivePurge, Peek,
       Look, LookChunks, Lookup, Fetch, FetchPurge, Purge, Retire, Deleted

LEMMA StepAlone ==
    ASSUME TypeInv, NEW p \in Handlers, Step(p)
    PROVE  \A q \in Handlers \ {p} : h'[q] = h[q]
<1>1. h \in [Handlers -> Request]
  BY DEF TypeInv
<1>2. ASSUME NEW r, h' = [h EXCEPT ![p] = r] PROVE \A q \in Handlers \ {p} : h'[q] = h[q]
  BY ZenonT(40), <1>1, <1>2
<1>3. \E r : h' = [h EXCEPT ![p] = r]
  BY ZenonT(40) DEF Step, Store, Reread, Pop, PopAs, Insert, Fit, Evict, Place, Live, LivePurge, Peek, Goto,
         Answer, Invalidate, Look, LookChunks, Lookup, Fetch, FetchPurge, Purge, Retire, Deleted
<1> QED
  BY <1>2, <1>3

LEMMA BeginSequential ==
    ASSUME TypeInv, SequentialInv, NEW p \in Handlers, NEW op \in Ops, NEW k \in Keys, Begin(p, op, k)
    PROVE  SequentialInv'
<1>1. /\ Started(p, op, k) /\ ~Active(p) /\ meta' = meta /\ lapsed' = lapsed /\ l1' = l1
      /\ overlapped' = (overlapped \/ \E q \in Handlers \ {p} : Active(q))
  BY BeginMoves DEF Begin, TypeInv, redisVars, l1Vars
<1> USE <1>1
<1>2. ASSUME ~overlapped'
      PROVE  OwnMeta /\ OwnMeta' /\ \A q \in Handlers : ~Active(q)
  <2>1. OwnMeta /\ \A q \in Handlers : ~Active(q)
    BY <1>2 DEF SequentialInv
  <2> USE <2>1
  <2>2. Alone'
    BY ZenonT(40) DEF Alone, Active, Started
  <2>3. OwnMetaOf(p)'
    BY DEF Started, OwnMetaOf, Carrying, PopPcs
  <2>4. \A q \in Handlers \ {p} : OwnMetaOf(q)'
    BY SMTT(15) DEF Started, OwnMeta, OwnMetaOf
  <2> QED
    BY <2>2, <2>3, <2>4 DEF OwnMeta
<1>3. ASSUME ~overlapped', lapsed' = {}
      PROVE  Current'
  <2>1. Current
    BY <1>3 DEF SequentialInv
  <2>2. \A m \in Maps : \A e \in Entries(l1'[m]) : e.data = meta'[e.key]
    BY ZenonT(40), <1>2, <1>3, <2>1 DEF Current, Clearing, ClearingAt, Active
  <2>3. CurrentOf(p)'
    BY DEF Started, CurrentOf, Carrying, PopPcs
  <2>4. \A q \in Handlers \ {p} : CurrentOf(q)'
    BY SMTT(15), <2>1 DEF Started, Current, CurrentOf, Active
  <2> QED
    BY <2>2, <2>3, <2>4 DEF Current
<1> QED
  BY <1>2, <1>3 DEF SequentialInv

OrderInv == LoopInv /\ SequentialInv

LEMMA InitOrder ==
    Init => OrderInv
<1> SUFFICES ASSUME Init PROVE OrderInv
  OBVIOUS
<1>1. LoopInv
  BY InitLoop
<1>2. \A p \in Handlers : h[p].pc = "idle" /\ h[p].dead = {} /\ h[p].verdict = "none"
  BY DEF Init, NoRequest
<1>3. \A m \in Maps : Entries(l1[m]) = {}
  BY SMTT(15) DEF Init, Entries
<1>4. OwnMeta
  BY ZenonT(40), <1>2, <1>3 DEF OwnMeta, OwnMetaOf, Alone, Active, Carrying, PopPcs
<1>5. Current
  BY <1>2, <1>3 DEF Current, CurrentOf, Active, Carrying, PopPcs
<1> QED
  BY ZenonT(40), <1>1, <1>4, <1>5 DEF OrderInv, SequentialInv

LEMMA OrderStep ==
    OrderInv /\ [Next]_vars => OrderInv'
<1> SUFFICES ASSUME OrderInv, [Next]_vars PROVE OrderInv'
  OBVIOUS
<1>1. LoopInv' /\ TypeInv /\ LockInv /\ SequentialInv
  BY ZenonT(40), LoopStep DEF OrderInv, LoopInv
<1> USE <1>1
<1>2. CASE UNCHANGED vars
  BY ZenonT(40), <1>2 DEF OrderInv, SequentialInv, OwnMeta, OwnMetaOf, Alone, Active, Current, CurrentOf,
     Clearing, vars
<1>3. ASSUME NEW g \in TtlGens, TtlPasses(g) PROVE SequentialInv'
  <2>1. lapsed' = lapsed \cup {g} /\ meta' = meta /\ l1' = l1 /\ h' = h /\ overlapped' = overlapped
    BY <1>3 DEF TtlPasses, l1Vars
  <2>2. lapsed' # {}
    BY <2>1
  <2> QED
    BY <2>1, <2>2 DEF SequentialInv, OwnMeta, OwnMetaOf, Alone, Active
<1>4. ASSUME NEW p \in Handlers, NEW op \in Ops, NEW k \in Keys, Begin(p, op, k) PROVE SequentialInv'
  BY ZenonT(40), <1>4, BeginSequential
<1>5. ASSUME NEW p \in Handlers, Step(p) PROVE SequentialInv'
  BY ZenonT(40), <1>5, StepProgress, StepKeeps DEF SequentialInv, Progress
<1> QED
  BY ZenonT(40), <1>2, <1>3, <1>4, <1>5 DEF Next, OrderInv

LEMMA OrderAlways ==
    Spec => []OrderInv
BY InitOrder, OrderStep, PTL DEF Spec

(* While requests come one at a time and nothing expires, a read returns the *)
(* value that was current when it began, whichever RPC wrote it and          *)
(* whichever map answers: every PUT clears both maps before it fills one.    *)
THEOREM SequentialReadsFresh ==
    Spec => []FreshRead
<1>1. OrderInv => FreshRead
  BY DEF OrderInv, SequentialInv, Current, CurrentOf, FreshRead
<1> QED
  BY <1>1, OrderAlways, PTL

(* While requests come one at a time, only the peek of GetStream returns     *)
(* what had expired before the request began.                                *)
THEOREM ExpiryOnlyStreamed ==
    Spec => ExpiredOnlyStreamed
<1> DEFINE Served == ~overlapped => \A p \in Handlers :
              h'[p].verdict = "expired" /\ h[p].verdict # "expired" => h[p].op = "get_stream"
<1>1. OrderInv /\ [Next]_vars => [Served]_vars
  <2> SUFFICES ASSUME OrderInv, Next PROVE Served
    OBVIOUS
  <2>1. TypeInv /\ LockInv /\ SequentialInv
    BY DEF OrderInv, LoopInv
  <2>2. ASSUME NEW p \in Handlers, Step(p) PROVE Served
    <3>1. ~overlapped => Progress(p)
      BY <2>1, <2>2, StepProgress DEF SequentialInv
    <3>2. \A q \in Handlers \ {p} : h'[q] = h[q]
      BY ZenonT(40), <2>1, <2>2, StepAlone
    <3> QED
      BY <3>1, <3>2 DEF Progress
  <2>3. ASSUME NEW p \in Handlers, NEW op \in Ops, NEW k \in Keys, Begin(p, op, k) PROVE Served
    <3>1. Started(p, op, k)
      BY <2>1, <2>3, BeginMoves DEF TypeInv
    <3> QED
      BY <3>1 DEF Started
  <2>4. ASSUME NEW g \in TtlGens, TtlPasses(g) PROVE Served
    BY <2>4 DEF TtlPasses
  <2> QED
    BY ZenonT(40), <2>2, <2>3, <2>4 DEF Next
<1>2. Spec => [][Served]_vars
  BY <1>1, OrderAlways, PTL DEF Spec
<1> QED
  BY <1>2 DEF ExpiredOnlyStreamed
=============================================================================
