--------------------------- MODULE SessionProofs ---------------------------
(* Proofs about RdmaSession, for any connections, extents and bounds: which  *)
(* memory is written and by whom, what a PUT stores, what a GET returns, and *)
(* that request and answer stay in step.                                     *)
EXTENDS RdmaSession, TLAPS

USE ZenonT(10), SMTT(15)

-----------------------------------------------------------------------------
(* Types.  Labels and tags are listed, so that a step's can be told apart.   *)
ClientPcs == {"idle", "ready", "write", "commit", "rejected", "answer", "closed"}
ServerPcs == {"tag", "lookup", "meta", "room", "read", "fallback", "send_pin", "send_new",
              "send_heap", "commit", "store", "inject", "insert", "closed"}
AllOps == Gets \cup Puts \cup {"none"}
UpTags == Gets \cup Puts \cup {"commit", "bye"}
DownTags == {"put_ready", "get_resp", "put_resp", "put_stripes_resp", "body"}
Val == {None} \cup ((Conns \cup {None}) \X Nat)
Place == Extents \cup {None}

Client == [pc : ClientPcs, op : AllOps, id : Nat, val : Val, desc : Nat, ext : Place, buf : Val]
Server == [pc : ServerPcs, op : AllOps, id : Nat, gen : Nat, ext : Place, val : Val]
Entry == [gen : Nat, ext : Place, val : Val]
UpMsg == [tag : UpTags, id : Nat, desc : Nat]
DownMsg == [tag : DownTags, id : Nat, ok : BOOLEAN, ext : Place]

Types ==
    /\ cli \in [Conns -> Client] /\ srv \in [Conns -> Server]
    /\ up \in [Conns -> Seq(UpMsg)] /\ down \in [Conns -> Seq(DownMsg)]
    /\ qp \in SUBSET Conns /\ skipped \in SUBSET Conns /\ mispaired \in SUBSET Nat
    /\ mem \in [Extents -> Val] /\ hold \in [Extents -> SUBSET (Conns \cup {"cache"})]
    /\ l1 \in Entry
    /\ cur \in Nat /\ data \in Seq(Val) /\ files \in SUBSET Nat

-----------------------------------------------------------------------------
(* The inductive invariant: facts about the shared state, and about each     *)
(* connection.                                                               *)
OwnPcs == {"read", "send_new", "commit", "store", "inject", "insert"}
BarePcs == {"tag", "lookup", "meta", "room", "fallback", "closed"}

(* A handler that fills an extent, or lets its client fill it, holds it      *)
(* alone; one that sends from an extent has it pinned.                       *)
OwnAt(c) ==
    /\ srv[c].pc \in OwnPcs => srv[c].ext \in Extents /\ hold[srv[c].ext] = {c}
    /\ srv[c].pc = "send_pin" => srv[c].ext \in Extents
    /\ srv[c].ext # None => c \in hold[srv[c].ext]
    /\ srv[c].pc \in BarePcs => srv[c].ext = None
    /\ srv[c].pc = "closed" => c \notin qp

Stored(v) == \E g \in 1..Len(data) : v = data[g]
Own(g, v) == g \in 1..Len(data) /\ (v = data[g] \/ g \in mispaired)

(* What a handler is about to send, or to cache. *)
ValAt(c) ==
    /\ srv[c].pc \in {"send_new", "inject"} =>
          srv[c].gen \in 1..Len(data) /\ mem[srv[c].ext] = data[srv[c].gen]
    /\ srv[c].pc \in {"send_pin", "send_heap"} =>
          Stored(Source(c)) /\ (srv[c].op # "get" => Own(srv[c].gen, Source(c)))
    /\ srv[c].pc = "insert" => Stored(mem[srv[c].ext]) /\ Own(srv[c].gen, mem[srv[c].ext])

(* The streams of a connection whose server still runs, in step or not: an   *)
(* offer of an extent is out, or taken up by the client, only while the      *)
(* server waits for COMMIT, and the COMMIT it then reads is of its request.  *)
Offer(c, i) == down[c][i].tag = "put_ready" /\ down[c][i].ok
CommitNext(c) == Len(up[c]) > 0 /\ up[c][1].tag = "commit"

OfferAt(c) ==
    /\ \A i \in 1..Len(down[c]) : Offer(c, i) =>
          /\ srv[c].pc = "commit" /\ ~CommitNext(c) /\ down[c][i].ext = srv[c].ext
          /\ \A j \in 1..Len(down[c]) : Offer(c, j) => i = j
    /\ cli[c].pc \in {"write", "commit"} =>
          /\ srv[c].pc = "commit" /\ ~CommitNext(c) /\ cli[c].ext = srv[c].ext
          /\ \A i \in 1..Len(down[c]) : ~Offer(c, i)

CommitAt(c) ==
    /\ \A i \in 1..Len(up[c]) : up[c][i].tag = "commit" =>
          srv[c].pc = "commit" /\ (CommitNext(c) => i = 1)
    /\ srv[c].pc = "commit" /\ CommitNext(c) =>
          up[c][1].id = srv[c].id /\ mem[srv[c].ext] = <<c, srv[c].id>>
    /\ srv[c].pc = "store" => mem[srv[c].ext] = <<c, srv[c].id>>
    /\ srv[c].pc # "tag" /\ Len(up[c]) = 0 => srv[c].id = cli[c].id
    /\ cli[c].pc = "commit" => mem[cli[c].ext] = cli[c].val

StreamAt(c) ==
    /\ srv[c].pc # "closed" => OfferAt(c) /\ CommitAt(c)
    /\ Len(up[c]) > 0 /\ up[c][Len(up[c])].tag # "bye" => up[c][Len(up[c])].id = cli[c].id
    /\ cli[c].pc \in {"ready", "write", "commit"} => cli[c].val = <<c, cli[c].id>>

(* The phases of a connection in step: what is under way on the streams, and *)
(* which of the two ends moves next.                                         *)
GetPcs == {"lookup", "meta", "room", "read", "fallback", "send_pin", "send_new", "send_heap"}
StorePcs == {"store", "inject", "insert"}
Described == {"get_descriptor", "get_stripes"}

SameRequest(c) ==
    /\ srv[c].op = cli[c].op /\ srv[c].id = cli[c].id
    /\ cli[c].op \in Described => srv[c].gen = cli[c].desc

IdlePhase(c) ==
    /\ cli[c].pc = "idle" /\ srv[c].pc \in {"tag", "commit"}
    /\ Len(up[c]) = 0 /\ Len(down[c]) = 0

AskedPhase(c) ==
    /\ srv[c].pc \in {"tag", "commit"} /\ Len(up[c]) = 1 /\ Len(down[c]) = 0
    /\ up[c][1].tag = cli[c].op /\ up[c][1].id = cli[c].id
    /\ cli[c].op \in Described => up[c][1].desc = cli[c].desc
    /\ \/ cli[c].op \in Gets /\ cli[c].pc = "answer"
       \/ cli[c].op \in Puts /\ cli[c].pc = "ready"

ServingPhase(c) ==
    /\ SameRequest(c) /\ Len(up[c]) = 0 /\ Len(down[c]) = 0
    /\ \/ cli[c].op \in Gets /\ cli[c].pc = "answer" /\ srv[c].pc \in GetPcs
       \/ cli[c].op \in Puts /\ cli[c].pc = "ready" /\ srv[c].pc = "room"
       \/ cli[c].op \in Puts /\ cli[c].pc = "answer" /\ srv[c].pc \in StorePcs

PromisedPhase(c) ==
    /\ SameRequest(c) /\ cli[c].op \in Puts /\ srv[c].pc = "commit"
    /\ \/ /\ cli[c].pc = "ready" /\ Len(up[c]) = 0 /\ Len(down[c]) = 2
          /\ Offer(c, 1) /\ down[c][1].id = cli[c].id /\ down[c][2].id = cli[c].id
       \/ cli[c].pc \in {"write", "commit"} /\ Len(up[c]) = 0 /\ Len(down[c]) = 0
       \/ /\ cli[c].pc = "answer" /\ Len(up[c]) = 1 /\ up[c][1].tag = "commit"
          /\ Len(down[c]) = 0

ReplyTag(op) ==
    IF op \in Gets THEN "get_resp" ELSE IF op = "put_stripes" THEN "put_stripes_resp" ELSE "put_resp"

AnsweredPhase(c) ==
    /\ srv[c].pc = "tag" /\ Len(up[c]) = 0 /\ cli[c].op \in Gets \cup Puts
    /\ \A i \in 1..Len(down[c]) : down[c][i].id = cli[c].id
    /\ \/ /\ cli[c].pc \in {"answer", "rejected"} /\ Len(down[c]) = 2
          /\ down[c][1].tag = ReplyTag(cli[c].op)
       \/ /\ cli[c].pc = "ready" /\ cli[c].op \in Puts /\ Len(down[c]) = 4
          /\ down[c][1].tag = "put_ready" /\ ~down[c][1].ok
          /\ down[c][3].tag = ReplyTag(cli[c].op)
    /\ cli[c].op \in Gets /\ down[c][1].ok =>
          Stored(cli[c].buf) /\ (cli[c].op \in Described => Own(cli[c].desc, cli[c].buf))

GonePhase(c) == srv[c].pc = "closed" /\ Len(down[c]) = 0

PhaseAt(c) ==
    c \notin skipped /\ cli[c].pc # "closed" =>
        \/ IdlePhase(c) \/ AskedPhase(c) \/ ServingPhase(c) \/ PromisedPhase(c)
        \/ AnsweredPhase(c) \/ GonePhase(c)

(* What the connections share: the cache has exactly its entry's extent, and *)
(* the entry has bytes that were stored, under their own generation but for  *)
(* the mispaired ones.                                                       *)
CacheHeld ==
    /\ \A e \in Extents : "cache" \in hold[e] <=> l1.ext = e
    /\ l1.gen = 0 => l1.ext = None

Cached == IF l1.ext = None THEN l1.val ELSE mem[l1.ext]

CacheInv ==
    /\ CacheHeld
    /\ l1.gen # 0 => Stored(Cached) /\ Own(l1.gen, Cached)
    /\ cur \in 0..Len(data) /\ files \in SUBSET (1..Len(data))

ConnAt(c) == OwnAt(c) /\ ValAt(c) /\ StreamAt(c) /\ PhaseAt(c)

SessionInv == Types /\ CacheInv /\ \A c \in Conns : ConnAt(c)

-----------------------------------------------------------------------------
(* Streams, element by element. *)
LEMMA AppendSeq ==
    ASSUME NEW S, NEW s \in Seq(S), NEW m \in S
    PROVE  /\ Append(s, m) \in Seq(S) /\ Len(s) \in Nat /\ Len(Append(s, m)) = Len(s) + 1
           /\ \A i \in 1..Len(s) : Append(s, m)[i] = s[i]
           /\ Append(s, m)[Len(s) + 1] = m
BY SMTT(15)

LEMMA TailSeq ==
    ASSUME NEW S, NEW s \in Seq(S), s # <<>>
    PROVE  /\ Tail(s) \in Seq(S) /\ Len(s) \in Nat /\ Len(s) > 0 /\ Len(Tail(s)) = Len(s) - 1
           /\ \A i \in 1..Len(s) - 1 : Tail(s)[i] = s[i + 1]
           /\ Head(s) = s[1] /\ s[1] \in S
BY SMTT(15)

LEMMA ConcatSeq ==
    ASSUME NEW S, NEW s \in Seq(S), NEW t \in Seq(S)
    PROVE  /\ s \o t \in Seq(S) /\ Len(s) \in Nat /\ Len(t) \in Nat
           /\ Len(s \o t) = Len(s) + Len(t)
           /\ \A i \in 1..Len(s) : (s \o t)[i] = s[i]
           /\ \A i \in 1..Len(t) : (s \o t)[Len(s) + i] = t[i]
BY SMTT(15)

LEMMA DropSeq ==
    ASSUME NEW S, NEW s \in Seq(S), NEW n \in {1, 2}, n <= Len(s)
    PROVE  /\ SubSeq(s, n + 1, Len(s)) \in Seq(S) /\ Len(s) \in Nat
           /\ Len(SubSeq(s, n + 1, Len(s))) = Len(s) - n
           /\ \A i \in 1..Len(s) - n : SubSeq(s, n + 1, Len(s))[i] = s[i + n]
BY SMTT(15)

-----------------------------------------------------------------------------
(* The steps, as what they change. *)
ClientIs(c, pc, op, id, val, desc, ext, buf) ==
    /\ cli' \in [Conns -> Client] /\ \A d \in Conns \ {c} : cli'[d] = cli[d]
    /\ cli'[c].pc = pc /\ cli'[c].op = op /\ cli'[c].id = id /\ cli'[c].val = val
    /\ cli'[c].desc = desc /\ cli'[c].ext = ext /\ cli'[c].buf = buf

ServerIs(c, pc, op, id, gen, ext, val) ==
    /\ srv' \in [Conns -> Server] /\ \A d \in Conns \ {c} : srv'[d] = srv[d]
    /\ srv'[c].pc = pc /\ srv'[c].op = op /\ srv'[c].id = id /\ srv'[c].gen = gen
    /\ srv'[c].ext = ext /\ srv'[c].val = val

Posted(c, m) ==
    /\ up' \in [Conns -> Seq(UpMsg)] /\ \A d \in Conns \ {c} : up'[d] = up[d]
    /\ Len(up[c]) \in Nat /\ Len(up'[c]) = Len(up[c]) + 1
    /\ \A i \in 1..Len(up[c]) : up'[c][i] = up[c][i]
    /\ up'[c][Len(up[c]) + 1] = m

Fetched(c) ==
    /\ up' \in [Conns -> Seq(UpMsg)] /\ \A d \in Conns \ {c} : up'[d] = up[d]
    /\ Len(up[c]) \in Nat /\ Len(up[c]) > 0 /\ Len(up'[c]) = Len(up[c]) - 1
    /\ \A i \in 1..Len(up[c]) - 1 : up'[c][i] = up[c][i + 1]

Replied(c, n) ==
    /\ down' \in [Conns -> Seq(DownMsg)] /\ \A d \in Conns \ {c} : down'[d] = down[d]
    /\ Len(down[c]) \in Nat /\ Len(down'[c]) = Len(down[c]) + n
    /\ \A i \in 1..Len(down[c]) : down'[c][i] = down[c][i]

Reads(c, n) ==
    /\ down' \in [Conns -> Seq(DownMsg)] /\ \A d \in Conns \ {c} : down'[d] = down[d]
    /\ Len(down[c]) \in Nat /\ Len(down[c]) >= n /\ Len(down'[c]) = Len(down[c]) - n
    /\ \A i \in 1..Len(down[c]) - n : down'[c][i] = down[c][i + n]

LEMMA ClientToIs ==
    ASSUME Types, NEW c \in Conns, NEW l \in ClientPcs, ClientTo(c, l)
    PROVE  ClientIs(c, l, cli[c].op, cli[c].id, cli[c].val, cli[c].desc, cli[c].ext, cli[c].buf)
BY DEF Types, ClientTo, ClientIs, Client

LEMMA ClientReturnsIs ==
    ASSUME Types, NEW c \in Conns, NEW l \in ClientPcs, ClientReturns(c, l)
    PROVE  ClientIs(c, l, "none", cli[c].id, None, 0, None, None)
BY DEF Types, ClientReturns, Idle, ClientIs, Client, AllOps, Val, Place

LEMMA ServerToIs ==
    ASSUME Types, NEW c \in Conns, NEW l \in ServerPcs, ServerTo(c, l)
    PROVE  ServerIs(c, l, srv[c].op, srv[c].id, srv[c].gen, srv[c].ext, srv[c].val)
BY DEF Types, ServerTo, ServerIs, Server

LEMMA WaitingIs ==
    ASSUME Types, NEW c \in Conns, NEW l \in ServerPcs,
           srv' = [srv EXCEPT ![c] = [Waiting EXCEPT !.pc = l]]
    PROVE  ServerIs(c, l, "none", 0, 0, None, None)
BY DEF Types, Waiting, ServerIs, Server, AllOps, Val, Place

LEMMA FinishedIs ==
    ASSUME Types, NEW c \in Conns, srv' = [srv EXCEPT ![c] = Waiting]
    PROVE  ServerIs(c, "tag", "none", 0, 0, None, None)
BY DEF Types, Waiting, ServerIs, Server, ServerPcs, AllOps, Val, Place

LEMMA PostedIs ==
    ASSUME Types, NEW c \in Conns, NEW m \in UpMsg, up' = [up EXCEPT ![c] = Append(@, m)]
    PROVE  Posted(c, m)
BY SMTT(15), AppendSeq DEF Types, Posted

LEMMA FetchedIs ==
    ASSUME Types, NEW c \in Conns, up[c] # <<>>, up' = [up EXCEPT ![c] = Tail(@)]
    PROVE  Fetched(c) /\ Head(up[c]) = up[c][1] /\ up[c][1] \in UpMsg
BY ZenonT(40), TailSeq DEF Types, Fetched

LEMMA LastTaken ==
    ASSUME NEW s, NEW t, Len(s) \in Nat, Len(s) > 0, Len(t) = Len(s) - 1,
           \A i \in 1..Len(s) - 1 : t[i] = s[i + 1]
    PROVE  Len(t) > 0 => t[Len(t)] = s[Len(s)]
BY SMTT(15)

LEMMA ReadsIs ==
    ASSUME Types, NEW c \in Conns, NEW n \in {1, 2}, n <= Len(down[c]), Takes(c, n)
    PROVE  Reads(c, n)
BY SMTT(15), DropSeq DEF Types, Takes, Reads

LEMMA ReplyTypes ==
    ASSUME Types, NEW c \in Conns, NEW tag \in DownTags, NEW ok \in BOOLEAN, NEW e \in Place
    PROVE  Answer(c, tag, ok, e) \in DownMsg /\ Body(c) \in DownMsg
BY DEF Types, Answer, Body, DownMsg, Server, DownTags, Place

LEMMA SentIs ==
    ASSUME Types, NEW c \in Conns, NEW t \in Seq(DownMsg), down' = [down EXCEPT ![c] = @ \o t]
    PROVE  /\ Replied(c, Len(t))
           /\ \A i \in 1..Len(t) : down'[c][Len(down[c]) + i] = t[i]
<1>1. down[c] \in Seq(DownMsg) /\ down'[c] = down[c] \o t /\ \A d \in Conns \ {c} : down'[d] = down[d]
  BY DEF Types
<1>2. down[c] \o t \in Seq(DownMsg)
  BY <1>1, ConcatSeq
<1>3. down' \in [Conns -> Seq(DownMsg)]
  BY <1>2 DEF Types
<1> QED
  BY SMTT(15), <1>1, <1>3, ConcatSeq DEF Replied

LEMMA PairSeq ==
    ASSUME NEW S, NEW a \in S, NEW b \in S
    PROVE  <<a, b>> \in Seq(S) /\ Len(<<a, b>>) = 2 /\ <<a, b>>[1] = a /\ <<a, b>>[2] = b
BY SMTT(15)

LEMMA TwoPairs ==
    ASSUME NEW S, NEW a \in S, NEW b \in S, NEW x \in S, NEW y \in S
    PROVE  /\ <<a, b>> \o <<x, y>> \in Seq(S) /\ Len(<<a, b>> \o <<x, y>>) = 4
           /\ (<<a, b>> \o <<x, y>>)[1] = a /\ (<<a, b>> \o <<x, y>>)[2] = b
           /\ (<<a, b>> \o <<x, y>>)[3] = x /\ (<<a, b>> \o <<x, y>>)[4] = y
BY SMTT(15)

LEMMA SendsIs ==
    ASSUME Types, NEW c \in Conns, NEW tag \in DownTags, NEW ok \in BOOLEAN, NEW e \in Place
    PROVE  /\ Sends(c, tag, ok, e) \in Seq(DownMsg) /\ Len(Sends(c, tag, ok, e)) = 2
           /\ Sends(c, tag, ok, e)[1] = Answer(c, tag, ok, e) /\ Sends(c, tag, ok, e)[2] = Body(c)
BY ReplyTypes, PairSeq DEF Sends

LEMMA RepliedIs ==
    ASSUME Types, NEW c \in Conns, NEW tag \in DownTags, NEW ok \in BOOLEAN, NEW e \in Place,
           down' = [down EXCEPT ![c] = @ \o Sends(c, tag, ok, e)]
    PROVE  /\ Replied(c, 2)
           /\ down'[c][Len(down[c]) + 1] = Answer(c, tag, ok, e)
           /\ down'[c][Len(down[c]) + 2] = Body(c)
<1> DEFINE t == Sends(c, tag, ok, e)
<1>1. t \in Seq(DownMsg) /\ Len(t) = 2 /\ t[1] = Answer(c, tag, ok, e) /\ t[2] = Body(c)
  BY SendsIs
<1>2. down' = [down EXCEPT ![c] = @ \o t]
  OBVIOUS
<1> HIDE DEF t
<1>3. Replied(c, Len(t)) /\ \A i \in 1..Len(t) : down'[c][Len(down[c]) + i] = t[i]
  BY <1>1, <1>2, SentIs
<1>4. Replied(c, 2)
  BY <1>1, <1>3
<1>5. 1 \in 1..Len(t) /\ 2 \in 1..Len(t)
  BY SMTT(15), <1>1
<1> QED
  BY <1>1, <1>3, <1>4, <1>5

LEMMA RejectedIs ==
    ASSUME Types, NEW c \in Conns,
           down' = [down EXCEPT ![c] = @ \o (Sends(c, "put_ready", FALSE, None) \o
                                             Sends(c, PutAnswer(c), FALSE, None))]
    PROVE  /\ Replied(c, 4)
           /\ down'[c][Len(down[c]) + 1] = Answer(c, "put_ready", FALSE, None)
           /\ down'[c][Len(down[c]) + 2] = Body(c)
           /\ down'[c][Len(down[c]) + 3] = Answer(c, PutAnswer(c), FALSE, None)
           /\ down'[c][Len(down[c]) + 4] = Body(c)
<1> DEFINE u == Sends(c, "put_ready", FALSE, None) \o Sends(c, PutAnswer(c), FALSE, None)
<1>1. PutAnswer(c) \in DownTags /\ "put_ready" \in DownTags /\ None \in Place /\ FALSE \in BOOLEAN
  BY DEF PutAnswer, DownTags, Place
<1> DEFINE a == Answer(c, "put_ready", FALSE, None)
           b == Body(c)
           x == Answer(c, PutAnswer(c), FALSE, None)
<1>2. a \in DownMsg /\ b \in DownMsg /\ x \in DownMsg
  BY <1>1, ReplyTypes
<1>3. u = <<a, b>> \o <<x, b>>
  BY DEF Sends
<1>4. down' = [down EXCEPT ![c] = @ \o u]
  OBVIOUS
<1> HIDE DEF u, a, b, x
<1>5. u \in Seq(DownMsg) /\ Len(u) = 4 /\ u[1] = a /\ u[2] = b /\ u[3] = x /\ u[4] = b
  BY SMTT(15), <1>2, <1>3, TwoPairs
<1>6. Replied(c, Len(u)) /\ \A i \in 1..Len(u) : down'[c][Len(down[c]) + i] = u[i]
  BY <1>4, <1>5, SentIs
<1>7. Replied(c, 4)
  BY <1>5, <1>6
<1>8. 1 \in 1..Len(u) /\ 2 \in 1..Len(u) /\ 3 \in 1..Len(u) /\ 4 \in 1..Len(u)
  BY SMTT(15), <1>5
<1> QED
  BY <1>5, <1>6, <1>7, <1>8 DEF a, b, x

-----------------------------------------------------------------------------
(* What a step of connection c leaves to the other connections. *)
DataGrows ==
    /\ Len(data) \in Nat /\ Len(data') \in Nat /\ Len(data) <= Len(data')
    /\ \A g \in 1..Len(data) : data'[g] = data[g]
    /\ mispaired \subseteq mispaired'

Calm(c) ==
    /\ \A d \in Conns \ {c} :
          /\ cli'[d] = cli[d] /\ srv'[d] = srv[d] /\ up'[d] = up[d] /\ down'[d] = down[d]
          /\ (d \in qp' => d \in qp) /\ (d \in skipped => d \in skipped')
          /\ \A e \in Extents : (d \in hold[e] => d \in hold'[e]) /\ (hold[e] = {d} => hold'[e] = {d})
    /\ \A e \in Extents : mem'[e] # mem[e] => hold[e] \subseteq {c}
    /\ DataGrows

LEMMA StoredKept ==
    ASSUME DataGrows, NEW v
    PROVE  (Stored(v) => Stored(v)') /\ \A g : Own(g, v) => Own(g, v)'
BY SMTT(15) DEF DataGrows, Stored, Own

LEMMA PhaseKept ==
    ASSUME DataGrows, NEW d \in Conns, PhaseAt(d), d \in skipped => d \in skipped',
           cli'[d] = cli[d], srv'[d] = srv[d], up'[d] = up[d], down'[d] = down[d]
    PROVE  PhaseAt(d)'
<1> SUFFICES ASSUME d \notin skipped, cli[d].pc # "closed"
             PROVE  (\/ IdlePhase(d) \/ AskedPhase(d) \/ ServingPhase(d) \/ PromisedPhase(d)
                     \/ AnsweredPhase(d) \/ GonePhase(d))'
  BY DEF PhaseAt
<1>1. CASE IdlePhase(d)
  BY <1>1 DEF IdlePhase
<1>2. CASE AskedPhase(d)
  BY <1>2 DEF AskedPhase
<1>3. CASE ServingPhase(d)
  BY <1>3 DEF ServingPhase, SameRequest
<1>4. CASE PromisedPhase(d)
  BY <1>4 DEF PromisedPhase, SameRequest, Offer
<1>5. CASE AnsweredPhase(d)
  BY <1>5, StoredKept DEF AnsweredPhase
<1>6. CASE GonePhase(d)
  BY <1>6 DEF GonePhase
<1> QED
  BY <1>1, <1>2, <1>3, <1>4, <1>5, <1>6 DEF PhaseAt

LEMMA OthersKeep ==
    ASSUME Types, NEW c, Calm(c), NEW d \in Conns \ {c}, ConnAt(d)
    PROVE  ConnAt(d)'
<1>1. /\ cli'[d] = cli[d] /\ srv'[d] = srv[d] /\ up'[d] = up[d] /\ down'[d] = down[d]
      /\ (d \in qp' => d \in qp) /\ (d \in skipped => d \in skipped') /\ DataGrows
      /\ \A e \in Extents : (d \in hold[e] => d \in hold'[e]) /\ (hold[e] = {d} => hold'[e] = {d})
  BY DEF Calm
<1> USE <1>1
<1>2. srv[d].ext \in Place /\ OwnAt(d) /\ ValAt(d) /\ StreamAt(d) /\ PhaseAt(d)
  BY DEF Types, Server, ConnAt
<1> USE <1>2
<1>3. OwnAt(d)'
  BY DEF OwnAt, Place
<1>4. srv[d].ext # None => mem'[srv[d].ext] = mem[srv[d].ext]
  BY DEF OwnAt, Place, Calm
<1>5. srv[d].pc \in OwnPcs => srv[d].ext # None
  BY SessionAssumption DEF OwnAt
<1>6. ValAt(d)'
  <2>1. Source(d)' = Source(d)
    BY <1>4 DEF Source
  <2> QED
    BY SMTT(15), <1>4, <1>5, <2>1, StoredKept DEF ValAt, OwnPcs, DataGrows
<1>7. StreamAt(d)'
  <2>1. ASSUME OfferAt(d) PROVE OfferAt(d)'
    BY SMTT(15), <2>1 DEF OfferAt, Offer, CommitNext
  <2>2. ASSUME OfferAt(d), CommitAt(d) PROVE CommitAt(d)'
    BY <1>4, <1>5, <2>2 DEF CommitAt, OfferAt, CommitNext, OwnPcs
  <2> QED
    BY <2>1, <2>2 DEF StreamAt
<1> QED
  BY <1>3, <1>6, <1>7, PhaseKept DEF ConnAt

-----------------------------------------------------------------------------
(* The kinds of step a server thread takes, and its own connection. *)

(* A GET goes on to its next call: nothing is sent. *)
LEMMA ServerMoves ==
    ASSUME NEW c \in Conns, StreamAt(c), PhaseAt(c), skipped' = skipped,
           srv[c].pc \in GetPcs, srv'[c].pc \in GetPcs, srv[c].pc = "room" => srv[c].op \notin Puts,
           srv'[c].op = srv[c].op, srv'[c].id = srv[c].id,
           srv[c].op \in Described => srv'[c].gen = srv[c].gen,
           cli'[c] = cli[c], up'[c] = up[c], down'[c] = down[c]
    PROVE  StreamAt(c)' /\ PhaseAt(c)'
<1>1. StreamAt(c)'
  BY DEF StreamAt, OfferAt, CommitAt, Offer, CommitNext, GetPcs
<1>2. ASSUME c \notin skipped, cli[c].pc # "closed" PROVE ServingPhase(c)
  BY <1>2 DEF PhaseAt, IdlePhase, AskedPhase, PromisedPhase, AnsweredPhase, GonePhase, GetPcs
<1>3. ASSUME ServingPhase(c) PROVE ServingPhase(c)'
  BY <1>3 DEF ServingPhase, SameRequest, GetPcs, StorePcs
<1> QED
  BY <1>1, <1>2, <1>3 DEF PhaseAt

(* The answer goes out and the handler waits for the next request. *)
LEMMA ServerAnswers ==
    ASSUME NEW c \in Conns, StreamAt(c), PhaseAt(c), skipped' = skipped,
           NEW tag, NEW ok \in BOOLEAN,
           srv[c].pc \in (GetPcs \ {"room"}) \cup StorePcs,
           tag = IF srv[c].pc \in StorePcs THEN PutAnswer(c) ELSE "get_resp",
           ServerIs(c, "tag", "none", 0, 0, None, None), Replied(c, 2),
           down'[c][Len(down[c]) + 1] = Answer(c, tag, ok, None), down'[c][Len(down[c]) + 2] = Body(c),
           cli'[c].pc = cli[c].pc, cli'[c].op = cli[c].op, cli'[c].id = cli[c].id,
           cli'[c].val = cli[c].val, cli'[c].desc = cli[c].desc, up' = up, UNCHANGED <<data, mispaired>>,
           srv[c].pc \in GetPcs /\ ok =>
               Stored(cli'[c].buf) /\ (srv[c].op # "get" => Own(srv[c].gen, cli'[c].buf))
    PROVE  StreamAt(c)' /\ PhaseAt(c)'
<1>1. /\ srv'[c].pc = "tag" /\ Len(down[c]) \in Nat /\ Len(down'[c]) = Len(down[c]) + 2
      /\ \A i \in 1..Len(down[c]) : down'[c][i] = down[c][i]
  BY DEF ServerIs, Replied
<1> USE <1>1
<1>2. /\ down'[c][Len(down[c]) + 1].tag = tag /\ down'[c][Len(down[c]) + 1].id = srv[c].id
      /\ down'[c][Len(down[c]) + 1].ok = ok
      /\ down'[c][Len(down[c]) + 2].tag = "body" /\ down'[c][Len(down[c]) + 2].id = srv[c].id
      /\ tag # "put_ready"
  BY SMTT(15) DEF Answer, Body, PutAnswer
<1>3. StreamAt(c)'
  <2>1. OfferAt(c) /\ CommitAt(c)
    BY DEF StreamAt, GetPcs, StorePcs
  <2>2. ASSUME NEW i \in 1..Len(down'[c]) PROVE ~Offer(c, i)'
    <3>1. i \in 1..Len(down[c]) \/ i = Len(down[c]) + 1 \/ i = Len(down[c]) + 2
      BY SMTT(15)
    <3>2. \A j \in 1..Len(down[c]) : ~Offer(c, j)
      BY <2>1 DEF OfferAt, GetPcs, StorePcs
    <3> QED
      BY <1>2, <3>1, <3>2 DEF Offer
  <2>3. OfferAt(c)'
    BY <2>1, <2>2 DEF OfferAt, GetPcs, StorePcs
  <2>4. CommitAt(c)'
    BY <2>1 DEF OfferAt, CommitAt, CommitNext, GetPcs, StorePcs
  <2> QED
    BY <2>3, <2>4 DEF StreamAt
<1>4. ASSUME c \notin skipped, cli[c].pc # "closed" PROVE ServingPhase(c)
  BY <1>4 DEF PhaseAt, IdlePhase, AskedPhase, PromisedPhase, AnsweredPhase, GonePhase, GetPcs, StorePcs
<1>5. ASSUME ServingPhase(c) PROVE AnsweredPhase(c)'
  <2>1. /\ cli[c].op \in Gets \cup Puts /\ cli[c].pc = "answer" /\ Len(up[c]) = 0 /\ Len(down[c]) = 0
        /\ srv[c].op = cli[c].op /\ srv[c].id = cli[c].id
        /\ cli[c].op \in Described => srv[c].gen = cli[c].desc
        /\ cli[c].op \in Gets <=> srv[c].pc \in GetPcs
    BY <1>5 DEF ServingPhase, SameRequest, GetPcs, StorePcs, Gets, Puts
  <2>2. tag = ReplyTag(cli[c].op)
    BY <2>1 DEF ReplyTag, PutAnswer, GetPcs, StorePcs
  <2>3. cli[c].op \in Gets /\ down'[c][1].ok =>
          Stored(cli'[c].buf) /\ (cli[c].op \in Described => Own(cli[c].desc, cli'[c].buf))
    <3>1. down'[c][1].ok => ok
      BY SMTT(15), <1>2, <2>1
    <3>2. cli[c].op \in Described => srv[c].op # "get" /\ srv[c].gen = cli[c].desc
      BY <2>1 DEF Described
    <3> QED
      BY <2>1, <3>1, <3>2
  <2>4. Len(down'[c]) = 2 /\ down'[c][1].tag = tag /\ \A i \in 1..Len(down'[c]) : down'[c][i].id = cli[c].id
    BY SMTT(15), <1>2, <2>1
  <2> QED
    BY <2>1, <2>2, <2>3, <2>4 DEF AnsweredPhase, Stored, Own
<1> QED
  BY <1>3, <1>4, <1>5 DEF PhaseAt

(* The thread is gone. *)
LEMMA ServerEnds ==
    ASSUME NEW c \in Conns, StreamAt(c), PhaseAt(c), skipped' = skipped,
           ServerIs(c, "closed", "none", 0, 0, None, None), cli'[c] = cli[c], down'[c] = down[c],
           c \notin qp', up'[c] = up[c] \/ Fetched(c),
           c \notin skipped /\ cli[c].pc # "closed" => Len(down[c]) = 0
    PROVE  ConnAt(c)'
<1>1. srv'[c].pc = "closed" /\ srv'[c].ext = None
  BY DEF ServerIs
<1>2. OwnAt(c)' /\ ValAt(c)'
  BY <1>1 DEF OwnAt, ValAt, OwnPcs
<1>3. StreamAt(c)'
  BY SMTT(15), <1>1 DEF StreamAt, Fetched
<1>4. PhaseAt(c)'
  BY <1>1 DEF PhaseAt, GonePhase
<1> QED
  BY <1>2, <1>3, <1>4 DEF ConnAt

-----------------------------------------------------------------------------
(* The references to extents.  Whatever a handler does with them, the others *)
(* keep theirs, what another holds alone stays so, and the cache's are those *)
(* of its entry.                                                             *)
HoldStep(c) ==
    /\ hold' \in [Extents -> SUBSET (Conns \cup {"cache"})]
    /\ \A d \in Conns \ {c}, e \in Extents :
          (d \in hold[e] => d \in hold'[e]) /\ (hold[e] = {d} => hold'[e] = {d})
    /\ CacheHeld'

LEMMA SameHold ==
    ASSUME Types, CacheHeld, NEW c, hold' = hold, l1' = l1
    PROVE  HoldStep(c)
BY DEF Types, HoldStep, CacheHeld

LEMMA WithoutHold ==
    ASSUME Types, CacheHeld, NEW c \in Conns, hold' = Without(c), l1' = l1
    PROVE  HoldStep(c)
<1>1. \A e \in Extents : hold'[e] = hold[e] \ {c}
  BY DEF Without
<1>2. hold' \in [Extents -> SUBSET (Conns \cup {"cache"})]
  BY DEF Types, Without
<1> QED
  BY ZenonT(40), <1>1, <1>2, SessionAssumption DEF HoldStep, CacheHeld

LEMMA DropHold ==
    ASSUME Types, CacheHeld, NEW c \in Conns, DropL1
    PROVE  HoldStep(c) /\ l1' = NoEntry /\ l1' \in Entry /\ l1'.gen = 0 /\ l1'.ext = None
<1>1. \A e \in Extents : hold'[e] = hold[e] \ {"cache"}
  BY DEF DropL1
<1>2. hold' \in [Extents -> SUBSET (Conns \cup {"cache"})]
  BY DEF Types, DropL1
<1>3. l1' = NoEntry /\ l1' \in Entry /\ l1'.gen = 0 /\ l1'.ext = None
  BY DEF DropL1, NoEntry, Entry, Place, Val
<1> QED
  BY ZenonT(40), <1>1, <1>2, <1>3, SessionAssumption DEF HoldStep, CacheHeld

LEMMA PinHold ==
    ASSUME Types, CacheHeld, NEW c \in Conns, l1.ext \in Extents, l1' = l1,
           hold' = [hold EXCEPT ![l1.ext] = @ \cup {c}]
    PROVE  HoldStep(c) /\ c \in hold'[l1.ext]
<1>1. \A e \in Extents : hold'[e] = IF e = l1.ext THEN hold[e] \cup {c} ELSE hold[e]
  BY DEF Types
<1>2. hold' \in [Extents -> SUBSET (Conns \cup {"cache"})]
  BY DEF Types
<1>3. "cache" \in hold[l1.ext] /\ "cache" \notin Conns
  BY SessionAssumption DEF CacheHeld
<1> QED
  BY ZenonT(40), <1>1, <1>2, <1>3 DEF HoldStep, CacheHeld

LEMMA RoomHold ==
    ASSUME Types, CacheHeld, NEW c \in Conns, NEW e \in Extents, hold[e] = {}, l1' = l1,
           hold' = [hold EXCEPT ![e] = @ \cup {c}]
    PROVE  HoldStep(c) /\ hold'[e] = {c}
<1>1. \A f \in Extents : hold'[f] = IF f = e THEN {c} ELSE hold[f]
  BY DEF Types
<1>2. hold' \in [Extents -> SUBSET (Conns \cup {"cache"})]
  BY DEF Types
<1> QED
  BY <1>1, <1>2, SessionAssumption DEF HoldStep, CacheHeld

LEMMA CacheExtentHold ==
    ASSUME Types, CacheHeld, NEW c \in Conns, NEW g \in Nat, g # 0, CacheExtent(c, g),
           srv[c].ext \in Extents, hold[srv[c].ext] = {c}
    PROVE  HoldStep(c) /\ l1' \in Entry /\ l1'.gen = g /\ l1'.ext = srv[c].ext
<1>1. \A e \in Extents : hold'[e] = IF e = srv[c].ext THEN {"cache"} ELSE hold[e] \ {"cache", c}
  BY DEF CacheExtent
<1>2. hold' \in [Extents -> SUBSET (Conns \cup {"cache"})]
  BY DEF Types, CacheExtent
<1>3. l1' \in Entry /\ l1'.gen = g /\ l1'.ext = srv[c].ext
  BY DEF CacheExtent, Entry, Place, Val
<1> QED
  BY SMTT(15), <1>1, <1>2, <1>3, SessionAssumption DEF HoldStep, CacheHeld

LEMMA GiveUpHold ==
    ASSUME Types, CacheHeld, NEW c \in Conns, srv[c].ext \in Extents, l1' = l1,
           hold' = [hold EXCEPT ![srv[c].ext] = @ \ {c}]
    PROVE  HoldStep(c)
<1>1. \A e \in Extents : hold'[e] = IF e = srv[c].ext THEN hold[e] \ {c} ELSE hold[e]
  BY DEF Types
<1>2. hold' \in [Extents -> SUBSET (Conns \cup {"cache"})]
  BY DEF Types
<1> QED
  BY ZenonT(40), <1>1, <1>2, SessionAssumption DEF HoldStep, CacheHeld

(* FillL1 works in an extent nobody refers to. *)
LEMMA FillHold ==
    ASSUME Types, CacheHeld, NEW c \in Conns, l1.gen = 0, NEW g \in 1..Len(data), FillL1(g)
    PROVE  /\ HoldStep(c) /\ l1' \in Entry /\ l1'.gen = g /\ mem' \in [Extents -> Val]
           /\ (IF l1'.ext = None THEN l1'.val ELSE mem'[l1'.ext]) = data[g]
           /\ \A e \in Extents : hold'[e] = hold[e] \/ (hold[e] = {} /\ hold'[e] = {"cache"})
           /\ \A e \in Extents : mem'[e] # mem[e] => hold[e] = {} /\ hold'[e] = {"cache"}
<1> DEFINE kept == [e \in Extents |-> hold[e] \ {"cache"}]
<1>1. kept = hold /\ data[g] \in Val
  <2>1. \A e \in Extents : hold[e] \ {"cache"} = hold[e]
    BY SessionAssumption DEF CacheHeld
  <2> QED
    BY SMTT(15), <2>1 DEF Types
<1>2. CASE \E e \in Extents :
              /\ hold[e] = {} /\ mem' = [mem EXCEPT ![e] = data[g]]
              /\ hold' = [hold EXCEPT ![e] = {"cache"}]
              /\ l1' = [gen |-> g, ext |-> e, val |-> None]
  <2>1. PICK e \in Extents :
              /\ hold[e] = {} /\ mem' = [mem EXCEPT ![e] = data[g]]
              /\ hold' = [hold EXCEPT ![e] = {"cache"}]
              /\ l1' = [gen |-> g, ext |-> e, val |-> None]
    BY <1>2
  <2>2. l1' \in Entry /\ l1'.gen = g /\ l1'.ext = e
    BY SMTT(15), <2>1 DEF Entry, Place, Val
  <2>3. /\ hold' \in [Extents -> SUBSET (Conns \cup {"cache"})] /\ mem' \in [Extents -> Val]
        /\ \A f \in Extents : /\ hold'[f] = IF f = e THEN {"cache"} ELSE hold[f]
                              /\ mem'[f] = IF f = e THEN data[g] ELSE mem[f]
    BY <1>1, <2>1 DEF Types
  <2>4. CacheHeld'
    BY SMTT(15), <2>1, <2>2, <2>3, SessionAssumption DEF CacheHeld
  <2> QED
    BY <2>1, <2>2, <2>3, <2>4, SessionAssumption DEF HoldStep
<1>3. CASE hold' = hold /\ mem' = mem /\ l1' = [gen |-> g, ext |-> None, val |-> data[g]]
  <2>1. l1' \in Entry /\ l1'.gen = g /\ l1'.ext = None /\ l1'.val = data[g]
    BY SMTT(15), <1>1, <1>3 DEF Entry, Place
  <2>2. CacheHeld'
    BY <1>3, <2>1, SessionAssumption DEF CacheHeld
  <2> QED
    BY <1>3, <2>1, <2>2 DEF HoldStep, Types
<1> QED
  BY <1>1, <1>2, <1>3 DEF FillL1

-----------------------------------------------------------------------------
(* What has to be shown of a step of connection c. *)
Here(c) ==
    /\ cli' \in [Conns -> Client] /\ srv' \in [Conns -> Server]
    /\ up' \in [Conns -> Seq(UpMsg)] /\ down' \in [Conns -> Seq(DownMsg)]
    /\ \A d \in Conns \ {c} : cli'[d] = cli[d] /\ srv'[d] = srv[d] /\ up'[d] = up[d] /\ down'[d] = down[d]
    /\ qp' \in SUBSET Conns /\ skipped' \in SUBSET Conns
    /\ \A d \in Conns \ {c} : (d \in qp' => d \in qp) /\ (d \in skipped => d \in skipped')

SlabStep(c) ==
    /\ HoldStep(c) /\ mem' \in [Extents -> Val] /\ l1' \in Entry
    /\ \A e \in Extents : mem'[e] # mem[e] => hold[e] \subseteq {c}
    /\ l1' = l1 \/ (l1'.gen # 0 => (Stored(Cached) /\ Own(l1.gen, Cached))')

StoreStep ==
    /\ DataGrows /\ data' \in Seq(Val) /\ mispaired' \in SUBSET Nat
    /\ cur' \in 0..Len(data') /\ files' \in SUBSET (1..Len(data'))

LEMMA StepKeeps ==
    ASSUME SessionInv, NEW c \in Conns, Here(c), SlabStep(c), StoreStep, ConnAt(c)'
    PROVE  SessionInv'
<1>1. Types /\ CacheInv /\ \A d \in Conns : ConnAt(d)
  BY DEF SessionInv
<1>2. Types'
  BY SMTT(15) DEF Here, SlabStep, HoldStep, StoreStep, Types
<1>3. Calm(c)
  BY DEF Here, SlabStep, HoldStep, StoreStep, Calm
<1>4. CacheInv'
  <2>1. CASE l1' = l1
    <3>1. l1.ext \in Place /\ (l1.ext # None => mem'[l1.ext] = mem[l1.ext])
      BY <1>1, SessionAssumption DEF Types, Entry, Place, CacheInv, CacheHeld, SlabStep
    <3>2. Cached' = Cached
      BY <2>1, <3>1 DEF Cached
    <3>3. l1'.gen # 0 => (Stored(Cached) /\ Own(l1.gen, Cached))'
      BY <1>1, <2>1, <3>2, StoredKept DEF CacheInv, StoreStep
    <3> QED
      BY <3>3 DEF CacheInv, SlabStep, HoldStep, StoreStep
  <2>2. CASE l1'.gen # 0 => (Stored(Cached) /\ Own(l1.gen, Cached))'
    BY <2>2 DEF CacheInv, SlabStep, HoldStep, StoreStep
  <2> QED
    BY <2>1, <2>2 DEF SlabStep
<1>5. ASSUME NEW d \in Conns PROVE ConnAt(d)'
  BY <1>1, <1>3, OthersKeep
<1> QED
  BY <1>2, <1>4, <1>5 DEF SessionInv

LEMMA SameStore ==
    ASSUME SessionInv, UNCHANGED <<data, files, mispaired>>, cur' \in {cur, 0}
    PROVE  StoreStep
BY SMTT(15) DEF SessionInv, Types, CacheInv, StoreStep, DataGrows

LEMMA SameSlab ==
    ASSUME SessionInv, NEW c \in Conns, UNCHANGED <<mem, l1>>, HoldStep(c)
    PROVE  SlabStep(c)
BY DEF SessionInv, Types, SlabStep

(* The parts of the invariant a step starts from. *)
LEMMA Parts ==
    ASSUME SessionInv, NEW c \in Conns
    PROVE  /\ Types /\ CacheHeld /\ CacheInv
           /\ OwnAt(c) /\ ValAt(c) /\ StreamAt(c) /\ PhaseAt(c)
           /\ cli[c] \in Client /\ srv[c] \in Server
BY DEF SessionInv, CacheInv, ConnAt, Types

(* A step of the server thread that lets its extent go, or keeps it. *)
LEMMA ServerKeeps ==
    ASSUME SessionInv, NEW c \in Conns,
           srv' \in [Conns -> Server], \A d \in Conns \ {c} : srv'[d] = srv[d],
           down' \in [Conns -> Seq(DownMsg)], \A d \in Conns \ {c} : down'[d] = down[d],
           up' \in [Conns -> Seq(UpMsg)], \A d \in Conns \ {c} : up'[d] = up[d],
           cli' \in [Conns -> Client], \A d \in Conns \ {c} : cli'[d] = cli[d],
           qp' = qp \/ qp' = qp \ {c}, skipped' = skipped
    PROVE  Here(c)
BY DEF SessionInv, Types, Here

-----------------------------------------------------------------------------
(* The server's GET paths. *)
LEMMA BareAt ==
    ASSUME NEW c \in Conns, srv'[c].pc \in {"tag", "lookup", "meta", "room", "fallback"}, srv'[c].ext = None
    PROVE  OwnAt(c)' /\ ValAt(c)'
BY DEF OwnAt, ValAt, OwnPcs, BarePcs

(* A GET that goes on, its references and what it has read settled. *)
LEMMA MovesKeep ==
    ASSUME SessionInv, NEW c \in Conns, srv[c].pc \in GetPcs, srv[c].pc = "room" => srv[c].op \notin Puts,
           NEW pc \in GetPcs, NEW gen, NEW ext, NEW val,
           ServerIs(c, pc, srv[c].op, srv[c].id, gen, ext, val),
           srv[c].op \in Described => gen = srv[c].gen,
           UNCHANGED <<cli, up, down, skipped>>, qp' = qp \/ qp' = qp \ {c},
           SlabStep(c), StoreStep, OwnAt(c)', ValAt(c)'
    PROVE  SessionInv'
<1>1. srv'[c].pc = pc /\ srv'[c].op = srv[c].op /\ srv'[c].id = srv[c].id /\ srv'[c].gen = gen
  BY DEF ServerIs
<1>2. StreamAt(c)' /\ PhaseAt(c)'
  BY <1>1, Parts, ServerMoves
<1>3. Here(c)
  BY Parts, ServerKeeps DEF ServerIs, Types
<1> QED
  BY <1>2, <1>3, StepKeeps DEF ConnAt

LEMMA LookupL1Keeps ==
    ASSUME SessionInv, NEW c \in Conns, LookupL1(c)
    PROVE  SessionInv'
<1> USE Parts
<1>1. /\ srv[c].pc = "lookup" /\ srv[c].ext = None /\ l1 \in Entry
      /\ UNCHANGED <<cli, up, down, qp, skipped, mispaired, mem, data, files>>
  BY DEF LookupL1, OwnAt, BarePcs, Types, history
<1> USE <1>1
<1>2. CASE /\ l1.gen # 0 /\ l1.ext # None /\ Matches(c)
           /\ srv' = [srv EXCEPT ![c] = [@ EXCEPT !.pc = "send_pin", !.ext = l1.ext]]
           /\ hold' = [hold EXCEPT ![l1.ext] = @ \cup {c}]
           /\ UNCHANGED <<l1, cur>>
  <2>1. l1.ext \in Extents /\ l1.ext \in Place /\ "send_pin" \in ServerPcs
    BY <1>2 DEF Entry, Place, ServerPcs
  <2>2. ServerIs(c, "send_pin", srv[c].op, srv[c].id, srv[c].gen, l1.ext, srv[c].val)
    BY <1>2, <2>1 DEF Types, ServerIs, Server
  <2>3. HoldStep(c) /\ c \in hold'[l1.ext]
    BY <1>2, <2>1, PinHold
  <2>4. OwnAt(c)'
    BY <2>1, <2>2, <2>3 DEF ServerIs, OwnAt, OwnPcs, BarePcs
  <2>5. ValAt(c)'
    <3>1. Source(c)' = Cached /\ srv'[c].gen = srv[c].gen /\ srv'[c].op = srv[c].op /\ srv'[c].pc = "send_pin"
      BY SMTT(15), <1>2, <2>1, <2>2 DEF ServerIs, Source, Cached
    <3>2. Stored(Cached) /\ (srv[c].op # "get" => Own(srv[c].gen, Cached))
      BY <1>2 DEF CacheInv, Matches
    <3> QED
      BY <3>1, <3>2 DEF ValAt, Stored, Own
  <2> QED
    BY <1>2, <2>2, <2>3, <2>4, <2>5, MovesKeep, SameSlab, SameStore DEF GetPcs
<1>3. CASE /\ ServerTo(c, IF srv[c].op = "get" THEN "meta" ELSE "room")
           /\ \/ DropL1 /\ Forget(l1.gen)
              \/ UNCHANGED <<l1, cur>> /\ l1.ext # None /\ hold' = [hold EXCEPT ![l1.ext] = @ \cup {c}]
              \/ UNCHANGED <<l1, cur, hold>>
  <2> DEFINE pc == IF srv[c].op = "get" THEN "meta" ELSE "room"
  <2>1. pc \in {"meta", "room"} /\ pc \in ServerPcs /\ pc \in GetPcs
    BY DEF ServerPcs, GetPcs
  <2> HIDE DEF pc
  <2>2. ServerIs(c, pc, srv[c].op, srv[c].id, srv[c].gen, None, srv[c].val)
    BY <1>3, <2>1, ServerToIs DEF pc
  <2>3. OwnAt(c)' /\ ValAt(c)'
    BY <2>1, <2>2, BareAt DEF ServerIs
  <2>4. SlabStep(c) /\ StoreStep
    <3>1. CASE DropL1 /\ Forget(l1.gen)
      BY <3>1, DropHold, SameStore DEF SlabStep, Forget, Types
    <3>2. CASE UNCHANGED <<l1, cur>> /\ l1.ext # None /\ hold' = [hold EXCEPT ![l1.ext] = @ \cup {c}]
      BY <3>2, PinHold, SameSlab, SameStore DEF Entry, Place
    <3>3. CASE UNCHANGED <<l1, cur, hold>>
      BY <3>3, SameHold, SameSlab, SameStore
    <3> QED
      BY <1>3, <3>1, <3>2, <3>3
  <2> QED
    BY <2>1, <2>2, <2>3, <2>4, MovesKeep DEF GetPcs
<1> QED
  BY <1>2, <1>3 DEF LookupL1

(* A handler that answers. *)
LEMMA AnswersKeep ==
    ASSUME SessionInv, NEW c \in Conns, NEW tag \in DownTags, NEW ok \in BOOLEAN,
           srv[c].pc \in (GetPcs \ {"room"}) \cup StorePcs,
           tag = IF srv[c].pc \in StorePcs THEN PutAnswer(c) ELSE "get_resp",
           srv' = [srv EXCEPT ![c] = Waiting],
           down' = [down EXCEPT ![c] = @ \o Sends(c, tag, ok, None)],
           cli' \in [Conns -> Client], \A d \in Conns \ {c} : cli'[d] = cli[d],
           cli'[c].pc = cli[c].pc, cli'[c].op = cli[c].op, cli'[c].id = cli[c].id,
           cli'[c].val = cli[c].val, cli'[c].desc = cli[c].desc,
           UNCHANGED <<up, skipped, data, mispaired>>, qp' = qp \/ qp' = qp \ {c},
           srv[c].pc \in GetPcs /\ ok =>
               Stored(cli'[c].buf) /\ (srv[c].op # "get" => Own(srv[c].gen, cli'[c].buf)),
           SlabStep(c), StoreStep
    PROVE  SessionInv'
<1>1. ServerIs(c, "tag", "none", 0, 0, None, None)
  BY Parts, FinishedIs
<1>2. /\ Replied(c, 2) /\ down'[c][Len(down[c]) + 1] = Answer(c, tag, ok, None)
      /\ down'[c][Len(down[c]) + 2] = Body(c)
  BY ZenonT(40), Parts, RepliedIs DEF Place
<1>3. StreamAt(c)' /\ PhaseAt(c)'
  BY <1>1, <1>2, Parts, ServerAnswers
<1>4. OwnAt(c)' /\ ValAt(c)'
  BY <1>1, BareAt DEF ServerIs
<1>5. Here(c)
  BY <1>1, <1>2, Parts, ServerKeeps DEF ServerIs, Replied, Types
<1> QED
  BY <1>3, <1>4, <1>5, StepKeeps DEF ConnAt

LEMMA NotFoundKeeps ==
    ASSUME SessionInv, NEW c \in Conns, srv[c].pc \in GetPcs \ {"room"}, NotFound(c),
           UNCHANGED <<cli, up, skipped, mispaired, data, files, mem, l1>>, cur' \in {cur, 0},
           qp' = qp \/ qp' = qp \ {c}
    PROVE  SessionInv'
<1>1. /\ srv' = [srv EXCEPT ![c] = Waiting] /\ hold' = Without(c)
      /\ down' = [down EXCEPT ![c] = @ \o Sends(c, "get_resp", FALSE, None)]
  BY DEF NotFound, Finishes
<1>2. SlabStep(c) /\ StoreStep
  BY <1>1, Parts, WithoutHold, SameSlab, SameStore
<1>3. cli' \in [Conns -> Client] /\ "get_resp" \in DownTags /\ FALSE \in BOOLEAN /\ srv[c].pc \notin StorePcs
  BY Parts DEF Types, DownTags, GetPcs, StorePcs
<1> QED
  BY <1>1, <1>2, <1>3, AnswersKeep

LEMMA MetaKeeps ==
    ASSUME SessionInv, NEW c \in Conns, Meta(c)
    PROVE  SessionInv'
<1> USE Parts
<1>1. /\ srv[c].pc = "meta" /\ srv[c].ext = None
      /\ UNCHANGED <<cli, up, qp, skipped, mispaired, mem, l1, data, files>>
  BY DEF Meta, OwnAt, BarePcs, history
<1>2. CASE NotFound(c) /\ cur' \in {cur, 0}
  BY <1>1, <1>2, NotFoundKeeps DEF GetPcs
<1>3. CASE /\ srv[c].op # "get" => cur = srv[c].gen
           /\ srv' = [srv EXCEPT ![c] = [@ EXCEPT
                        !.pc = IF srv[c].op = "get_descriptor" THEN "lookup" ELSE "room", !.gen = cur]]
           /\ UNCHANGED <<down, hold, cur>>
  <2> DEFINE pc == IF srv[c].op = "get_descriptor" THEN "lookup" ELSE "room"
  <2>1. pc \in {"lookup", "room"} /\ pc \in ServerPcs /\ pc \in GetPcs
    BY DEF ServerPcs, GetPcs
  <2> HIDE DEF pc
  <2>2. ServerIs(c, pc, srv[c].op, srv[c].id, cur, None, srv[c].val)
    BY <1>1, <1>3, <2>1 DEF Types, ServerIs, Server, pc
  <2>3. OwnAt(c)' /\ ValAt(c)'
    BY <2>1, <2>2, BareAt DEF ServerIs
  <2>4. SlabStep(c) /\ StoreStep
    BY <1>1, <1>3, SameHold, SameSlab, SameStore
  <2>5. srv[c].op \in Described => cur = srv[c].gen
    BY <1>3 DEF Described
  <2> QED
    BY <1>1, <1>3, <2>1, <2>2, <2>3, <2>4, <2>5, MovesKeep DEF GetPcs
<1> QED
  BY <1>2, <1>3 DEF Meta

LEMMA RoomGetKeeps ==
    ASSUME SessionInv, NEW c \in Conns, Room(c), srv[c].op \notin Puts
    PROVE  SessionInv'
<1> USE Parts
<1>1. /\ srv[c].pc = "room" /\ UNCHANGED <<cli, up, down, qp, skipped, mispaired, mem, l1, cur, data, files>>
  BY DEF Room, history, store
<1>2. PICK e \in Extents :
        /\ hold[e] = {} /\ hold' = [hold EXCEPT ![e] = @ \cup {c}]
        /\ srv' = [srv EXCEPT ![c] = [@ EXCEPT !.ext = e, !.pc = "read"]]
  BY DEF Room, Free
<1>3. ServerIs(c, "read", srv[c].op, srv[c].id, srv[c].gen, e, srv[c].val)
  <2>1. e \in Place /\ "read" \in ServerPcs
    BY DEF Place, ServerPcs
  <2> QED
    BY <1>2, <2>1 DEF Types, ServerIs, Server
<1>4. HoldStep(c) /\ hold'[e] = {c}
  BY <1>1, <1>2, RoomHold
<1>5. OwnAt(c)' /\ ValAt(c)'
  BY <1>3, <1>4 DEF ServerIs, OwnAt, ValAt, OwnPcs, BarePcs
<1> QED
  BY <1>1, <1>3, <1>4, <1>5, SameSlab, SameStore, MovesKeep DEF GetPcs

LEMMA NoRoomGetKeeps ==
    ASSUME SessionInv, NEW c \in Conns, NoRoom(c), srv[c].op \notin Puts
    PROVE  SessionInv'
<1> USE Parts
<1>1. /\ srv[c].pc = "room" /\ srv[c].ext = None /\ ServerTo(c, "fallback")
      /\ UNCHANGED <<cli, up, down, qp, skipped, mispaired, mem, l1, hold, cur, data, files>>
  BY DEF NoRoom, OwnAt, BarePcs, history, store
<1>2. ServerIs(c, "fallback", srv[c].op, srv[c].id, srv[c].gen, None, srv[c].val)
  BY <1>1, ServerToIs DEF ServerPcs
<1>3. OwnAt(c)' /\ ValAt(c)'
  BY <1>2, BareAt DEF ServerIs
<1> QED
  BY <1>1, <1>2, <1>3, SameHold, SameSlab, SameStore, MovesKeep DEF GetPcs

LEMMA EvictKeeps ==
    ASSUME SessionInv, NEW c \in Conns, Evict(c)
    PROVE  SessionInv'
<1> USE Parts
<1>1. /\ srv[c].pc = "room" /\ DropL1
      /\ UNCHANGED <<cli, srv, up, down, qp, skipped, mispaired, mem, cur, data, files>>
  BY DEF Evict, conns, history, store
<1>2. HoldStep(c) /\ l1' \in Entry /\ l1'.gen = 0
  BY <1>1, DropHold
<1>3. SlabStep(c) /\ StoreStep
  BY <1>1, <1>2, SameStore DEF SlabStep, Types
<1>4. OwnAt(c)' /\ ValAt(c)'
  BY <1>1, BareAt DEF OwnAt, BarePcs
<1>5. StreamAt(c)'
  BY <1>1 DEF StreamAt, OfferAt, CommitAt, Offer, CommitNext
<1>6. PhaseAt(c)'
  BY <1>1, <1>3, PhaseKept DEF StoreStep
<1>7. Here(c)
  BY <1>1, ServerKeeps DEF Types
<1> QED
  BY <1>3, <1>4, <1>5, <1>6, <1>7, StepKeeps DEF ConnAt

LEMMA ReadKeeps ==
    ASSUME SessionInv, NEW c \in Conns, Read(c)
    PROVE  SessionInv'
<1> USE Parts
<1>1. /\ srv[c].pc = "read" /\ srv[c].ext \in Extents /\ hold[srv[c].ext] = {c}
      /\ UNCHANGED <<cli, up, qp, skipped, mispaired, l1, data, files>>
  BY DEF Read, OwnAt, OwnPcs, history
<1>2. CASE NotFound(c) /\ cur' \in {cur, 0} /\ UNCHANGED mem
  BY <1>1, <1>2, NotFoundKeeps DEF GetPcs
<1>3. CASE /\ srv[c].gen \in files /\ mem' = [mem EXCEPT ![srv[c].ext] = data[srv[c].gen]]
           /\ ServerTo(c, "send_new") /\ UNCHANGED <<down, hold, cur>>
  <2>1. srv[c].gen \in 1..Len(data) /\ data[srv[c].gen] \in Val
    BY SMTT(15), <1>3 DEF CacheInv, Types
  <2>2. ServerIs(c, "send_new", srv[c].op, srv[c].id, srv[c].gen, srv[c].ext, srv[c].val)
    BY <1>3, ServerToIs DEF ServerPcs
  <2>3. /\ mem' \in [Extents -> Val] /\ mem'[srv[c].ext] = data[srv[c].gen]
        /\ \A e \in Extents : e # srv[c].ext => mem'[e] = mem[e]
    BY <1>1, <1>3, <2>1 DEF Types
  <2>4. SlabStep(c) /\ StoreStep
    <3>1. HoldStep(c) /\ StoreStep /\ l1' \in Entry
      BY <1>1, <1>3, SameHold, SameStore DEF Types
    <3> QED
      BY <1>1, <2>3, <3>1 DEF SlabStep
  <2>5. OwnAt(c)' /\ ValAt(c)'
    BY <1>1, <1>3, <2>1, <2>2, <2>3, SessionAssumption DEF ServerIs, OwnAt, ValAt, OwnPcs, BarePcs
  <2> QED
    BY <1>1, <1>3, <2>2, <2>4, <2>5, MovesKeep DEF GetPcs
<1> QED
  BY <1>1, <1>2, <1>3 DEF Read, Forget

(* GivesUpExtent, whoever calls it. *)
LEMMA GivesUpKeeps ==
    ASSUME SessionInv, NEW c \in Conns, srv[c].pc \in {"read", "send_new"}, GivesUpExtent(c),
           UNCHANGED <<cli, up, skipped, mispaired, mem, l1, cur, data, files>>,
           qp' = qp \/ qp' = qp \ {c}
    PROVE  SessionInv'
<1> USE Parts
<1>1. srv[c].ext \in Extents /\ hold[srv[c].ext] = {c}
  BY DEF OwnAt, OwnPcs
<1>2. CASE NotFound(c)
  BY <1>2, NotFoundKeeps DEF GetPcs
<1>3. CASE /\ srv' = [srv EXCEPT ![c] = [@ EXCEPT !.pc = "fallback", !.ext = None]]
           /\ hold' = [hold EXCEPT ![srv[c].ext] = @ \ {c}]
           /\ UNCHANGED down
  <2>1. ServerIs(c, "fallback", srv[c].op, srv[c].id, srv[c].gen, None, srv[c].val)
    <3>1. "fallback" \in ServerPcs /\ None \in Place
      BY DEF ServerPcs, Place
    <3> QED
      BY <1>3, <3>1 DEF Types, ServerIs, Server
  <2>2. OwnAt(c)' /\ ValAt(c)'
    BY <2>1, BareAt DEF ServerIs
  <2>3. SlabStep(c) /\ StoreStep
    BY <1>1, <1>3, GiveUpHold, SameSlab, SameStore
  <2> QED
    BY <1>3, <2>1, <2>2, <2>3, MovesKeep DEF GetPcs
<1> QED
  BY <1>2, <1>3 DEF GivesUpExtent

LEMMA FallbackKeeps ==
    ASSUME SessionInv, NEW c \in Conns, Fallback(c)
    PROVE  SessionInv'
<1> USE Parts
<1> DEFINE g == IF srv[c].op = "get" THEN cur ELSE srv[c].gen
<1>1. /\ srv[c].pc = "fallback" /\ srv[c].ext = None /\ l1 \in Entry
      /\ UNCHANGED <<cli, up, qp, skipped, mispaired, data, files>>
  BY DEF Fallback, OwnAt, BarePcs, Types, history
<1>2. CASE /\ srv[c].op = "get" /\ l1.gen # 0
           /\ srv' = [srv EXCEPT ![c] = [@ EXCEPT !.pc = "send_heap", !.ext = l1.ext, !.val = l1.val]]
           /\ hold' = [e \in Extents |-> IF e = l1.ext THEN hold[e] \cup {c} ELSE hold[e]]
           /\ UNCHANGED <<down, mem, l1, cur>>
  <2>1. ServerIs(c, "send_heap", srv[c].op, srv[c].id, srv[c].gen, l1.ext, l1.val)
    <3>1. l1.ext \in Place /\ l1.val \in Val /\ "send_heap" \in ServerPcs
      BY <1>1 DEF Entry, ServerPcs
    <3> QED
      BY <1>2, <3>1 DEF Types, ServerIs, Server
  <2>2. HoldStep(c) /\ (l1.ext # None => c \in hold'[l1.ext])
    <3>1. CASE l1.ext = None
      <4>1. hold' = hold
        BY <1>2, <3>1, SessionAssumption DEF Types
      <4> QED
        BY <1>2, <3>1, <4>1, SameHold
    <3>2. CASE l1.ext \in Extents
      <4>1. hold' = [hold EXCEPT ![l1.ext] = @ \cup {c}]
        BY <1>2, <3>2 DEF Types
      <4> QED
        BY <1>2, <3>2, <4>1, PinHold
    <3> QED
      BY <1>1, <3>1, <3>2 DEF Entry, Place
  <2>3. OwnAt(c)'
    BY <1>1, <2>1, <2>2 DEF ServerIs, OwnAt, OwnPcs, BarePcs
  <2>4. ValAt(c)'
    <3>1. Source(c)' = Cached /\ srv'[c].op = "get" /\ srv'[c].pc = "send_heap"
      BY SMTT(15), <1>2, <2>1 DEF ServerIs, Source, Cached
    <3> QED
      BY <1>1, <1>2, <3>1 DEF CacheInv, ValAt, Stored
  <2> QED
    BY <1>1, <1>2, <2>1, <2>2, <2>3, <2>4, SameSlab, SameStore, MovesKeep DEF GetPcs
<1>3. CASE /\ DropL1 /\ cur' \in {cur, 0} /\ UNCHANGED mem
           /\ down' = [down EXCEPT ![c] = @ \o Sends(c, "get_resp", FALSE, None)]
           /\ srv' = [srv EXCEPT ![c] = Waiting]
  <2>1. HoldStep(c) /\ l1' \in Entry /\ l1'.gen = 0
    BY <1>3, DropHold
  <2>2. SlabStep(c) /\ StoreStep
    BY <1>1, <1>3, <2>1, SameStore DEF SlabStep, Types
  <2>3. /\ cli' \in [Conns -> Client] /\ "get_resp" \in DownTags /\ FALSE \in BOOLEAN
        /\ srv[c].pc \in GetPcs \ {"room"} /\ srv[c].pc \notin StorePcs
    BY <1>1 DEF Types, DownTags, GetPcs, StorePcs
  <2> QED
    BY <1>1, <1>3, <2>2, <2>3, AnswersKeep
<1>4. CASE NotFound(c) /\ cur' \in {cur, 0} /\ UNCHANGED <<mem, l1>>
  BY <1>1, <1>4, NotFoundKeeps DEF GetPcs
<1>5. CASE /\ g \in files /\ (srv[c].op = "get" => l1.gen = 0)
           /\ srv' = [srv EXCEPT ![c] = [@ EXCEPT !.pc = "send_heap", !.val = data[g]]]
           /\ IF srv[c].op = "get" THEN FillL1(g) ELSE UNCHANGED <<mem, hold, l1>>
           /\ UNCHANGED <<down, cur>>
  <2>1. g \in 1..Len(data) /\ data[g] \in Val
    BY SMTT(15), <1>5 DEF CacheInv, Types
  <2>2. ServerIs(c, "send_heap", srv[c].op, srv[c].id, srv[c].gen, None, data[g])
    <3>1. "send_heap" \in ServerPcs
      BY DEF ServerPcs
    <3> HIDE DEF g
    <3> QED
      BY <1>1, <1>5, <2>1, <3>1 DEF Types, ServerIs, Server
  <2>3. OwnAt(c)'
    BY <2>2 DEF ServerIs, OwnAt, OwnPcs, BarePcs
  <2>4. ValAt(c)'
    <3>1. Source(c)' = data[g] /\ srv'[c].pc = "send_heap" /\ srv'[c].op = srv[c].op /\ srv'[c].gen = srv[c].gen
      BY <2>2 DEF ServerIs, Source
    <3> QED
      BY <1>1, <2>1, <3>1 DEF ValAt, Stored, Own
  <2>5. SlabStep(c)
    <3>1. CASE srv[c].op = "get"
      <4> HIDE DEF g
      <4>1. /\ HoldStep(c) /\ l1' \in Entry /\ l1'.gen = g /\ mem' \in [Extents -> Val]
            /\ (IF l1'.ext = None THEN l1'.val ELSE mem'[l1'.ext]) = data[g]
            /\ \A e \in Extents : mem'[e] # mem[e] => hold[e] = {}
        BY <1>5, <2>1, <3>1, FillHold
      <4>2. (Stored(Cached) /\ Own(l1.gen, Cached))'
        BY <1>1, <2>1, <4>1 DEF Cached, Stored, Own
      <4> QED
        BY <4>1, <4>2 DEF SlabStep
    <3>2. CASE srv[c].op # "get"
      BY <1>5, <3>2, SameHold, SameSlab
    <3> QED
      BY <3>1, <3>2
  <2>6. StoreStep
    BY <1>1, <1>5, SameStore
  <2> QED
    BY <1>1, <1>5, <2>2, <2>3, <2>4, <2>5, <2>6, MovesKeep DEF GetPcs
<1> QED
  BY <1>1, <1>2, <1>3, <1>4, <1>5 DEF Fallback, Forget

LEMMA IoFailsKeep ==
    ASSUME SessionInv, NEW c \in Conns, ReadIoFails(c) \/ FallbackIoFails(c)
    PROVE  SessionInv'
<1>1. CASE ReadIoFails(c)
  BY <1>1, GivesUpKeeps DEF ReadIoFails, history, store
<1>2. CASE FallbackIoFails(c)
  BY <1>2, NotFoundKeeps DEF FallbackIoFails, history, store, GetPcs
<1> QED
  BY <1>1, <1>2

LEMMA SendKeeps ==
    ASSUME SessionInv, NEW c \in Conns, Send(c)
    PROVE  SessionInv'
<1> USE Parts
<1>1. /\ srv[c].pc \in {"send_pin", "send_new", "send_heap"}
      /\ cli' = [cli EXCEPT ![c] = [@ EXCEPT !.buf = Source(c)]]
      /\ down' = [down EXCEPT ![c] = @ \o Sends(c, "get_resp", TRUE, None)]
      /\ srv' = [srv EXCEPT ![c] = Waiting]
      /\ IF srv[c].pc = "send_new" /\ srv[c].op # "get_stripes"
         THEN CacheExtent(c, srv[c].gen) ELSE hold' = Without(c) /\ UNCHANGED l1
      /\ UNCHANGED <<up, qp, skipped, mispaired, mem, cur, data, files>>
  BY DEF Send, Sending, history, store
<1>2. Source(c) \in Val
  BY DEF Source, OwnAt, Types, Server, Place
<1>3. /\ cli' \in [Conns -> Client] /\ \A d \in Conns \ {c} : cli'[d] = cli[d]
      /\ cli'[c].pc = cli[c].pc /\ cli'[c].op = cli[c].op /\ cli'[c].id = cli[c].id
      /\ cli'[c].val = cli[c].val /\ cli'[c].desc = cli[c].desc /\ cli'[c].buf = Source(c)
  BY <1>1, <1>2 DEF Types, Client
<1>4. srv[c].pc = "send_new" =>
        /\ srv[c].ext \in Extents /\ srv[c].ext # None /\ hold[srv[c].ext] = {c}
        /\ srv[c].gen \in 1..Len(data) /\ mem[srv[c].ext] = data[srv[c].gen]
  BY SessionAssumption DEF OwnAt, ValAt, OwnPcs
<1>5. Stored(Source(c)) /\ (srv[c].op # "get" => Own(srv[c].gen, Source(c)))
  BY <1>1, <1>4 DEF ValAt, Source, Stored, Own
<1>6. SlabStep(c)
  <2>1. CASE CacheExtent(c, srv[c].gen) /\ srv[c].pc = "send_new"
    <3>1. HoldStep(c) /\ l1' \in Entry /\ l1'.gen = srv[c].gen /\ l1'.ext = srv[c].ext
      BY SMTT(15), <1>4, <2>1, CacheExtentHold
    <3>2. (Stored(Cached) /\ Own(l1.gen, Cached))'
      BY <1>1, <1>4, <2>1, <3>1 DEF Cached, Stored, Own
    <3> QED
      BY <1>1, <3>1, <3>2 DEF SlabStep, Types
  <2>2. CASE hold' = Without(c) /\ UNCHANGED l1
    BY <1>1, <2>2, WithoutHold, SameSlab
  <2> QED
    BY <1>1, <2>1, <2>2
<1>7. StoreStep
  BY <1>1, SameStore
<1>8. /\ "get_resp" \in DownTags /\ TRUE \in BOOLEAN
      /\ srv[c].pc \in GetPcs \ {"room"} /\ srv[c].pc \notin StorePcs
  BY <1>1 DEF DownTags, GetPcs, StorePcs
<1>9. Stored(cli'[c].buf) /\ (srv[c].op # "get" => Own(srv[c].gen, cli'[c].buf))
  BY <1>3, <1>5
<1> QED
  BY <1>1, <1>3, <1>6, <1>7, <1>8, <1>9, AnswersKeep

(* handle_client returns. *)
LEMMA EndsKeep ==
    ASSUME SessionInv, NEW c \in Conns, Ends(c),
           UNCHANGED <<cli, skipped, mispaired, l1, cur, data, files>>,
           up' = up \/ (up[c] # <<>> /\ up' = [up EXCEPT ![c] = Tail(@)]),
           c \notin skipped /\ cli[c].pc # "closed" => Len(down[c]) = 0
    PROVE  SessionInv'
<1> USE Parts
<1>1. ServerIs(c, "closed", "none", 0, 0, None, None)
  BY WaitingIs DEF Ends, ServerPcs
<1>2. up'[c] = up[c] \/ Fetched(c)
  BY FetchedIs
<1>3. up' \in [Conns -> Seq(UpMsg)] /\ \A d \in Conns \ {c} : up'[d] = up[d]
  BY FetchedIs DEF Types, Fetched
<1>4. hold' = Without(c) /\ qp' = qp \ {c} /\ UNCHANGED <<down, mem>>
  BY DEF Ends
<1>5. ConnAt(c)'
  BY <1>1, <1>2, <1>4, ServerEnds
<1>6. Here(c)
  BY <1>1, <1>3, <1>4, ServerKeeps DEF ServerIs, Types
<1> QED
  BY <1>4, <1>5, <1>6, WithoutHold, SameSlab, SameStore, StepKeeps

(* In step, a request is being served with nothing sent yet. *)
LEMMA NothingSent ==
    ASSUME NEW c \in Conns, PhaseAt(c), c \notin skipped, cli[c].pc # "closed",
           \/ srv[c].pc \in GetPcs
           \/ srv[c].pc \in {"tag", "commit"} /\ Len(up[c]) > 0 /\ ~CommitNext(c)
    PROVE  Len(down[c]) = 0
BY SMTT(15) DEF PhaseAt, IdlePhase, AskedPhase, ServingPhase, PromisedPhase, AnsweredPhase, GonePhase,
       CommitNext, GetPcs

LEMMA FailsKeep ==
    ASSUME SessionInv, NEW c \in Conns, SendFails(c) \/ MetaFails(c) \/ Hangup(c)
    PROVE  SessionInv'
<1> USE Parts
<1>1. CASE SendFails(c)
  <2>1. /\ srv[c].pc \in {"send_pin", "send_new", "send_heap"}
        /\ UNCHANGED <<cli, up, skipped, mispaired, l1, cur, data, files>>
    BY <1>1 DEF SendFails, Sending, history, store
  <2>2. CASE srv[c].pc = "send_new" /\ GivesUpExtent(c) /\ qp' = qp \ {c} /\ UNCHANGED mem
    BY <2>1, <2>2, GivesUpKeeps
  <2>3. CASE Ends(c)
    BY <2>1, <2>3, EndsKeep, NothingSent DEF GetPcs
  <2> QED
    BY <1>1, <2>2, <2>3 DEF SendFails
<1>2. CASE MetaFails(c)
  BY <1>2, EndsKeep, NothingSent DEF MetaFails, GetPcs, history, store
<1>3. CASE Hangup(c)
  BY <1>3, EndsKeep DEF Hangup, history, store
<1> QED
  BY <1>1, <1>2, <1>3

LEMMA ReadTagKeeps ==
    ASSUME SessionInv, NEW c \in Conns, ReadTag(c)
    PROVE  SessionInv'
<1> USE Parts
<1> DEFINE m == up[c][1]
<1>1. /\ srv[c].pc = "tag" /\ srv[c].ext = None /\ up[c] # <<>> /\ up' = [up EXCEPT ![c] = Tail(@)]
      /\ UNCHANGED <<cli, skipped, mispaired, l1, cur, data, files>>
  BY DEF ReadTag, OwnAt, BarePcs, history, store
<1>2. Fetched(c) /\ Head(up[c]) = m /\ m \in UpMsg
  BY <1>1, FetchedIs
<1>3. /\ Len(up[c]) \in Nat /\ Len(up[c]) > 0 /\ Len(up'[c]) = Len(up[c]) - 1
      /\ \A i \in 1..Len(up[c]) - 1 : up'[c][i] = up[c][i + 1]
      /\ m.tag \in UpTags /\ m.id \in Nat /\ m.desc \in Nat
  BY <1>2 DEF Fetched, UpMsg
<1>4. OfferAt(c) /\ CommitAt(c) /\ m.tag # "commit" /\ ~CommitNext(c)
  <2>1. OfferAt(c) /\ CommitAt(c)
    BY <1>1 DEF StreamAt
  <2> QED
    BY SMTT(15), <1>1, <1>3, <2>1 DEF CommitAt, CommitNext
<1>5. CASE m.tag = "bye" /\ Ends(c)
  BY <1>1, <1>3, <1>4, <1>5, EndsKeep, NothingSent
<1> DEFINE pc == CASE m.tag = "get" -> "lookup" [] m.tag \in Puts -> "room" [] OTHER -> "meta"
<1>6. CASE /\ m.tag \in Gets \cup Puts
           /\ srv' = [srv EXCEPT ![c] = [Waiting EXCEPT !.op = m.tag, !.id = m.id, !.gen = m.desc, !.pc = pc]]
           /\ UNCHANGED <<down, qp, mem, hold>>
  <2>1. /\ pc \in {"lookup", "room", "meta"} /\ pc \in ServerPcs
        /\ m.tag \in Puts => pc = "room"
    BY DEF ServerPcs, Puts
  <2> HIDE DEF pc
  <2>2. ServerIs(c, pc, m.tag, m.id, m.desc, None, None)
    <3>1. m.tag \in AllOps /\ None \in Place /\ None \in Val
      BY <1>6 DEF AllOps, Place, Val
    <3> HIDE DEF m
    <3> QED
      BY <1>3, <1>6, <2>1, <3>1 DEF Types, ServerIs, Server, Waiting
  <2>3. /\ srv'[c].pc = pc /\ srv'[c].op = m.tag /\ srv'[c].id = m.id /\ srv'[c].gen = m.desc
        /\ srv'[c].ext = None /\ down'[c] = down[c] /\ cli'[c] = cli[c]
    BY <1>1, <1>6, <2>2 DEF ServerIs
  <2>4. StreamAt(c)'
    <3>1. OfferAt(c)'
      BY <1>1, <1>4, <2>3 DEF OfferAt, Offer
    <3>2. \A i \in 1..Len(up'[c]) : up'[c][i].tag # "commit"
      BY SMTT(15), <1>1, <1>3, <1>4 DEF CommitAt
    <3>3. Len(up'[c]) = 0 => m.id = cli[c].id
      BY SMTT(15), <1>3, <1>6 DEF StreamAt, Gets, Puts
    <3>4. CommitAt(c)'
      BY <1>1, <1>4, <2>1, <2>3, <3>2, <3>3 DEF CommitAt, OfferAt
    <3>5. Len(up'[c]) > 0 => up'[c][Len(up'[c])] = up[c][Len(up[c])]
      BY <1>3, LastTaken
    <3> QED
      BY <1>3, <2>3, <3>1, <3>4, <3>5 DEF StreamAt
  <2>5. PhaseAt(c)'
    <3>1. ASSUME c \notin skipped, cli[c].pc # "closed" PROVE AskedPhase(c)
      BY SMTT(15), <1>1, <1>3, <3>1 DEF PhaseAt, IdlePhase, ServingPhase, PromisedPhase, AnsweredPhase, GonePhase,
         GetPcs, StorePcs
    <3>2. ASSUME AskedPhase(c) PROVE ServingPhase(c)'
      BY SMTT(15), <1>3, <1>6, <2>1, <2>3, <3>2 DEF AskedPhase, ServingPhase, SameRequest, GetPcs
    <3> QED
      BY ZenonT(40), <1>1, <3>1, <3>2 DEF PhaseAt
  <2>6. OwnAt(c)' /\ ValAt(c)'
    BY <2>1, <2>3, BareAt
  <2>7. Here(c)
    BY <1>1, <1>2, <1>6, <2>2, ServerKeeps DEF ServerIs, Fetched, Types
  <2> QED
    BY <1>1, <1>6, <2>4, <2>5, <2>6, <2>7, SameHold, SameSlab, SameStore, StepKeeps DEF ConnAt
<1> QED
  BY <1>2, <1>4, <1>5, <1>6 DEF ReadTag

-----------------------------------------------------------------------------
(* The server's PUT paths. *)
LEMMA CommitKeeps ==
    ASSUME SessionInv, NEW c \in Conns, Commit(c)
    PROVE  SessionInv'
<1> USE Parts
<1>1. /\ srv[c].pc = "commit" /\ up[c] # <<>> /\ up' = [up EXCEPT ![c] = Tail(@)]
      /\ UNCHANGED <<cli, skipped, mispaired, l1, cur, data, files>>
  BY DEF Commit, history, store
<1>2. Fetched(c) /\ Head(up[c]) = up[c][1]
  BY <1>1, FetchedIs
<1>3. /\ Len(up[c]) \in Nat /\ Len(up[c]) > 0 /\ Len(up'[c]) = Len(up[c]) - 1
      /\ \A i \in 1..Len(up[c]) - 1 : up'[c][i] = up[c][i + 1]
  BY <1>2 DEF Fetched
<1>4. CASE up[c][1].tag # "commit" /\ Ends(c)
  BY <1>1, <1>3, <1>4, EndsKeep, NothingSent DEF CommitNext
<1>5. CASE up[c][1].tag = "commit" /\ ServerTo(c, "store") /\ UNCHANGED <<down, qp, mem, hold>>
  <2>1. ServerIs(c, "store", srv[c].op, srv[c].id, srv[c].gen, srv[c].ext, srv[c].val)
    BY <1>5, ServerToIs DEF ServerPcs
  <2>2. /\ srv'[c].pc = "store" /\ srv'[c].op = srv[c].op /\ srv'[c].id = srv[c].id /\ srv'[c].gen = srv[c].gen
        /\ srv'[c].ext = srv[c].ext /\ down'[c] = down[c] /\ cli'[c] = cli[c] /\ mem' = mem
    BY <1>1, <1>5, <2>1 DEF ServerIs
  <2>3. CommitNext(c) /\ OfferAt(c) /\ CommitAt(c)
    BY <1>1, <1>3, <1>5 DEF CommitNext, StreamAt
  <2>4. StreamAt(c)'
    <3>1. OfferAt(c)'
      BY <2>2, <2>3 DEF OfferAt, Offer
    <3>2. ASSUME NEW i \in 1..Len(up'[c]) PROVE up'[c][i].tag # "commit"
      <4>1. up'[c][i] = up[c][i + 1] /\ i + 1 \in 1..Len(up[c]) /\ i + 1 # 1
        BY SMTT(15), <1>3
      <4> QED
        BY <2>3, <4>1 DEF CommitAt
    <3>3. Len(up'[c]) = 0 => srv[c].id = cli[c].id
      BY SMTT(15), <1>1, <1>3, <1>5, <2>3 DEF StreamAt, CommitAt
    <3>4. CommitAt(c)'
      BY <1>1, <2>2, <2>3, <3>2, <3>3 DEF CommitAt, OfferAt
    <3>5. Len(up'[c]) > 0 => up'[c][Len(up'[c])] = up[c][Len(up[c])]
      BY <1>3, LastTaken
    <3> QED
      BY <1>3, <2>2, <3>1, <3>4, <3>5 DEF StreamAt
  <2>5. PhaseAt(c)'
    <3>1. ASSUME c \notin skipped, cli[c].pc # "closed" PROVE PromisedPhase(c)
      <4>1. Len(up[c]) # 0
        BY SMTT(15), <1>3
      <4> QED
        BY <1>1, <1>5, <3>1, <4>1
           DEF PhaseAt, IdlePhase, AskedPhase, ServingPhase, AnsweredPhase, GonePhase, GetPcs, StorePcs, Gets, Puts
    <3>2. ASSUME PromisedPhase(c) PROVE ServingPhase(c)'
      BY SMTT(15), <1>3, <2>2, <3>2 DEF PromisedPhase, ServingPhase, SameRequest, StorePcs
    <3> QED
      BY <1>1, <3>1, <3>2 DEF PhaseAt
  <2>6. OwnAt(c)' /\ ValAt(c)'
    BY <1>1, <1>5, <2>2 DEF OwnAt, ValAt, OwnPcs, BarePcs
  <2>7. Here(c)
    BY <1>1, <1>2, <1>5, <2>1, ServerKeeps DEF ServerIs, Fetched, Types
  <2> QED
    BY <1>1, <1>5, <2>4, <2>5, <2>6, <2>7, SameHold, SameSlab, SameStore, StepKeeps DEF ConnAt
<1> QED
  BY <1>2, <1>4, <1>5 DEF Commit

LEMMA RoomPutKeeps ==
    ASSUME SessionInv, NEW c \in Conns, Room(c), srv[c].op \in Puts
    PROVE  SessionInv'
<1> USE Parts
<1>1. /\ srv[c].pc = "room" /\ UNCHANGED <<cli, up, qp, skipped, mispaired, mem, l1, cur, data, files>>
  BY DEF Room, history, store
<1>2. PICK e \in Extents :
        /\ hold[e] = {} /\ hold' = [hold EXCEPT ![e] = @ \cup {c}]
        /\ srv' = [srv EXCEPT ![c] = [@ EXCEPT !.ext = e, !.pc = "commit"]]
        /\ down' = [down EXCEPT ![c] = @ \o Sends(c, "put_ready", TRUE, e)]
  BY DEF Room, Free
<1>3. e \in Place /\ "commit" \in ServerPcs /\ "put_ready" \in DownTags /\ TRUE \in BOOLEAN
  BY DEF Place, ServerPcs, DownTags
<1>4. ServerIs(c, "commit", srv[c].op, srv[c].id, srv[c].gen, e, srv[c].val)
  BY <1>2, <1>3 DEF Types, ServerIs, Server
<1>5. HoldStep(c) /\ hold'[e] = {c}
  BY <1>1, <1>2, RoomHold
<1>6. OwnAt(c)' /\ ValAt(c)'
  BY <1>4, <1>5 DEF ServerIs, OwnAt, ValAt, OwnPcs, BarePcs
<1>7. /\ Replied(c, 2) /\ down'[c][Len(down[c]) + 1] = Answer(c, "put_ready", TRUE, e)
      /\ down'[c][Len(down[c]) + 2] = Body(c)
  BY <1>2, <1>3, RepliedIs
<1>8. /\ Len(down[c]) \in Nat /\ Len(down'[c]) = Len(down[c]) + 2
      /\ \A i \in 1..Len(down[c]) : down'[c][i] = down[c][i]
      /\ down'[c][Len(down[c]) + 1].tag = "put_ready" /\ down'[c][Len(down[c]) + 1].ok
      /\ down'[c][Len(down[c]) + 1].id = srv[c].id /\ down'[c][Len(down[c]) + 1].ext = e
      /\ down'[c][Len(down[c]) + 2].tag = "body" /\ down'[c][Len(down[c]) + 2].id = srv[c].id
  BY SMTT(15), <1>7 DEF Replied, Answer, Body
<1>9. /\ srv'[c].pc = "commit" /\ srv'[c].op = srv[c].op /\ srv'[c].id = srv[c].id /\ srv'[c].gen = srv[c].gen
      /\ srv'[c].ext = e /\ cli'[c] = cli[c] /\ up'[c] = up[c]
  BY <1>1, <1>4 DEF ServerIs
<1>10. StreamAt(c)'
  <2>1. OfferAt(c) /\ CommitAt(c) /\ ~CommitNext(c) /\ ~CommitNext(c)'
    BY SMTT(15), <1>1, <1>9 DEF StreamAt, CommitAt, CommitNext
  <2>2. ASSUME NEW i \in 1..Len(down'[c]), Offer(c, i)' PROVE i = Len(down[c]) + 1
    <3>1. i \in 1..Len(down[c]) \/ i = Len(down[c]) + 1 \/ i = Len(down[c]) + 2
      BY SMTT(15), <1>8
    <3>2. \A j \in 1..Len(down[c]) : ~Offer(c, j)
      BY <1>1, <2>1 DEF OfferAt
    <3> QED
      BY <1>8, <2>2, <3>1, <3>2 DEF Offer
  <2>3. OfferAt(c)'
    BY <1>1, <1>8, <1>9, <2>1, <2>2 DEF OfferAt
  <2>4. CommitAt(c)'
    BY <1>1, <1>9, <2>1 DEF OfferAt, CommitAt
  <2> QED
    BY ZenonT(40), <1>9, <2>3, <2>4 DEF StreamAt
<1>11. PhaseAt(c)'
  <2>1. ASSUME c \notin skipped, cli[c].pc # "closed" PROVE ServingPhase(c)
    BY ZenonT(40), <1>1, <2>1 DEF PhaseAt, IdlePhase, AskedPhase, PromisedPhase, AnsweredPhase, GonePhase
  <2>2. ASSUME ServingPhase(c) PROVE PromisedPhase(c)'
    <3>1. SameRequest(c) /\ cli[c].op \in Puts /\ cli[c].pc = "ready" /\ Len(up[c]) = 0 /\ Len(down[c]) = 0
      BY <1>1, <2>2 DEF ServingPhase, SameRequest, StorePcs, Gets, Puts
    <3>2. SameRequest(c)' /\ srv[c].id = cli[c].id
      BY <1>9, <3>1 DEF SameRequest
    <3> QED
      BY SMTT(15), <1>8, <1>9, <3>1, <3>2 DEF PromisedPhase, Offer
  <2> QED
    BY <1>1, <2>1, <2>2 DEF PhaseAt
<1>12. Here(c)
  BY <1>1, <1>4, <1>7, ServerKeeps DEF ServerIs, Replied, Types
<1> QED
  BY <1>1, <1>5, <1>6, <1>10, <1>11, <1>12, SameSlab, SameStore, StepKeeps DEF ConnAt

LEMMA NoRoomPutKeeps ==
    ASSUME SessionInv, NEW c \in Conns, NoRoom(c), srv[c].op \in Puts
    PROVE  SessionInv'
<1> USE Parts
<1>1. /\ srv[c].pc = "room" /\ UNCHANGED <<cli, up, qp, skipped, mispaired, mem, l1, cur, data, files>>
      /\ srv' = [srv EXCEPT ![c] = Waiting] /\ hold' = Without(c)
      /\ down' = [down EXCEPT ![c] = @ \o (Sends(c, "put_ready", FALSE, None) \o
                                           Sends(c, PutAnswer(c), FALSE, None))]
  <2>1. srv[c].op \notin Gets
    BY DEF Gets, Puts
  <2> QED
    BY <2>1 DEF NoRoom, Finishes, history, store
<1>2. ServerIs(c, "tag", "none", 0, 0, None, None)
  BY <1>1, FinishedIs
<1>3. /\ Replied(c, 4)
      /\ down'[c][Len(down[c]) + 1] = Answer(c, "put_ready", FALSE, None)
      /\ down'[c][Len(down[c]) + 2] = Body(c)
      /\ down'[c][Len(down[c]) + 3] = Answer(c, PutAnswer(c), FALSE, None)
      /\ down'[c][Len(down[c]) + 4] = Body(c)
  BY <1>1, RejectedIs
<1>4. /\ Len(down[c]) \in Nat /\ Len(down'[c]) = Len(down[c]) + 4
      /\ \A i \in 1..Len(down[c]) : down'[c][i] = down[c][i]
      /\ down'[c][Len(down[c]) + 1].tag = "put_ready" /\ ~down'[c][Len(down[c]) + 1].ok
      /\ down'[c][Len(down[c]) + 2].tag = "body" /\ down'[c][Len(down[c]) + 4].tag = "body"
      /\ down'[c][Len(down[c]) + 3].tag = PutAnswer(c) /\ PutAnswer(c) # "put_ready"
      /\ down'[c][Len(down[c]) + 1].id = srv[c].id /\ down'[c][Len(down[c]) + 2].id = srv[c].id
      /\ down'[c][Len(down[c]) + 3].id = srv[c].id /\ down'[c][Len(down[c]) + 4].id = srv[c].id
  BY SMTT(15), <1>3 DEF Replied, Answer, Body, PutAnswer
<1>5. srv'[c].pc = "tag" /\ srv'[c].ext = None /\ cli'[c] = cli[c] /\ up'[c] = up[c]
  BY <1>1, <1>2 DEF ServerIs
<1>6. OwnAt(c)' /\ ValAt(c)'
  BY <1>5, BareAt
<1>7. \A i \in 1..Len(down'[c]) : \/ i \in 1..Len(down[c]) \/ i = Len(down[c]) + 1 \/ i = Len(down[c]) + 2
                                  \/ i = Len(down[c]) + 3 \/ i = Len(down[c]) + 4
  BY SMTT(40), <1>4
<1>8. StreamAt(c)'
  <2>1. OfferAt(c) /\ CommitAt(c)
    BY <1>1 DEF StreamAt
  <2>2. ASSUME NEW i \in 1..Len(down'[c]) PROVE ~Offer(c, i)'
    <3>1. \A j \in 1..Len(down[c]) : ~Offer(c, j)
      BY <1>1, <2>1 DEF OfferAt
    <3> QED
      BY <1>4, <1>7, <3>1 DEF Offer
  <2>3. OfferAt(c)'
    BY <1>1, <1>5, <2>1, <2>2 DEF OfferAt
  <2>4. CommitAt(c)'
    BY <1>1, <1>5, <2>1 DEF OfferAt, CommitAt
  <2> QED
    BY <1>5, <2>3, <2>4 DEF StreamAt
<1>9. PhaseAt(c)'
  <2>1. ASSUME c \notin skipped, cli[c].pc # "closed" PROVE ServingPhase(c)
    BY <1>1, <2>1 DEF PhaseAt, IdlePhase, AskedPhase, PromisedPhase, AnsweredPhase, GonePhase
  <2>2. ASSUME ServingPhase(c) PROVE AnsweredPhase(c)'
    <3>1. SameRequest(c) /\ cli[c].op \in Puts /\ cli[c].pc = "ready" /\ Len(up[c]) = 0 /\ Len(down[c]) = 0
      BY <1>1, <2>2 DEF ServingPhase, SameRequest, StorePcs, Gets, Puts
    <3>2. PutAnswer(c) = ReplyTag(cli[c].op) /\ srv[c].id = cli[c].id /\ cli[c].op \notin Gets
      BY <3>1 DEF SameRequest, PutAnswer, ReplyTag, Gets, Puts
    <3>3. \A i \in 1..Len(down'[c]) : down'[c][i].id = cli[c].id
      BY SMTT(15), <1>4, <1>7, <3>1, <3>2
    <3> QED
      BY SMTT(15), <1>4, <1>5, <3>1, <3>2, <3>3 DEF AnsweredPhase
  <2> QED
    BY <1>1, <2>1, <2>2 DEF PhaseAt
<1>10. Here(c)
  BY <1>1, <1>2, <1>3, ServerKeeps DEF ServerIs, Replied, Types
<1> QED
  BY <1>1, <1>6, <1>8, <1>9, <1>10, WithoutHold, SameSlab, SameStore, StepKeeps DEF ConnAt

(* A PUT that goes on after COMMIT, its extent still its own. *)
LEMMA PutMovesKeep ==
    ASSUME SessionInv, NEW c \in Conns, srv[c].pc \in {"store", "inject"},
           NEW pc \in {"inject", "insert"}, NEW gen,
           ServerIs(c, pc, srv[c].op, srv[c].id, gen, srv[c].ext, srv[c].val),
           UNCHANGED <<cli, up, down, qp, skipped, mem, hold, l1>>, StoreStep, ValAt(c)'
    PROVE  SessionInv'
<1> USE Parts
<1>1. srv'[c].pc = pc /\ srv'[c].op = srv[c].op /\ srv'[c].id = srv[c].id /\ srv'[c].ext = srv[c].ext
  BY DEF ServerIs
<1>2. OwnAt(c)'
  BY <1>1 DEF OwnAt, OwnPcs, BarePcs
<1>3. StreamAt(c)'
  BY <1>1 DEF StreamAt, OfferAt, CommitAt, Offer, CommitNext
<1>4. PhaseAt(c)'
  <2>1. ASSUME c \notin skipped, cli[c].pc # "closed" PROVE ServingPhase(c)
    BY <2>1 DEF PhaseAt, IdlePhase, AskedPhase, PromisedPhase, AnsweredPhase, GonePhase
  <2>2. ASSUME ServingPhase(c) PROVE ServingPhase(c)'
    BY <1>1, <2>2 DEF ServingPhase, SameRequest, GetPcs, StorePcs, Described, Puts
  <2> QED
    BY <1>1, <2>1, <2>2 DEF PhaseAt
<1>5. Here(c)
  BY ServerKeeps DEF ServerIs, Types
<1> QED
  BY <1>2, <1>3, <1>4, <1>5, SameHold, SameSlab, StepKeeps DEF ConnAt

(* ... and that answers. *)
LEMMA PutEndsKeep ==
    ASSUME SessionInv, NEW c \in Conns, srv[c].pc \in StorePcs, NEW ok \in BOOLEAN,
           Finishes(c, Sends(c, PutAnswer(c), ok, None)),
           UNCHANGED <<cli, up, qp, skipped, mispaired, mem, l1, cur, data, files>>
    PROVE  SessionInv'
<1>1. /\ srv' = [srv EXCEPT ![c] = Waiting] /\ hold' = Without(c)
      /\ down' = [down EXCEPT ![c] = @ \o Sends(c, PutAnswer(c), ok, None)]
  BY DEF Finishes
<1>2. SlabStep(c) /\ StoreStep
  BY <1>1, Parts, WithoutHold, SameSlab, SameStore
<1>3. cli' \in [Conns -> Client] /\ PutAnswer(c) \in DownTags /\ srv[c].pc \notin GetPcs
  BY Parts DEF Types, DownTags, PutAnswer, GetPcs, StorePcs
<1> QED
  BY <1>1, <1>2, <1>3, AnswersKeep

LEMMA StoreKeeps ==
    ASSUME SessionInv, NEW c \in Conns, Store(c)
    PROVE  SessionInv'
<1> USE Parts
<1>1. /\ srv[c].pc = "store" /\ srv[c].ext \in Extents /\ mem[srv[c].ext] \in Val
      /\ UNCHANGED <<cli, up, qp, skipped, mispaired, mem, l1>>
  BY DEF Store, OwnAt, OwnPcs, Types, history
<1>2. CASE /\ NewGeneration(mem[srv[c].ext], FALSE)
           /\ srv' = [srv EXCEPT ![c] = [@ EXCEPT !.pc = "inject", !.gen = cur']]
           /\ UNCHANGED <<down, hold>>
  <2>1. /\ data' = Append(data, mem[srv[c].ext]) /\ cur' = Len(data) + 1
        /\ files' = files \cup {Len(data) + 1}
    BY <1>2 DEF NewGeneration
  <2>2. /\ data' \in Seq(Val) /\ Len(data) \in Nat /\ Len(data') = Len(data) + 1
        /\ \A g \in 1..Len(data) : data'[g] = data[g]
        /\ data'[Len(data) + 1] = mem[srv[c].ext]
    BY SMTT(15), <1>1, <2>1, AppendSeq DEF Types
  <2>3. StoreStep
    BY SMTT(15), <1>1, <2>1, <2>2 DEF StoreStep, DataGrows, Types, CacheInv
  <2>4. ServerIs(c, "inject", srv[c].op, srv[c].id, cur', srv[c].ext, srv[c].val)
    <3>1. "inject" \in ServerPcs /\ cur' \in Nat
      BY SMTT(15), <2>1, <2>2 DEF ServerPcs
    <3> QED
      BY <1>2, <3>1 DEF Types, ServerIs, Server
  <2>5. ValAt(c)'
    BY SMTT(15), <1>1, <2>1, <2>2, <2>4 DEF ServerIs, ValAt
  <2> QED
    BY <1>1, <1>2, <2>3, <2>4, <2>5, PutMovesKeep
<1>3. CASE /\ \E ok \in BOOLEAN : Finishes(c, Sends(c, PutAnswer(c), ok, None))
           /\ UNCHANGED <<cur, data, files>>
  BY <1>1, <1>3, PutEndsKeep DEF StorePcs
<1> QED
  BY <1>2, <1>3 DEF Store

LEMMA StoreFailsKeeps ==
    ASSUME SessionInv, NEW c \in Conns, StoreFails(c)
    PROVE  SessionInv'
BY PutEndsKeep DEF StoreFails, StorePcs, history, store

LEMMA InjectKeeps ==
    ASSUME SessionInv, NEW c \in Conns, Inject(c)
    PROVE  SessionInv'
<1> USE Parts
<1>1. /\ srv[c].pc = "inject" /\ srv[c].gen \in 1..Len(data) /\ mem[srv[c].ext] = data[srv[c].gen]
      /\ UNCHANGED <<cli, up, qp, skipped, mem, l1, cur, data, files>>
  BY DEF Inject, ValAt, store
<1>2. CASE /\ cur # 0
           /\ srv' = [srv EXCEPT ![c] = [@ EXCEPT !.pc = "insert", !.gen = cur]]
           /\ mispaired' = IF cur = srv[c].gen THEN mispaired ELSE mispaired \cup {cur}
           /\ UNCHANGED <<down, hold>>
  <2>1. ServerIs(c, "insert", srv[c].op, srv[c].id, cur, srv[c].ext, srv[c].val)
    <3>1. "insert" \in ServerPcs /\ cur \in Nat
      BY DEF ServerPcs, Types
    <3> QED
      BY <1>2, <3>1 DEF Types, ServerIs, Server
  <2>2. StoreStep
    BY SMTT(15), <1>1, <1>2 DEF StoreStep, DataGrows, Types, CacheInv
  <2>3. ValAt(c)'
    <3>1. Stored(mem[srv[c].ext])' /\ Own(cur, mem[srv[c].ext])'
      BY SMTT(15), <1>1, <1>2, <2>1 DEF ServerIs, Stored, Own, CacheInv
    <3> QED
      BY <1>1, <2>1, <3>1 DEF ServerIs, ValAt
  <2> QED
    BY <1>1, <1>2, <2>1, <2>2, <2>3, PutMovesKeep
<1>3. CASE Finishes(c, Sends(c, PutAnswer(c), TRUE, None)) /\ UNCHANGED mispaired
  BY <1>1, <1>3, PutEndsKeep DEF StorePcs
<1> QED
  BY <1>2, <1>3 DEF Inject

LEMMA InsertKeeps ==
    ASSUME SessionInv, NEW c \in Conns, Insert(c)
    PROVE  SessionInv'
<1> USE Parts
<1>1. /\ srv[c].pc = "insert" /\ CacheExtent(c, srv[c].gen)
      /\ down' = [down EXCEPT ![c] = @ \o Sends(c, PutAnswer(c), TRUE, None)]
      /\ srv' = [srv EXCEPT ![c] = Waiting]
      /\ UNCHANGED <<cli, up, qp, skipped, mispaired, mem, cur, data, files>>
  BY ZenonT(40) DEF Insert, history, store
<1>2. /\ srv[c].ext \in Extents /\ srv[c].ext # None /\ hold[srv[c].ext] = {c}
      /\ Stored(mem[srv[c].ext]) /\ Own(srv[c].gen, mem[srv[c].ext])
      /\ srv[c].gen \in Nat /\ srv[c].gen # 0
  BY SMTT(15), <1>1, SessionAssumption DEF OwnAt, OwnPcs, ValAt, Own, Server
<1>3. HoldStep(c) /\ l1' \in Entry /\ l1'.gen = srv[c].gen /\ l1'.ext = srv[c].ext
  BY <1>1, <1>2, CacheExtentHold
<1>4. (Stored(Cached) /\ Own(l1.gen, Cached))'
  BY <1>1, <1>2, <1>3 DEF Cached, Stored, Own
<1>5. SlabStep(c) /\ StoreStep
  BY <1>1, <1>3, <1>4, SameStore DEF SlabStep, Types
<1>6. /\ cli' \in [Conns -> Client] /\ PutAnswer(c) \in DownTags /\ TRUE \in BOOLEAN
      /\ srv[c].pc \notin GetPcs /\ srv[c].pc \in StorePcs
  BY <1>1 DEF Types, DownTags, PutAnswer, GetPcs, StorePcs
<1> QED
  BY <1>1, <1>5, <1>6, AnswersKeep

-----------------------------------------------------------------------------
(* The client's steps.  The server thread, and what it holds, stay as they   *)
(* are; only a server that waits for COMMIT has its extent written.          *)
LEMMA ClientKeeps ==
    ASSUME SessionInv, NEW c \in Conns,
           cli' \in [Conns -> Client], \A d \in Conns \ {c} : cli'[d] = cli[d],
           up' \in [Conns -> Seq(UpMsg)], \A d \in Conns \ {c} : up'[d] = up[d],
           down' \in [Conns -> Seq(DownMsg)], \A d \in Conns \ {c} : down'[d] = down[d],
           qp' = qp \/ qp' = qp \ {c}, skipped' = skipped \/ skipped' = skipped \cup {c},
           UNCHANGED <<srv, hold, l1, cur, data, files, mispaired>>, mem' \in [Extents -> Val],
           mem' = mem \/ (srv[c].pc = "commit" /\ \A e \in Extents : mem'[e] # mem[e] => hold[e] \subseteq {c}),
           StreamAt(c)', PhaseAt(c)'
    PROVE  SessionInv'
<1> USE Parts
<1>1. OwnAt(c)'
  BY ZenonT(40) DEF OwnAt
<1>2. ValAt(c)'
  BY SMTT(15) DEF ValAt, Source, Stored, Own
<1>3. Here(c)
  BY DEF Here, Types
<1>4. SlabStep(c)
  BY SameHold DEF SlabStep, Types
<1> QED
  BY <1>1, <1>2, <1>3, <1>4, SameStore, StepKeeps DEF ConnAt

(* A message goes out, other than COMMIT. *)
LEMMA StreamPosted ==
    ASSUME NEW c \in Conns, StreamAt(c), NEW m, Posted(c, m), m.tag # "commit",
           m.tag = "bye" \/ m.id = cli'[c].id,
           cli'[c].pc \notin {"write", "commit"}, cli'[c].pc = "ready" => cli'[c].val = <<c, cli'[c].id>>,
           UNCHANGED <<srv, down, mem>>
    PROVE  StreamAt(c)'
<1>1. /\ Len(up[c]) \in Nat /\ Len(up'[c]) = Len(up[c]) + 1 /\ up'[c][Len(up[c]) + 1] = m
      /\ \A i \in 1..Len(up[c]) : up'[c][i] = up[c][i]
  BY DEF Posted
<1>2. CommitNext(c)' <=> CommitNext(c)
  BY SMTT(15), <1>1 DEF CommitNext
<1>3. ASSUME srv[c].pc # "closed" PROVE OfferAt(c)' /\ CommitAt(c)'
  <2>1. OfferAt(c) /\ CommitAt(c)
    BY <1>3 DEF StreamAt
  <2>2. OfferAt(c)'
    BY <1>2, <2>1 DEF OfferAt, Offer
  <2>3. ASSUME NEW i \in 1..Len(up'[c]), up'[c][i].tag = "commit"
        PROVE  i \in 1..Len(up[c]) /\ up[c][i].tag = "commit"
    BY SMTT(15), <1>1, <2>3
  <2>4. CommitNext(c) => up'[c][1] = up[c][1]
    BY SMTT(15), <1>1 DEF CommitNext
  <2>5. CommitAt(c)'
    BY SMTT(15), <1>1, <1>2, <2>1, <2>3, <2>4 DEF CommitAt
  <2> QED
    BY <2>2, <2>5
<1> QED
  BY <1>1, <1>3 DEF StreamAt

(* The client has read, or given up. *)
LEMMA StreamTaken ==
    ASSUME NEW c \in Conns, StreamAt(c), down'[c] = down[c] \/ \E n \in {1, 2} : Reads(c, n),
           cli'[c].pc \notin {"ready", "write", "commit"}, cli'[c].id = cli[c].id,
           UNCHANGED <<srv, up>>, mem' = mem \/ (srv[c].pc = "commit" /\ ~CommitNext(c))
    PROVE  StreamAt(c)'
<1>1. ASSUME srv[c].pc # "closed" PROVE OfferAt(c)' /\ CommitAt(c)'
  <2>1. OfferAt(c) /\ CommitAt(c)
    BY <1>1 DEF StreamAt
  <2>2. OfferAt(c)'
    <3>1. CASE down'[c] = down[c]
      BY ZenonT(40), <2>1, <3>1 DEF OfferAt, Offer, CommitNext
    <3>2. ASSUME NEW n \in {1, 2}, Reads(c, n) PROVE OfferAt(c)'
      <4>1. /\ Len(down[c]) \in Nat /\ n \in Nat /\ Len(down'[c]) = Len(down[c]) - n
            /\ \A i \in 1..Len(down[c]) - n : down'[c][i] = down[c][i + n]
        BY SMTT(15), <3>2 DEF Reads
      <4>2. ASSUME NEW i \in 1..Len(down'[c])
            PROVE  /\ i \in Nat /\ i + n \in 1..Len(down[c]) /\ down'[c][i] = down[c][i + n]
                   /\ Offer(c, i)' => Offer(c, i + n)
        BY SMTT(40), <4>1 DEF Offer
      <4>3. ASSUME NEW i \in 1..Len(down'[c]), Offer(c, i)'
            PROVE  /\ srv[c].pc = "commit" /\ ~CommitNext(c) /\ down'[c][i].ext = srv[c].ext
                   /\ \A j \in 1..Len(down'[c]) : Offer(c, j)' => i + n = j + n
        BY <2>1, <4>2, <4>3 DEF OfferAt
      <4> QED
        BY SMTT(15), <4>1, <4>2, <4>3 DEF OfferAt, CommitNext
    <3> QED
      BY <3>1, <3>2
  <2>3. CommitAt(c)'
    BY <2>1 DEF CommitAt, CommitNext
  <2> QED
    BY <2>2, <2>3
<1> QED
  BY <1>1 DEF StreamAt

(* What the client returns with to its caller. *)
LEMMA ReturnsKeep ==
    ASSUME SessionInv, NEW c \in Conns, NEW l \in {"idle", "closed"}, ClientReturns(c, l),
           down' = down \/ \E n \in {1, 2} : n <= Len(down[c]) /\ Takes(c, n),
           qp' = qp \/ qp' = qp \ {c}, skipped' = skipped \/ skipped' = skipped \cup {c},
           UNCHANGED <<srv, up, hold, l1, cur, data, files, mispaired>>, mem' \in [Extents -> Val],
           mem' = mem \/ (/\ srv[c].pc = "commit" /\ ~CommitNext(c)
                          /\ \A e \in Extents : mem'[e] # mem[e] => hold[e] \subseteq {c}),
           c \notin skipped' /\ l = "idle" => (IdlePhase(c) \/ GonePhase(c))'
    PROVE  SessionInv'
<1> USE Parts
<1>1. ClientIs(c, l, "none", cli[c].id, None, 0, None, None)
  BY ClientReturnsIs DEF ClientPcs
<1>2. /\ down' \in [Conns -> Seq(DownMsg)] /\ \A d \in Conns \ {c} : down'[d] = down[d]
      /\ down'[c] = down[c] \/ \E n \in {1, 2} : Reads(c, n)
  <2>1. CASE down' = down
    BY <2>1 DEF Types
  <2>2. ASSUME NEW n \in {1, 2}, n <= Len(down[c]), Takes(c, n) PROVE Reads(c, n)
    BY <2>2, ReadsIs
  <2> QED
    BY <2>1, <2>2 DEF Reads
<1>3. StreamAt(c)'
  BY <1>1, <1>2, StreamTaken DEF ClientIs
<1>4. PhaseAt(c)'
  BY <1>1 DEF ClientIs, PhaseAt
<1> QED
  BY <1>1, <1>2, <1>3, <1>4, ClientKeeps DEF ClientIs, Types

LEMMA LookupKeeps ==
    ASSUME SessionInv, NEW c \in Conns, Lookup(c)
    PROVE  SessionInv'
<1> USE Parts
<1>1. /\ cli[c].pc = "idle" /\ cli' = [cli EXCEPT ![c].desc = cur]
      /\ UNCHANGED <<srv, up, down, qp, skipped, mispaired, mem, hold, l1, cur, data, files>>
  BY DEF Lookup, history, slab, store
<1>2. ClientIs(c, "idle", cli[c].op, cli[c].id, cli[c].val, cur, cli[c].ext, cli[c].buf)
  BY <1>1 DEF Types, ClientIs, Client
<1>3. StreamAt(c)'
  BY <1>1, <1>2, StreamTaken DEF ClientIs
<1>4. PhaseAt(c)'
  BY <1>1, <1>2 DEF ClientIs, PhaseAt, IdlePhase, AskedPhase, ServingPhase, PromisedPhase, AnsweredPhase,
     GonePhase
<1> QED
  BY <1>1, <1>2, <1>3, <1>4, ClientKeeps DEF ClientIs, Types

LEMMA RequestKeeps ==
    ASSUME SessionInv, NEW c \in Conns, NEW op \in Ops, Request(c, op)
    PROVE  SessionInv'
<1> USE Parts
<1> DEFINE n == cli[c].id + 1
           pc == IF op \in Puts THEN "ready" ELSE "answer"
           val == IF op \in Puts THEN <<c, n>> ELSE None
           m == [tag |-> op, id |-> n, desc |-> cli[c].desc]
<1>1. /\ cli[c].pc = "idle" /\ up' = [up EXCEPT ![c] = Append(@, m)]
      /\ cli' = [cli EXCEPT ![c] = [@ EXCEPT !.pc = pc, !.op = op, !.id = n, !.val = val, !.buf = None]]
      /\ UNCHANGED <<srv, down, qp, skipped, mispaired, mem, hold, l1, cur, data, files>>
  BY DEF Request, history, slab, store
<1>2. /\ op \in Gets \cup Puts /\ op \in AllOps /\ n \in Nat /\ pc \in ClientPcs /\ val \in Val /\ None \in Val
      /\ m \in UpMsg /\ m.tag = op /\ m.id = n /\ m.desc = cli[c].desc /\ op \notin {"commit", "bye"}
  BY SMTT(15), SessionAssumption DEF Gets, Puts, AllOps, Client, ClientPcs, Val, UpMsg, UpTags
<1>3. (op \in Puts /\ op \notin Gets /\ pc = "ready" /\ val = <<c, n>>) \/ (op \in Gets /\ pc = "answer")
  BY <1>2 DEF Gets, Puts
<1> HIDE DEF n, pc, val, m
<1>4. ClientIs(c, pc, op, n, val, cli[c].desc, cli[c].ext, None)
  BY <1>1, <1>2 DEF Types, ClientIs, Client
<1>5. Posted(c, m)
  BY <1>1, <1>2, PostedIs
<1>6. StreamAt(c)'
  BY <1>1, <1>2, <1>3, <1>4, <1>5, StreamPosted DEF ClientIs
<1>7. PhaseAt(c)'
  <2>1. ASSUME c \notin skipped PROVE IdlePhase(c) \/ GonePhase(c)
    BY <1>1, <2>1 DEF PhaseAt, AskedPhase, ServingPhase, PromisedPhase, AnsweredPhase
  <2>2. ASSUME IdlePhase(c) PROVE AskedPhase(c)'
    <3>1. Len(up'[c]) = 1 /\ up'[c][1] = m /\ Len(down'[c]) = 0 /\ srv'[c].pc \in {"tag", "commit"}
      BY SMTT(15), <1>1, <1>5, <2>2 DEF IdlePhase, Posted
    <3> QED
      BY <1>2, <1>3, <1>4, <3>1 DEF AskedPhase, ClientIs
  <2>3. ASSUME GonePhase(c) PROVE GonePhase(c)'
    BY <1>1, <2>3 DEF GonePhase
  <2> QED
    BY <1>1, <2>1, <2>2, <2>3 DEF PhaseAt
<1> QED
  BY <1>1, <1>4, <1>5, <1>6, <1>7, ClientKeeps DEF ClientIs, Posted, Types

(* read_put_ready with room: the offer is taken up. *)
LEMMA OfferTaken ==
    ASSUME SessionInv, NEW c \in Conns, cli[c].pc = "ready", Len(down[c]) >= 2, Offer(c, 1), Takes(c, 2),
           cli' = [cli EXCEPT ![c] = [@ EXCEPT !.pc = "write", !.ext = down[c][1].ext]],
           UNCHANGED <<srv, up, qp, skipped, mispaired, mem, hold, l1, cur, data, files>>
    PROVE  SessionInv'
<1> USE Parts
<1>1. Reads(c, 2) /\ Len(down[c]) \in Nat /\ 1 \in 1..Len(down[c])
  BY SMTT(15), ReadsIs DEF Reads
<1>2. /\ Len(down'[c]) = Len(down[c]) - 2 /\ \A i \in 1..Len(down'[c]) : down'[c][i] = down[c][i + 2]
  BY <1>1 DEF Reads
<1>3. ClientIs(c, "write", cli[c].op, cli[c].id, cli[c].val, cli[c].desc, down[c][1].ext, cli[c].buf)
  <2>1. down[c] \in Seq(DownMsg) /\ down[c] # <<>>
    BY SMTT(15), <1>1 DEF Types
  <2>2. down[c][1] \in DownMsg
    BY <2>1, TailSeq
  <2>3. down[c][1].ext \in Place /\ "write" \in ClientPcs
    BY <2>2 DEF DownMsg, ClientPcs
  <2> QED
    BY <2>3 DEF Types, ClientIs, Client
<1>4. /\ cli'[c].pc = "write" /\ cli'[c].ext = down[c][1].ext /\ cli'[c].id = cli[c].id
      /\ cli'[c].op = cli[c].op /\ cli'[c].desc = cli[c].desc /\ cli'[c].val = cli[c].val
  BY <1>3 DEF ClientIs
<1>5. StreamAt(c)'
  <2>1. ASSUME srv[c].pc # "closed" PROVE OfferAt(c)' /\ CommitAt(c)'
    <3>1. OfferAt(c) /\ CommitAt(c)
      BY <2>1 DEF StreamAt
    <3>2. /\ srv[c].pc = "commit" /\ ~CommitNext(c) /\ down[c][1].ext = srv[c].ext
          /\ \A j \in 1..Len(down[c]) : Offer(c, j) => 1 = j
      BY <1>1, <3>1 DEF OfferAt
    <3>3. ASSUME NEW i \in 1..Len(down'[c]) PROVE ~Offer(c, i)'
      <4>1. i + 2 \in 1..Len(down[c]) /\ i + 2 # 1 /\ down'[c][i] = down[c][i + 2]
        BY SMTT(15), <1>1, <1>2
      <4>2. ~Offer(c, i + 2)
        BY <3>2, <4>1
      <4> QED
        BY <4>1, <4>2 DEF Offer
    <3>4. OfferAt(c)'
      BY <1>4, <3>2, <3>3 DEF OfferAt, CommitNext
    <3>5. CommitAt(c)'
      BY <1>4, <3>1 DEF CommitAt, CommitNext
    <3> QED
      BY <3>4, <3>5
  <2> QED
    BY <1>4, <2>1 DEF StreamAt
<1>6. PhaseAt(c)'
  <2>1. ASSUME c \notin skipped PROVE PromisedPhase(c) /\ Len(down[c]) = 2 /\ Len(up[c]) = 0
    BY SMTT(15), <2>1 DEF PhaseAt, IdlePhase, AskedPhase, ServingPhase, PromisedPhase, AnsweredPhase, GonePhase, Offer
  <2>2. ASSUME PromisedPhase(c), Len(down[c]) = 2, Len(up[c]) = 0 PROVE PromisedPhase(c)'
    BY SMTT(15), <1>2, <1>4, <2>2 DEF PromisedPhase, SameRequest
  <2> QED
    BY <2>1, <2>2 DEF PhaseAt
<1> QED
  BY <1>1, <1>3, <1>5, <1>6, ClientKeeps DEF ClientIs, Reads, Types

LEMMA ReadReadyKeeps ==
    ASSUME SessionInv, NEW c \in Conns, ReadReady(c)
    PROVE  SessionInv'
<1> USE Parts
<1>1. /\ cli[c].pc = "ready" /\ Len(down[c]) >= 2 /\ Head(down[c]).tag = "put_ready" /\ Takes(c, 2)
      /\ UNCHANGED <<srv, up, qp, mispaired, mem, hold, l1, cur, data, files>>
  BY DEF ReadReady, slab, store
<1>2. Head(down[c]) = down[c][1] /\ Len(down[c]) \in Nat /\ 2 <= Len(down[c])
  BY SMTT(15), <1>1, TailSeq DEF Types
<1>3. CASE /\ Head(down[c]).ok /\ UNCHANGED skipped
           /\ cli' = [cli EXCEPT ![c] = [@ EXCEPT !.pc = "write", !.ext = Head(down[c]).ext]]
  <2>1. Offer(c, 1) /\ cli' = [cli EXCEPT ![c] = [@ EXCEPT !.pc = "write", !.ext = down[c][1].ext]]
    BY <1>1, <1>2, <1>3 DEF Offer
  <2> QED
    BY <1>1, <1>3, <2>1, OfferTaken
<1>4. CASE ~Head(down[c]).ok /\ ClientTo(c, "rejected") /\ UNCHANGED skipped
  <2>1. Reads(c, 2)
    BY <1>1, <1>2, ReadsIs
  <2>2. ClientIs(c, "rejected", cli[c].op, cli[c].id, cli[c].val, cli[c].desc, cli[c].ext, cli[c].buf)
    BY <1>4, ClientToIs DEF ClientPcs
  <2>3. StreamAt(c)'
    BY <1>1, <2>1, <2>2, StreamTaken DEF ClientIs
  <2>4. PhaseAt(c)'
    <3>1. ASSUME c \notin skipped PROVE AnsweredPhase(c) /\ cli[c].op \in Puts /\ Len(down[c]) = 4
      <4>1. Len(down[c]) # 0
        BY SMTT(40), <1>2
      <4> QED
        BY ZenonT(40), <1>1, <1>2, <1>4, <3>1, <4>1
           DEF PhaseAt, IdlePhase, AskedPhase, ServingPhase, PromisedPhase, AnsweredPhase, GonePhase, Offer
    <3>2. ASSUME AnsweredPhase(c), cli[c].op \in Puts, Len(down[c]) = 4 PROVE AnsweredPhase(c)'
      <4>1. /\ Len(down'[c]) = 2 /\ down'[c][1] = down[c][3] /\ down'[c][2] = down[c][4]
            /\ cli'[c].pc = "rejected" /\ cli'[c].op = cli[c].op /\ cli'[c].id = cli[c].id
            /\ cli[c].op \notin Gets
        BY SMTT(15), <2>1, <2>2, <3>2 DEF Reads, ClientIs, Gets, Puts
      <4> QED
        BY SMTT(40), <1>1, <3>2, <4>1 DEF AnsweredPhase
    <3> QED
      BY <1>4, <1>1, <3>1, <3>2 DEF PhaseAt
  <2> QED
    BY ZenonT(40), <1>1, <1>4, <2>1, <2>2, <2>3, <2>4, ClientKeeps DEF ClientIs, Reads, Types
<1>5. CASE ClientReturns(c, "idle") /\ skipped' = skipped \cup {c}
  BY <1>1, <1>2, <1>5, ReturnsKeep DEF Types
<1> QED
  BY <1>3, <1>4, <1>5 DEF ReadReady

LEMMA WriteKeeps ==
    ASSUME SessionInv, NEW c \in Conns, Write(c)
    PROVE  SessionInv'
<1> USE Parts
<1>1. /\ cli[c].pc = "write" /\ c \in qp /\ mem' = [mem EXCEPT ![cli[c].ext] = cli[c].val]
      /\ ClientTo(c, "commit")
      /\ UNCHANGED <<srv, up, down, qp, skipped, mispaired, hold, l1, cur, data, files>>
  BY DEF Write, history, store
<1>2. OfferAt(c) /\ CommitAt(c)
  BY <1>1 DEF OwnAt, StreamAt
<1>3. /\ srv[c].pc = "commit" /\ ~CommitNext(c) /\ cli[c].ext = srv[c].ext
      /\ srv[c].ext \in Extents /\ hold[srv[c].ext] = {c}
  BY <1>1, <1>2 DEF OfferAt, OwnAt, OwnPcs
<1>4. /\ mem' \in [Extents -> Val] /\ mem'[cli[c].ext] = cli[c].val
      /\ \A e \in Extents : e # cli[c].ext => mem'[e] = mem[e]
  BY <1>1, <1>3 DEF Types, Client
<1>5. ClientIs(c, "commit", cli[c].op, cli[c].id, cli[c].val, cli[c].desc, cli[c].ext, cli[c].buf)
  BY <1>1, ClientToIs DEF ClientPcs
<1>6. /\ cli'[c].pc = "commit" /\ cli'[c].op = cli[c].op /\ cli'[c].id = cli[c].id
      /\ cli'[c].val = cli[c].val /\ cli'[c].ext = cli[c].ext /\ cli'[c].desc = cli[c].desc
  BY <1>5 DEF ClientIs
<1>7. StreamAt(c)'
  <2>1. OfferAt(c)'
    BY <1>1, <1>2, <1>6 DEF OfferAt, Offer, CommitNext
  <2>2. CommitAt(c)'
    BY <1>1, <1>2, <1>3, <1>4, <1>6 DEF CommitAt, CommitNext
  <2> QED
    BY <1>1, <1>6, <2>1, <2>2 DEF StreamAt
<1>8. PhaseAt(c)'
  <2>1. ASSUME c \notin skipped PROVE PromisedPhase(c)
    BY <1>1, <1>3, <2>1 DEF PhaseAt, IdlePhase, AskedPhase, ServingPhase, AnsweredPhase, GonePhase
  <2>2. ASSUME PromisedPhase(c) PROVE PromisedPhase(c)'
    BY <1>1, <1>6, <2>2 DEF PromisedPhase, SameRequest
  <2> QED
    BY <1>1, <2>1, <2>2 DEF PhaseAt
<1>9. \A e \in Extents : mem'[e] # mem[e] => hold[e] \subseteq {c}
  BY <1>3, <1>4
<1> QED
  BY ZenonT(40), <1>1, <1>3, <1>4, <1>5, <1>7, <1>8, <1>9, ClientKeeps DEF ClientIs, Types

(* A failed transfer, landed or not. *)
LEMMA WriteFailsKeeps ==
    ASSUME SessionInv, NEW c \in Conns, WriteFails(c)
    PROVE  SessionInv'
<1> USE Parts
<1>1. /\ cli[c].pc = "write" /\ qp' = qp \ {c} /\ ClientReturns(c, "idle")
      /\ mem' = mem \/ (c \in qp /\ mem' = [mem EXCEPT ![cli[c].ext] = cli[c].val])
      /\ UNCHANGED <<srv, up, down, skipped, mispaired, hold, l1, cur, data, files>>
  BY DEF WriteFails, history, store
<1>2. /\ mem' \in [Extents -> Val]
      /\ mem' = mem \/ (/\ srv[c].pc = "commit" /\ ~CommitNext(c)
                        /\ \A e \in Extents : mem'[e] # mem[e] => hold[e] \subseteq {c})
  <2>1. CASE c \in qp /\ mem' = [mem EXCEPT ![cli[c].ext] = cli[c].val]
    <3>1. OfferAt(c)
      BY <2>1 DEF OwnAt, StreamAt
    <3>2. /\ srv[c].pc = "commit" /\ ~CommitNext(c) /\ cli[c].ext = srv[c].ext
          /\ srv[c].ext \in Extents /\ hold[srv[c].ext] = {c}
      BY <1>1, <3>1 DEF OfferAt, OwnAt, OwnPcs
    <3> QED
      BY <2>1, <3>2 DEF Types, Client
  <2> QED
    BY <1>1, <2>1 DEF Types
<1>3. c \notin skipped => (IdlePhase(c) \/ GonePhase(c))'
  <2>1. ASSUME c \notin skipped PROVE PromisedPhase(c) \/ GonePhase(c)
    BY <1>1, <2>1 DEF PhaseAt, IdlePhase, AskedPhase, ServingPhase, AnsweredPhase
  <2>2. ASSUME PromisedPhase(c) PROVE IdlePhase(c)'
    <3>1. cli'[c].pc = "idle"
      BY <1>1, ClientReturnsIs DEF ClientIs, ClientPcs
    <3> QED
      BY <1>1, <2>2, <3>1 DEF PromisedPhase, IdlePhase
  <2> QED
    BY <1>1, <2>1, <2>2 DEF GonePhase
<1> QED
  BY <1>1, <1>2, <1>3, ReturnsKeep

LEMMA SendCommitKeeps ==
    ASSUME SessionInv, NEW c \in Conns, SendCommit(c)
    PROVE  SessionInv'
<1> USE Parts
<1> DEFINE m == [tag |-> "commit", id |-> cli[c].id, desc |-> 0]
<1>1. /\ cli[c].pc = "commit" /\ up' = [up EXCEPT ![c] = Append(@, m)] /\ ClientTo(c, "answer")
      /\ UNCHANGED <<srv, down, qp, skipped, mispaired, mem, hold, l1, cur, data, files>>
  BY DEF SendCommit, history, slab, store
<1>2. m \in UpMsg /\ m.tag = "commit" /\ m.id = cli[c].id
  BY DEF UpMsg, UpTags, Client
<1> HIDE DEF m
<1>3. Posted(c, m)
  BY <1>1, <1>2, PostedIs
<1>4. /\ Len(up[c]) \in Nat /\ Len(up'[c]) = Len(up[c]) + 1 /\ up'[c][Len(up[c]) + 1] = m
      /\ \A i \in 1..Len(up[c]) : up'[c][i] = up[c][i]
  BY <1>3 DEF Posted
<1>5. ClientIs(c, "answer", cli[c].op, cli[c].id, cli[c].val, cli[c].desc, cli[c].ext, cli[c].buf)
  BY <1>1, ClientToIs DEF ClientPcs
<1>6. /\ cli'[c].pc = "answer" /\ cli'[c].op = cli[c].op /\ cli'[c].id = cli[c].id
      /\ cli'[c].desc = cli[c].desc
  BY <1>5 DEF ClientIs
<1>7. StreamAt(c)'
  <2>1. ASSUME srv[c].pc # "closed" PROVE OfferAt(c)' /\ CommitAt(c)'
    <3>1. OfferAt(c) /\ CommitAt(c)
      BY <2>1 DEF StreamAt
    <3>2. /\ srv[c].pc = "commit" /\ ~CommitNext(c) /\ cli[c].ext = srv[c].ext
          /\ \A i \in 1..Len(down[c]) : ~Offer(c, i)
          /\ mem[cli[c].ext] = <<c, cli[c].id>>
      BY <1>1, <3>1 DEF OfferAt, CommitAt, StreamAt
    <3>3. OfferAt(c)'
      BY ZenonT(40), <1>1, <1>6, <3>2 DEF OfferAt, Offer
    <3>4. CommitNext(c)' => Len(up[c]) = 0
      BY SMTT(15), <1>4, <3>2 DEF CommitNext
    <3>5. Len(up[c]) = 0 => up'[c][1] = m /\ srv[c].id = cli[c].id /\ \A i \in 1..Len(up'[c]) : i = 1
      BY SMTT(40), <1>4, <3>1, <3>2 DEF CommitAt
    <3>6. /\ srv'[c] = srv[c] /\ mem' = mem /\ cli'[c].pc # "commit" /\ srv[c].pc # "store"
          /\ Len(up'[c]) # 0
      BY SMTT(15), <1>1, <1>4, <1>6, <3>2
    <3>7. ASSUME CommitNext(c)'
          PROVE  up'[c][1].id = srv[c].id /\ mem[srv[c].ext] = <<c, srv[c].id>> /\ \A i \in 1..Len(up'[c]) : i = 1
      BY <1>2, <3>2, <3>4, <3>5, <3>7
    <3>8. CommitAt(c)'
      BY <3>2, <3>6, <3>7 DEF CommitAt
    <3> QED
      BY <3>3, <3>8
  <2> QED
    BY <1>1, <1>2, <1>4, <1>6, <2>1 DEF StreamAt
<1>8. PhaseAt(c)'
  <2>1. ASSUME c \notin skipped PROVE PromisedPhase(c) \/ GonePhase(c)
    BY <1>1, <2>1 DEF PhaseAt, IdlePhase, AskedPhase, ServingPhase, AnsweredPhase
  <2>2. ASSUME PromisedPhase(c) PROVE PromisedPhase(c)'
    <3>1. /\ SameRequest(c) /\ cli[c].op \in Puts /\ srv[c].pc = "commit"
          /\ Len(up[c]) = 0 /\ Len(down[c]) = 0
      BY <1>1, <2>2 DEF PromisedPhase
    <3>2. Len(up'[c]) = 1 /\ up'[c][1] = m
      BY SMTT(15), <1>4, <3>1
    <3> QED
      BY <1>1, <1>2, <1>6, <3>1, <3>2 DEF PromisedPhase, SameRequest
  <2>3. ASSUME GonePhase(c) PROVE GonePhase(c)'
    BY <1>1, <2>3 DEF GonePhase
  <2> QED
    BY <1>1, <2>1, <2>2, <2>3 DEF PhaseAt
<1> QED
  BY ZenonT(40), <1>1, <1>3, <1>5, <1>7, <1>8, ClientKeeps DEF ClientIs, Posted, Types

LEMMA ReadAnswerKeeps ==
    ASSUME SessionInv, NEW c \in Conns, ReadAnswer(c)
    PROVE  SessionInv'
<1> USE Parts
<1>1. /\ cli[c].pc \in {"rejected", "answer"} /\ Len(down[c]) >= 2 /\ Takes(c, 2) /\ ClientReturns(c, "idle")
      /\ UNCHANGED <<srv, up, qp, skipped, mispaired, mem, hold, l1, cur, data, files>>
  BY DEF ReadAnswer, history, slab, store
<1>2. Len(down[c]) \in Nat /\ 2 <= Len(down[c]) /\ Len(down[c]) # 0
  BY SMTT(15), <1>1 DEF Types
<1>3. c \notin skipped => IdlePhase(c)'
  <2>1. ASSUME c \notin skipped PROVE srv[c].pc = "tag" /\ Len(up[c]) = 0 /\ Len(down[c]) = 2
    BY <1>1, <1>2, <2>1
       DEF PhaseAt, IdlePhase, AskedPhase, ServingPhase, PromisedPhase, AnsweredPhase, GonePhase
  <2>2. cli'[c].pc = "idle"
    BY <1>1, ClientReturnsIs DEF ClientIs, ClientPcs
  <2>3. Reads(c, 2)
    BY <1>1, <1>2, ReadsIs
  <2>4. c \notin skipped => Len(down'[c]) = 0
    BY SMTT(15), <2>1, <2>3 DEF Reads
  <2> QED
    BY <1>1, <2>1, <2>2, <2>4 DEF IdlePhase
<1> QED
  BY <1>1, <1>2, <1>3, ReturnsKeep DEF Types

(* In step, the tag is the expected one: only the end of the stream fails. *)
LEMMA TagExpected ==
    ASSUME NEW c \in Conns, PhaseAt(c), c \notin skipped, Reading(c), Len(down[c]) > 0
    PROVE  down[c][1].tag = Expected(c)
<1>0. Len(down[c]) # 0
  BY SMTT(15)
<1>1. CASE cli[c].pc = "ready"
  <2>1. Expected(c) = "put_ready"
    BY ZenonT(40), <1>1 DEF Expected
  <2> QED
    BY <1>1, <1>0, <2>1
       DEF PhaseAt, IdlePhase, AskedPhase, ServingPhase, PromisedPhase, AnsweredPhase, GonePhase, Offer
<1>2. CASE cli[c].pc \in {"rejected", "answer"}
  <2>1. Expected(c) = ReplyTag(cli[c].op)
    BY <1>2 DEF Expected, ReplyTag, Gets
  <2> QED
    BY SMTT(15), <1>2, <2>1 DEF PhaseAt, IdlePhase, AskedPhase, ServingPhase, PromisedPhase, AnsweredPhase, GonePhase
<1> QED
  BY <1>1, <1>2 DEF Reading

LEMMA ReadFailsKeeps ==
    ASSUME SessionInv, NEW c \in Conns, ReadFails(c)
    PROVE  SessionInv'
<1> USE Parts
<1>1. /\ Reading(c) /\ ClientReturns(c, "idle")
      /\ UNCHANGED <<srv, up, qp, skipped, mispaired, mem, hold, l1, cur, data, files>>
  BY DEF ReadFails, history, slab, store
<1>2. CASE down[c] # <<>> /\ Head(down[c]).tag # Expected(c) /\ Takes(c, 1)
  <2>1. Head(down[c]) = down[c][1] /\ Len(down[c]) \in Nat /\ Len(down[c]) > 0
    BY ZenonT(40), <1>2, TailSeq DEF Types
  <2>2. c \in skipped
    BY <1>1, <1>2, <2>1, TagExpected
  <2>3. 1 <= Len(down[c])
    BY SMTT(15), <2>1
  <2> QED
    BY ZenonT(40), <1>1, <1>2, <2>2, <2>3, ReturnsKeep DEF Types
<1>3. CASE down[c] = <<>> /\ srv[c].pc = "closed" /\ UNCHANGED down
  <2>1. GonePhase(c)'
    BY <1>1, <1>3 DEF GonePhase
  <2> QED
    BY <1>1, <1>3, <2>1, ReturnsKeep DEF Types
<1> QED
  BY <1>2, <1>3 DEF ReadFails

LEMMA CloseKeeps ==
    ASSUME SessionInv, NEW c \in Conns, Close(c)
    PROVE  SessionInv'
<1> USE Parts
<1> DEFINE m == [tag |-> "bye", id |-> 0, desc |-> 0]
<1>1. /\ up' = [up EXCEPT ![c] = Append(@, m)] /\ qp' = qp \ {c} /\ ClientReturns(c, "closed")
      /\ UNCHANGED <<srv, down, skipped, mispaired, mem, hold, l1, cur, data, files>>
  BY DEF Close, history, slab, store
<1>2. m \in UpMsg /\ m.tag = "bye"
  BY DEF UpMsg, UpTags
<1> HIDE DEF m
<1>3. Posted(c, m)
  BY <1>1, <1>2, PostedIs
<1>4. ClientIs(c, "closed", "none", cli[c].id, None, 0, None, None)
  BY <1>1, ClientReturnsIs DEF ClientPcs
<1>5. StreamAt(c)' /\ PhaseAt(c)'
  BY <1>1, <1>2, <1>3, <1>4, StreamPosted DEF ClientIs, PhaseAt
<1> QED
  BY ZenonT(40), <1>1, <1>3, <1>4, <1>5, ClientKeeps DEF ClientIs, Posted, Types

LEMMA CrashKeeps ==
    ASSUME SessionInv, NEW c \in Conns, Crash(c)
    PROVE  SessionInv'
<1>1. /\ ClientReturns(c, "closed") /\ qp' = qp \ {c}
      /\ UNCHANGED <<srv, up, down, skipped, mispaired, mem, hold, l1, cur, data, files>>
  BY DEF Crash, history, slab, store
<1> QED
  BY <1>1, ReturnsKeep DEF SessionInv, Types

LEMMA ConnectKeeps ==
    ASSUME SessionInv, NEW c \in Conns, Connect(c)
    PROVE  SessionInv'
<1> USE Parts
<1>1. /\ ClientReturns(c, "idle") /\ srv' = [srv EXCEPT ![c] = Waiting]
      /\ up' = [up EXCEPT ![c] = <<>>] /\ down' = [down EXCEPT ![c] = <<>>]
      /\ qp' = qp \cup {c} /\ skipped' = skipped \ {c}
      /\ UNCHANGED <<mispaired, mem, hold, l1, cur, data, files>>
  BY DEF Connect, slab, store
<1>2. ClientIs(c, "idle", "none", cli[c].id, None, 0, None, None)
  BY <1>1, ClientReturnsIs DEF ClientPcs
<1>3. ServerIs(c, "tag", "none", 0, 0, None, None)
  BY <1>1, FinishedIs
<1>4. /\ up' \in [Conns -> Seq(UpMsg)] /\ \A d \in Conns \ {c} : up'[d] = up[d]
      /\ down' \in [Conns -> Seq(DownMsg)] /\ \A d \in Conns \ {c} : down'[d] = down[d]
      /\ Len(up'[c]) = 0 /\ Len(down'[c]) = 0
  BY SMTT(15), <1>1 DEF Types
<1>5. OwnAt(c)' /\ ValAt(c)'
  BY <1>3, BareAt DEF ServerIs
<1>6. StreamAt(c)'
  <2>1. 1..Len(up'[c]) = {} /\ 1..Len(down'[c]) = {} /\ ~(Len(up'[c]) > 0)
    BY SMTT(15), <1>4
  <2>2. OfferAt(c)' /\ CommitAt(c)'
    BY <1>2, <1>3, <2>1 DEF ClientIs, ServerIs, OfferAt, CommitAt, CommitNext
  <2> QED
    BY ZenonT(40), <1>2, <2>1, <2>2 DEF ClientIs, StreamAt
<1>7. PhaseAt(c)'
  BY <1>2, <1>3, <1>4 DEF ClientIs, ServerIs, PhaseAt, IdlePhase
<1>8. Here(c)
  BY <1>1, <1>2, <1>3, <1>4 DEF ClientIs, ServerIs, Here, Types
<1> QED
  BY <1>1, <1>5, <1>6, <1>7, <1>8, SameHold, SameSlab, SameStore, StepKeeps DEF ConnAt

-----------------------------------------------------------------------------
(* The rest of the cluster. *)
LEMMA WorldKeeps ==
    ASSUME SessionInv, UNCHANGED <<conns, slab, skipped>>, StoreStep
    PROVE  SessionInv'
<1>1. Types /\ CacheInv /\ \A d \in Conns : ConnAt(d)
  BY DEF SessionInv
<1>2. UNCHANGED <<cli, srv, up, down, qp, mem, hold, l1, skipped>> /\ DataGrows
  BY DEF conns, slab, StoreStep
<1>3. Types'
  BY SMTT(15), <1>1, <1>2 DEF Types, StoreStep
<1>4. CacheInv'
  <2>1. Cached' = Cached /\ CacheHeld'
    BY <1>1, <1>2 DEF Cached, CacheInv, CacheHeld
  <2>2. l1.gen # 0 => Stored(Cached)' /\ Own(l1.gen, Cached)'
    BY <1>1, <1>2, <2>1, StoredKept DEF CacheInv
  <2> QED
    BY <1>2, <2>1, <2>2 DEF CacheInv, StoreStep
<1>5. Calm("cache") /\ "cache" \notin Conns
  BY <1>2, SessionAssumption DEF Calm
<1>6. ASSUME NEW d \in Conns PROVE ConnAt(d)'
  BY <1>1, <1>5, OthersKeep
<1> QED
  BY <1>3, <1>4, <1>6 DEF SessionInv

LEMMA OtherPutKeeps ==
    ASSUME SessionInv, OtherPut
    PROVE  SessionInv'
<1> DEFINE v == <<None, Len(data) + 1>>
<1>1. /\ data' = Append(data, v) /\ cur' = Len(data) + 1 /\ files' = files \cup {Len(data) + 1}
      /\ UNCHANGED <<conns, slab, skipped, mispaired>>
  BY DEF OtherPut, NewGeneration, history
<1>2. Types /\ CacheInv /\ data \in Seq(Val) /\ Len(data) \in Nat
  BY SMTT(15) DEF SessionInv, Types
<1>3. v \in Val
  BY SMTT(15), <1>2 DEF Val
<1> HIDE DEF v
<1>4. /\ data' \in Seq(Val) /\ Len(data') = Len(data) + 1 /\ \A g \in 1..Len(data) : data'[g] = data[g]
  BY SMTT(15), <1>1, <1>2, <1>3, AppendSeq
<1>5. mispaired' = mispaired /\ mispaired \in SUBSET Nat /\ files \in SUBSET (1..Len(data))
  BY <1>1, <1>2 DEF Types, CacheInv
<1>6. Len(data') \in Nat /\ Len(data) <= Len(data') /\ cur' \in 0..Len(data')
  BY SMTT(15), <1>1, <1>2, <1>4
<1>7. files' \in SUBSET (1..Len(data'))
  <2>1. 1..Len(data) \subseteq 1..Len(data') /\ Len(data) + 1 \in 1..Len(data')
    BY SMTT(15), <1>2, <1>4
  <2> QED
    BY <1>1, <1>5, <2>1
<1>8. StoreStep
  BY <1>2, <1>4, <1>5, <1>6, <1>7 DEF StoreStep, DataGrows
<1> QED
  BY <1>1, <1>8, WorldKeeps

LEMMA ClockKeeps ==
    ASSUME SessionInv, OtherDelete \/ TtlPasses \/ (\E g \in Gens : Collect(g)) \/ UNCHANGED vars
    PROVE  SessionInv'
<1>1. /\ UNCHANGED <<conns, slab, skipped, mispaired, data>> /\ cur' \in {cur, 0} /\ files' \subseteq files
  BY DEF OtherDelete, TtlPasses, Collect, vars, history, store
<1>2. StoreStep
  BY SMTT(15), <1>1 DEF SessionInv, Types, CacheInv, StoreStep, DataGrows
<1> QED
  BY <1>1, <1>2, WorldKeeps

-----------------------------------------------------------------------------
LEMMA SessionInit ==
    Init => SessionInv
<1> SUFFICES ASSUME Init PROVE SessionInv
  OBVIOUS
<1>1. /\ cli = [c \in Conns |-> Idle] /\ srv = [c \in Conns |-> Waiting]
      /\ up = [c \in Conns |-> <<>>] /\ down = [c \in Conns |-> <<>>]
      /\ qp = Conns /\ skipped = {} /\ mispaired = {}
      /\ mem = [e \in Extents |-> None] /\ hold = [e \in Extents |-> {}]
      /\ l1 = NoEntry /\ cur = 0 /\ data = <<>> /\ files = {}
  BY DEF Init
<1>2. /\ Idle \in Client /\ Idle.pc = "idle"
      /\ Waiting \in Server /\ Waiting.pc = "tag" /\ Waiting.ext = None
  BY DEF Idle, Waiting, Client, ClientPcs, Server, ServerPcs, AllOps, Val, Place
<1>3. l1 \in Entry /\ l1.gen = 0 /\ l1.ext = None
  BY <1>1 DEF NoEntry, Entry, Val, Place
<1>4. data \in Seq(Val) /\ Len(data) = 0
  BY SMTT(15), <1>1
<1>5. up \in [Conns -> Seq(UpMsg)] /\ down \in [Conns -> Seq(DownMsg)] /\ cli \in [Conns -> Client] /\ srv \in [Conns -> Server]
  BY SMTT(15), <1>1, <1>2
<1>6. Types
  BY ZenonT(40), <1>1, <1>3, <1>4, <1>5 DEF Types, Val
<1>7. CacheInv
  BY SMTT(40), <1>1, <1>3, <1>4, SessionAssumption DEF CacheInv, CacheHeld
<1>8. ASSUME NEW c \in Conns PROVE ConnAt(c)
  <2>1. cli[c].pc = "idle" /\ srv[c].pc = "tag" /\ srv[c].ext = None /\ Len(up[c]) = 0 /\ Len(down[c]) = 0
    BY <1>1, <1>2
  <2>2. OwnAt(c) /\ ValAt(c)
    BY ZenonT(40), <2>1 DEF OwnAt, ValAt, OwnPcs, BarePcs
  <2>3. StreamAt(c)
    <3>1. ~(Len(up[c]) > 0) /\ ~CommitNext(c) /\ (\A i \in 1..Len(up[c]) : FALSE) /\ \A i \in 1..Len(down[c]) : FALSE
      BY SMTT(40), <2>1 DEF CommitNext
    <3> QED
      BY ZenonT(40), <2>1, <3>1 DEF StreamAt, OfferAt, CommitAt
  <2>4. PhaseAt(c)
    BY <2>1 DEF PhaseAt, IdlePhase
  <2> QED
    BY <2>2, <2>3, <2>4 DEF ConnAt
<1> QED
  BY <1>6, <1>7, <1>8 DEF SessionInv

LEMMA SessionStep ==
    ASSUME SessionInv, [Next]_vars
    PROVE  SessionInv'
<1>1. ASSUME NEW c \in Conns, Lookup(c) \/ (\E op \in Ops : Request(c, op)) \/ Close(c) \/ Crash(c) \/ Connect(c)
      PROVE  SessionInv'
  BY <1>1, LookupKeeps, RequestKeeps, CloseKeeps, CrashKeeps, ConnectKeeps
<1>2. ASSUME NEW c \in Conns, ClientStep(c) PROVE SessionInv'
  BY ZenonT(40), <1>2, ReadReadyKeeps, WriteKeeps, WriteFailsKeeps, SendCommitKeeps, ReadAnswerKeeps, ReadFailsKeeps
     DEF ClientStep
<1>3. ASSUME NEW c \in Conns, ServerStep(c) PROVE SessionInv'
  <2>1. CASE ReadTag(c) \/ Hangup(c) \/ MetaFails(c) \/ SendFails(c) \/ Commit(c)
    BY <2>1, ReadTagKeeps, FailsKeep, CommitKeeps
  <2>2. CASE LookupL1(c) \/ Meta(c) \/ Evict(c) \/ Read(c) \/ ReadIoFails(c) \/ Fallback(c)
             \/ FallbackIoFails(c) \/ Send(c)
    BY ZenonT(40), <2>2, LookupL1Keeps, MetaKeeps, EvictKeeps, ReadKeeps, IoFailsKeep, FallbackKeeps, SendKeeps
  <2>3. CASE Room(c) \/ NoRoom(c)
    BY <2>3, RoomGetKeeps, RoomPutKeeps, NoRoomGetKeeps, NoRoomPutKeeps
  <2>4. CASE Store(c) \/ StoreFails(c) \/ Inject(c) \/ Insert(c)
    BY ZenonT(40), <2>4, StoreKeeps, StoreFailsKeeps, InjectKeeps, InsertKeeps
  <2> QED
    BY <1>3, <2>1, <2>2, <2>3, <2>4 DEF ServerStep
<1>4. CASE OtherPut \/ OtherDelete \/ TtlPasses \/ (\E g \in Gens : Collect(g)) \/ UNCHANGED vars
  BY <1>4, OtherPutKeeps, ClockKeeps
<1> QED
  BY <1>1, <1>2, <1>3, <1>4 DEF Next

LEMMA SessionAlways ==
    Spec => []SessionInv
BY SessionInit, SessionStep, PTL DEF Spec

-----------------------------------------------------------------------------
(* Whatever the interleaving of requests, failed transfers, dropped          *)
(* connections and server threads, what is on a client's stream answers the  *)
(* request it is waiting for (put_key_from, handle_client).                  *)
THEOREM AnswersInStep ==
    Spec => []InStep
<1>1. ASSUME SessionInv PROVE InStep
  <2>1. SUFFICES ASSUME NEW c \in Conns \ skipped, cli[c].pc # "closed", NEW i \in 1..Len(down[c])
                 PROVE  Reading(c) /\ down[c][i].id = cli[c].id
    BY DEF InStep
  <2>2. PhaseAt(c) /\ Len(down[c]) \in Nat
    BY SMTT(40), <1>1, <2>1 DEF SessionInv, ConnAt, Types
  <2> QED
    <3>1. Len(down[c]) # 0
      BY SMTT(40), <2>1, <2>2
    <3>2. (PromisedPhase(c) /\ cli[c].pc = "ready") \/ AnsweredPhase(c)
      BY ZenonT(40), <2>1, <2>2, <3>1 DEF PhaseAt, IdlePhase, AskedPhase, ServingPhase, PromisedPhase, GonePhase
    <3>3. CASE PromisedPhase(c) /\ cli[c].pc = "ready"
      <4>1. Len(down[c]) = 2 /\ down[c][1].id = cli[c].id /\ down[c][2].id = cli[c].id
        BY <3>1, <3>3 DEF PromisedPhase
      <4>2. i \in {1, 2}
        BY SMTT(40), <2>1, <4>1
      <4> QED
        BY <3>3, <4>1, <4>2 DEF Reading
    <3>4. CASE AnsweredPhase(c)
      BY <2>1, <3>4 DEF AnsweredPhase, Reading
    <3> QED
      BY <3>2, <3>3, <3>4
<1> QED
  BY <1>1, SessionAlways, PTL

(* A PUT stores the bytes its own client's RDMA WRITE put into the extent,   *)
(* for every number of connections and extents (handle_put, write_remote).   *)
THEOREM PutsStoreOwnBytes ==
    Spec => []StoresOwnBytes
<1>1. ASSUME SessionInv PROVE StoresOwnBytes
  BY ZenonT(40), <1>1 DEF SessionInv, ConnAt, StreamAt, CommitAt, StoresOwnBytes
<1> QED
  BY <1>1, SessionAlways, PTL

(* What a client in step gets with a GET's success. *)
LEMMA ServedIs ==
    ASSUME SessionInv, NEW c \in Conns \ skipped, Served(c)
    PROVE  Stored(cli[c].buf) /\ (cli[c].op \in Described => Own(cli[c].desc, cli[c].buf))
<1>1. cli[c].pc = "answer" /\ cli[c].op \in Gets /\ down[c] # <<>> /\ Head(down[c]).ok
  BY DEF Served
<1>2. PhaseAt(c) /\ Len(down[c]) \in Nat /\ Len(down[c]) > 0 /\ Head(down[c]) = down[c][1]
  BY ZenonT(40), <1>1, TailSeq DEF SessionInv, ConnAt, Types
<1>3. AnsweredPhase(c)
  <2>1. Len(down[c]) # 0 /\ cli[c].pc # "closed" /\ cli[c].op \notin Puts
    BY SMTT(40), <1>1, <1>2 DEF Gets, Puts
  <2> QED
    BY ZenonT(40), <1>2, <2>1 DEF PhaseAt, IdlePhase, AskedPhase, ServingPhase, PromisedPhase, GonePhase
<1> QED
  BY <1>1, <1>2, <1>3 DEF AnsweredPhase

(* A GET's success comes with bytes that some PUT stored, whether they came  *)
(* from a pinned extent, a fresh read or the heap (serve_get, post_write).   *)
THEOREM GetsReturnStored ==
    Spec => []GetCommitted
<1>1. ASSUME SessionInv PROVE GetCommitted
  BY <1>1, ServedIs DEF GetCommitted, Stored
<1> QED
  BY <1>1, SessionAlways, PTL

(* A descriptor GET's success comes with its own generation's bytes, but for *)
(* a mispaired one (handle_get_descriptor, meta_matches_descriptor).         *)
THEOREM DescriptorsReturnOwn ==
    Spec => []DescriptorBytes
<1>1. ASSUME SessionInv PROVE DescriptorBytes
  BY <1>1, ServedIs DEF DescriptorBytes, Described, Own
<1> QED
  BY <1>1, SessionAlways, PTL

-----------------------------------------------------------------------------
(* Who writes slab memory. *)
OneHolder == \A e \in Extents : mem'[e] # mem[e] =>
    hold[e] \subseteq Conns /\ \E h \in Conns \cup {"cache"} : hold[e] \cup hold'[e] = {h}

(* The NIC, for a client whose PUT is under way. *)
LEMMA ClientWrites ==
    ASSUME SessionInv, NEW c \in Conns, Write(c) \/ WriteFails(c)
    PROVE  OneHolder
<1> USE Parts
<1>1. /\ cli[c].pc = "write" /\ hold' = hold
      /\ mem' = mem \/ (c \in qp /\ mem' = [mem EXCEPT ![cli[c].ext] = cli[c].val])
  BY DEF Write, WriteFails
<1>2. CASE c \in qp /\ mem' = [mem EXCEPT ![cli[c].ext] = cli[c].val]
  <2>1. srv[c].pc = "commit" /\ cli[c].ext = srv[c].ext
    BY <1>1, <1>2 DEF OwnAt, StreamAt, OfferAt
  <2>2. cli[c].ext \in Extents /\ hold[cli[c].ext] = {c}
    BY <2>1 DEF OwnAt, OwnPcs
  <2>3. \A e \in Extents : mem'[e] # mem[e] => e = cli[c].ext
    BY <1>2 DEF Types
  <2> QED
    BY <1>1, <2>2, <2>3 DEF OneHolder
<1> QED
  BY <1>1, <1>2 DEF OneHolder

(* A read from disk, into the handler's own extent or a free one. *)
LEMMA ServerWrites ==
    ASSUME SessionInv, NEW c \in Conns, Read(c) \/ Fallback(c)
    PROVE  OneHolder
<1> USE Parts
<1>1. CASE Read(c) /\ mem' # mem
  <2>1. /\ srv[c].pc = "read" /\ mem' = [mem EXCEPT ![srv[c].ext] = data[srv[c].gen]] /\ hold' = hold
    BY <1>1 DEF Read
  <2>2. srv[c].ext \in Extents /\ hold[srv[c].ext] = {c}
    BY <2>1 DEF OwnAt, OwnPcs
  <2>3. \A e \in Extents : mem'[e] # mem[e] => e = srv[c].ext
    BY <2>1 DEF Types
  <2> QED
    BY <2>1, <2>2, <2>3 DEF OneHolder
<1>2. CASE Fallback(c) /\ mem' # mem
  <2>1. cur \in files /\ l1.gen = 0 /\ FillL1(cur)
    BY <1>2 DEF Fallback
  <2>2. cur \in 1..Len(data)
    BY <2>1 DEF CacheInv
  <2>3. \A e \in Extents : mem'[e] # mem[e] => hold[e] = {} /\ hold'[e] = {"cache"}
    BY <2>1, <2>2, FillHold
  <2> QED
    BY <2>3 DEF OneHolder
<1> QED
  BY <1>1, <1>2 DEF OneHolder

LEMMA WritesOwned ==
    ASSUME SessionInv, [Next]_vars
    PROVE  OneHolder
<1>1. ASSUME mem' = mem PROVE OneHolder
  BY <1>1 DEF OneHolder
<1>2. ASSUME NEW c \in Conns, Lookup(c) \/ (\E op \in Ops : Request(c, op)) \/ Close(c) \/ Crash(c) \/ Connect(c)
      PROVE  mem' = mem
  BY <1>2 DEF Lookup, Request, Close, Crash, Connect, slab
<1>3. ASSUME NEW c \in Conns, ClientStep(c) PROVE OneHolder
  <2>1. ASSUME ReadReady(c) \/ SendCommit(c) \/ ReadAnswer(c) \/ ReadFails(c) PROVE mem' = mem
    BY <2>1 DEF ReadReady, SendCommit, ReadAnswer, ReadFails, slab
  <2> QED
    BY <1>1, <1>3, <2>1, ClientWrites DEF ClientStep
<1>4. ASSUME NEW c \in Conns, ServerStep(c) PROVE OneHolder
  <2>1. ASSUME ReadTag(c) \/ Hangup(c) \/ MetaFails(c) \/ SendFails(c) \/ Commit(c) PROVE mem' = mem
    BY <2>1 DEF ReadTag, Hangup, MetaFails, SendFails, Commit, Ends
  <2>2. ASSUME LookupL1(c) \/ Meta(c) \/ Room(c) \/ Evict(c) \/ NoRoom(c) \/ ReadIoFails(c)
               \/ FallbackIoFails(c) \/ Send(c)
        PROVE  mem' = mem
    BY <2>2 DEF LookupL1, Meta, Room, Evict, NoRoom, ReadIoFails, FallbackIoFails, Send
  <2>3. ASSUME Store(c) \/ StoreFails(c) \/ Inject(c) \/ Insert(c) PROVE mem' = mem
    BY <2>3 DEF Store, StoreFails, Inject, Insert
  <2> QED
    BY ZenonT(40), <1>1, <1>4, <2>1, <2>2, <2>3, ServerWrites DEF ServerStep
<1>5. ASSUME OtherPut \/ OtherDelete \/ TtlPasses \/ (\E g \in Gens : Collect(g)) \/ UNCHANGED vars
      PROVE  mem' = mem
  BY <1>5 DEF OtherPut, OtherDelete, TtlPasses, Collect, slab, vars
<1> QED
  BY <1>1, <1>2, <1>3, <1>4, <1>5 DEF Next

(* Slab memory changes only under a single holder, whoever the writer is: no *)
(* eviction, failed transfer or dropped connection lets a NIC write into an  *)
(* extent that has found another user (SlabExtent, SlabPlacement._pin).      *)
THEOREM WritersOwnExtents ==
    Spec => OnlyOwnedWritten
<1> DEFINE Owned == \A e \in Extents : mem'[e] # mem[e] =>
                       /\ hold[e] \subseteq Conns
                       /\ \E h \in Conns \cup {"cache"} : hold[e] \cup hold'[e] = {h}
<1>1. SessionInv /\ [Next]_vars => [Owned]_vars
  BY WritesOwned DEF OneHolder
<1> HIDE DEF Owned
<1>2. Spec => [][Owned]_vars
  BY <1>1, SessionAlways, PTL DEF Spec
<1> QED
  BY <1>2 DEF OnlyOwnedWritten, Owned
=============================================================================
