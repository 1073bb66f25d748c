---------------------------- MODULE RdmaSession ----------------------------
(* RDMA connections to one node, for one key: the client of client-rs, the   *)
(* server thread of each connection, the TCP control streams between them,   *)
(* the slab extents and the L1 entry they share, and the NIC's writes.       *)
(* One storage operation is one step here (ObjectStore has its inside).      *)
EXTENDS Integers, Sequences, FiniteSets, Functions

CONSTANTS
    Conns,      \* connections, each with its client and its server thread
    Extents,    \* what the slab has room for
    Ops,        \* the operations the clients use
    MaxOps,     \* bound: requests made
    MaxGens,    \* bound: generations of the key
    MaxEvents,  \* bound: failures, closed connections, acts of other nodes and the clock
    None

Gets == {"get", "get_descriptor", "get_stripes"}
Puts == {"put", "put_if_absent", "put_stripes"}

ASSUME SessionAssumption ==
    /\ Ops \subseteq Gets \cup Puts
    /\ MaxOps \in Nat /\ MaxGens \in Nat /\ MaxEvents \in Nat
    /\ None \notin Extents \cup Conns
    /\ "cache" \notin Conns

VARIABLES
    cli,        \* clients: [pc, op, id, val, desc, ext, buf]
    srv,        \* server threads: [pc, op, id, gen, ext, val]
    up, down,   \* the control streams, to the server and to the client
    qp,         \* queue pairs still usable
    mem,        \* what each extent holds
    hold,       \* who has a reference to it: "cache" and connections
    l1,         \* the entry of chunks_cache: [gen, ext, val]
    cur,        \* generation of the current metadata, 0 for none
    data,       \* generation -> the value its files were written with
    files,      \* generations whose files are still there
    expired, spread,    \* generations past their TTL; on several nodes
    events,
    skipped,    \* history: clients that left the answer to a stripe PUT unread
    mispaired   \* history: generations a PUT cached another one's bytes under

conns == <<cli, srv, up, down, qp>>
history == <<skipped, mispaired>>
slab == <<mem, hold, l1>>
store == <<cur, data, files, expired, spread>>
vars == <<conns, slab, store, events, history>>

Idle == [pc |-> "idle", op |-> "none", id |-> 0, val |-> None, desc |-> 0,
         ext |-> None, buf |-> None]
Waiting == [pc |-> "tag", op |-> "none", id |-> 0, gen |-> 0, ext |-> None, val |-> None]
NoEntry == [gen |-> 0, ext |-> None, val |-> None]
Gens == 1..MaxGens
Values == {None} \cup ((Conns \cup {None}) \X (1..(MaxOps + MaxGens)))

Init ==
    /\ cli = [c \in Conns |-> Idle] /\ srv = [c \in Conns |-> Waiting]
    /\ up = [c \in Conns |-> <<>>] /\ down = [c \in Conns |-> <<>>]
    /\ qp = Conns /\ skipped = {} /\ mispaired = {}
    /\ mem = [e \in Extents |-> None] /\ hold = [e \in Extents |-> {}]
    /\ l1 = NoEntry
    /\ cur = 0 /\ data = <<>> /\ files = {} /\ expired = {} /\ spread = {}
    /\ events = 0

-----------------------------------------------------------------------------
(* The control streams.  An answer is a tag and a body: a reader that finds  *)
(* the tag it expects takes both, any other reader takes the one byte and    *)
(* gives up.                                                                 *)
Answer(c, tag, ok, e) == [tag |-> tag, id |-> srv[c].id, ok |-> ok, ext |-> e]
Body(c) == [tag |-> "body", id |-> srv[c].id, ok |-> FALSE, ext |-> None]
Sends(c, tag, ok, e) == <<Answer(c, tag, ok, e), Body(c)>>

Event == events < MaxEvents /\ events' = events + 1

-----------------------------------------------------------------------------
(* Bound: every PUT under way still finds a generation number. *)
PutsUnderWay == {c \in Conns : srv[c].op \in Puts \/ (cli[c].op \in Puts /\ cli[c].pc # "idle")}
GenerationsLeft == Len(data) + Cardinality(PutsUnderWay) < MaxGens

RequestsMade == FoldFunction(+, 0, [c \in Conns |-> cli[c].id])

(* Client.  Between requests it may look the object up, which gives it a     *)
(* descriptor of the current generation.                                     *)
Lookup(c) ==
    /\ cli[c].pc = "idle" /\ RequestsMade < MaxOps
    /\ cur # 0 /\ cur \notin expired
    /\ cli' = [cli EXCEPT ![c].desc = cur]
    /\ UNCHANGED <<srv, up, down, qp, history, slab, store, events>>

Request(c, op) ==
    /\ cli[c].pc = "idle" /\ RequestsMade < MaxOps
    /\ op \in Puts => GenerationsLeft
    /\ op \in {"get_descriptor", "get_stripes"} => cli[c].desc # 0
    /\ LET n == cli[c].id + 1 IN
       /\ cli' = [cli EXCEPT ![c] = [@ EXCEPT
                    !.pc = IF op \in Puts THEN "ready" ELSE "answer", !.op = op, !.id = n,
                    !.val = IF op \in Puts THEN <<c, n>> ELSE None, !.buf = None]]
       /\ up' = [up EXCEPT ![c] = Append(@, [tag |-> op, id |-> n, desc |-> cli[c].desc])]
    /\ UNCHANGED <<srv, down, qp, history, slab, store, events>>

Takes(c, n) == down' = [down EXCEPT ![c] = SubSeq(@, n + 1, Len(@))]
ClientTo(c, l) == cli' = [cli EXCEPT ![c] = [@ EXCEPT !.pc = l]]
ClientReturns(c, l) ==
    cli' = [cli EXCEPT ![c] = [Idle EXCEPT !.pc = l, !.id = cli[c].id]]

(* Mutant: every PUT returns on a rejection, the result unread. *)
ReadReadyOnly(c) ==
    /\ cli[c].pc = "ready" /\ Len(down[c]) >= 2 /\ Head(down[c]).tag = "put_ready"
    /\ Takes(c, 2)
    /\ LET r == Head(down[c]) IN
       \/ r.ok /\ cli' = [cli EXCEPT ![c] = [@ EXCEPT !.pc = "write", !.ext = r.ext]]
       \/ ~r.ok /\ ClientReturns(c, "idle")
    /\ UNCHANGED <<srv, up, qp, history, slab, store, events>>

(* read_put_ready, and what put_key_from and put_stripes_from do with it:    *)
(* rejected, the first reads the result that follows, the second returns.    *)
ReadReady(c) ==
    /\ cli[c].pc = "ready" /\ Len(down[c]) >= 2 /\ Head(down[c]).tag = "put_ready"
    /\ Takes(c, 2)
    /\ LET r == Head(down[c]) IN
       \/ /\ r.ok
          /\ cli' = [cli EXCEPT ![c] = [@ EXCEPT !.pc = "write", !.ext = r.ext]]
          /\ UNCHANGED skipped
       \/ /\ ~r.ok /\ cli[c].op # "put_stripes"
          /\ ClientTo(c, "rejected")
          /\ UNCHANGED skipped
       \/ /\ ~r.ok /\ cli[c].op = "put_stripes"
          /\ ClientReturns(c, "idle")
          /\ skipped' = skipped \cup {c}
    /\ UNCHANGED <<srv, up, qp, mispaired, slab, store, events>>

(* write_remote: the RDMA WRITE of the value lands in the extent and its     *)
(* completion is polled, before COMMIT goes out.                             *)
Write(c) ==
    /\ cli[c].pc = "write" /\ c \in qp
    /\ mem' = [mem EXCEPT ![cli[c].ext] = cli[c].val]
    /\ ClientTo(c, "commit")
    /\ UNCHANGED <<srv, up, down, qp, history, hold, l1, store, events>>

(* Mutant: COMMIT goes out although the transfer failed. *)
WriteFailureIgnored(c) ==
    /\ cli[c].pc = "write"
    /\ IF c \in qp THEN Event ELSE UNCHANGED events
    /\ qp' = qp \ {c}
    /\ ClientTo(c, "commit")
    /\ UNCHANGED <<srv, up, down, history, slab, store>>

(* ... or fails, landed or not, and puts the queue pair in error; no COMMIT  *)
(* is sent.                                                                  *)
WriteFails(c) ==
    /\ cli[c].pc = "write"
    /\ \/ c \in qp /\ Event /\ mem' \in {mem, [mem EXCEPT ![cli[c].ext] = cli[c].val]}
       \/ c \notin qp /\ UNCHANGED <<events, mem>>
    /\ qp' = qp \ {c}
    /\ ClientReturns(c, "idle")
    /\ UNCHANGED <<srv, up, down, history, hold, l1, store>>

SendCommit(c) ==
    /\ cli[c].pc = "commit"
    /\ up' = [up EXCEPT ![c] = Append(@, [tag |-> "commit", id |-> cli[c].id, desc |-> 0])]
    /\ ClientTo(c, "answer")
    /\ UNCHANGED <<srv, down, qp, history, slab, store, events>>

(* read_get_response, read_put_result, read_put_stripes_resp. *)
Expected(c) ==
    IF cli[c].pc = "ready" THEN "put_ready"
    ELSE CASE cli[c].op \in Gets -> "get_resp"
           [] cli[c].op = "put_stripes" -> "put_stripes_resp"
           [] OTHER -> "put_resp"

Reading(c) == cli[c].pc \in {"ready", "rejected", "answer"}

ReadAnswer(c) ==
    /\ cli[c].pc \in {"rejected", "answer"}
    /\ Len(down[c]) >= 2 /\ Head(down[c]).tag = Expected(c)
    /\ Takes(c, 2)
    /\ ClientReturns(c, "idle")
    /\ UNCHANGED <<srv, up, qp, history, slab, store, events>>

(* Another tag than the expected one, or the end of the stream: an error,    *)
(* and the caller still has the connection.                                  *)
ReadFails(c) ==
    /\ Reading(c)
    /\ \/ down[c] # <<>> /\ Head(down[c]).tag # Expected(c) /\ Takes(c, 1)
       \/ down[c] = <<>> /\ srv[c].pc = "closed" /\ UNCHANGED down
    /\ ClientReturns(c, "idle")
    /\ UNCHANGED <<srv, up, qp, history, slab, store, events>>

(* Drop for RdmaClient says BYE; a client that dies does not.  Either way    *)
(* its queue pair is gone and nothing it posted lands any more.              *)
Close(c) ==
    /\ cli[c].pc = "idle"
    /\ Event
    /\ up' = [up EXCEPT ![c] = Append(@, [tag |-> "bye", id |-> 0, desc |-> 0])]
    /\ qp' = qp \ {c}
    /\ ClientReturns(c, "closed")
    /\ UNCHANGED <<srv, down, history, slab, store>>

Crash(c) ==
    /\ cli[c].pc \notin {"idle", "closed"} /\ Event
    /\ qp' = qp \ {c}
    /\ ClientReturns(c, "closed")
    /\ UNCHANGED <<srv, up, down, history, slab, store>>

(* connect: a new control stream, queue pair and server thread. *)
Connect(c) ==
    /\ cli[c].pc = "closed" /\ srv[c].pc = "closed"
    /\ ClientReturns(c, "idle")
    /\ srv' = [srv EXCEPT ![c] = Waiting]
    /\ up' = [up EXCEPT ![c] = <<>>] /\ down' = [down EXCEPT ![c] = <<>>]
    /\ qp' = qp \cup {c} /\ skipped' = skipped \ {c}
    /\ UNCHANGED <<mispaired, slab, store, events>>

-----------------------------------------------------------------------------
(* Server thread: small steps between calls that another thread can come     *)
(* between.                                                                  *)
Without(c) == [e \in Extents |-> hold[e] \ {c}]
ServerTo(c, l) == srv' = [srv EXCEPT ![c] = [@ EXCEPT !.pc = l]]

(* handle_client returns: extents, then the queue pair, are dropped. *)
Ends(c) ==
    /\ srv' = [srv EXCEPT ![c] = [Waiting EXCEPT !.pc = "closed"]]
    /\ hold' = Without(c)
    /\ qp' = qp \ {c}
    /\ UNCHANGED <<down, mem>>

(* The handler answers, lets go of its extent and waits for the next tag. *)
Finishes(c, msgs) ==
    /\ down' = [down EXCEPT ![c] = @ \o msgs]
    /\ srv' = [srv EXCEPT ![c] = Waiting]
    /\ hold' = Without(c)

PutAnswer(c) == IF srv[c].op = "put_stripes" THEN "put_stripes_resp" ELSE "put_resp"

NotFound(c) == Finishes(c, Sends(c, "get_resp", FALSE, None))

(* The loop of handle_client: the next tag and its body. *)
ReadTag(c) ==
    /\ srv[c].pc = "tag" /\ up[c] # <<>>
    /\ LET m == Head(up[c]) IN
       \/ /\ m.tag \in Gets \cup Puts
          /\ srv' = [srv EXCEPT ![c] = [Waiting EXCEPT !.op = m.tag, !.id = m.id, !.gen = m.desc,
                        !.pc = CASE m.tag = "get" -> "lookup" [] m.tag \in Puts -> "room"
                                 [] OTHER -> "meta"]]
          /\ UNCHANGED <<down, qp, mem, hold>>
       \/ m.tag \in {"bye", "commit"} /\ Ends(c)
    /\ up' = [up EXCEPT ![c] = Tail(@)]
    /\ UNCHANGED <<cli, history, l1, store, events>>

(* The client has closed and everything it sent has been read. *)
Hangup(c) ==
    /\ srv[c].pc \in {"tag", "commit"} /\ up[c] = <<>> /\ cli[c].pc = "closed"
    /\ Ends(c)
    /\ UNCHANGED <<cli, up, history, l1, store, events>>

(* metadata.get_block fails: the error ends the connection. *)
MetaFails(c) ==
    /\ srv[c].pc = "meta" /\ Event
    /\ Ends(c)
    /\ UNCHANGED <<cli, up, history, l1, store>>

-----------------------------------------------------------------------------
(* The server's GET paths. *)

(* Mutant: eviction frees the extent under the GETs that pin it. *)
DropL1AndPins ==
    /\ l1' = NoEntry
    /\ hold' = [e \in Extents |-> IF e = l1.ext THEN {} ELSE hold[e]]

DropL1 ==
    /\ l1' = NoEntry
    /\ hold' = [e \in Extents |-> hold[e] \ {"cache"}]

(* insert_chunks_from_slab: the extent of c becomes the entry, whatever was  *)
(* there; the handler's own reference goes with it.                          *)
CacheExtent(c, g) ==
    /\ l1' = [gen |-> g, ext |-> srv[c].ext, val |-> None]
    /\ hold' = [e \in Extents |-> IF e = srv[c].ext THEN {"cache"}
                                  ELSE hold[e] \ {"cache", c}]

(* chunks_cache_insert: in a free extent, or on the heap. *)
FillL1(g) ==
    LET kept == [e \in Extents |-> hold[e] \ {"cache"}]
        free == {e \in Extents : kept[e] = {}}
    IN
    \/ \E e \in free :
          /\ mem' = [mem EXCEPT ![e] = data[g]]
          /\ hold' = [kept EXCEPT ![e] = {"cache"}]
          /\ l1' = [gen |-> g, ext |-> e, val |-> None]
    \/ /\ free = {}
       /\ hold' = kept /\ UNCHANGED mem
       /\ l1' = [gen |-> g, ext |-> None, val |-> data[g]]

(* retire_block_if_matches and delete_block_if_matches, from a read. *)
Forget(g) == cur' = IF cur = g THEN 0 ELSE cur

(* Mutant: a descriptor GET takes whatever L1 has. *)
MatchesAlways(c) == TRUE

(* meta_matches_descriptor, of the entry found. *)
Matches(c) == srv[c].op = "get" \/ l1.gen = srv[c].gen

(* get_chunks_slab: what it finds is pinned.  A descriptor must match; when  *)
(* it does not, the pin stays until the handler is done.                     *)
LookupL1(c) ==
    /\ srv[c].pc = "lookup"
    /\ LET found == l1.gen # 0 /\ l1.gen \notin expired /\ l1.ext # None
           hit == found /\ Matches(c)
       IN
       \/ /\ hit
          /\ srv' = [srv EXCEPT ![c] = [@ EXCEPT !.pc = "send_pin", !.ext = l1.ext]]
          /\ hold' = [hold EXCEPT ![l1.ext] = @ \cup {c}]
          /\ UNCHANGED <<l1, cur>>
       \/ /\ ~hit
          /\ ServerTo(c, IF srv[c].op = "get" THEN "meta" ELSE "room")
          /\ \/ l1.gen \in expired /\ DropL1 /\ Forget(l1.gen)
             \/ /\ l1.gen \notin expired
                /\ hold' = IF found THEN [hold EXCEPT ![l1.ext] = @ \cup {c}] ELSE hold
                /\ UNCHANGED <<l1, cur>>
    /\ UNCHANGED <<cli, up, down, qp, history, mem, data, files, expired, spread, events>>

(* metadata.get_block and what each GET makes of it.  A stripe request may   *)
(* also fail the checks of its indices, owner and window.                    *)
Meta(c) ==
    /\ srv[c].pc = "meta"
    /\ LET op == srv[c].op
           single == op # "get_stripes" /\ cur \in spread
           stale == cur = 0 \/ (op # "get" /\ cur # srv[c].gen)
       IN
       \/ /\ stale \/ cur \in expired \/ single \/ op = "get_stripes"
          /\ NotFound(c)
          /\ cur' = IF cur \in expired /\ ~(op = "get" /\ single) THEN 0 ELSE cur
       \/ /\ ~stale /\ cur \notin expired /\ ~single
          /\ srv' = [srv EXCEPT ![c] = [@ EXCEPT
                        !.pc = IF op = "get_descriptor" THEN "lookup" ELSE "room", !.gen = cur]]
          /\ UNCHANGED <<down, hold, cur>>
    /\ UNCHANGED <<cli, up, qp, history, mem, l1, data, files, expired, spread, events>>

(* Mutant: an extent only the cache refers to is handed out again. *)
FreeOrCached(e) == hold[e] \subseteq {"cache"}

(* The last reference gone, the extent is back on the free list. *)
Free(e) == hold[e] = {}
Full == \A e \in Extents : ~Free(e)

(* Mutant: the client is not told where to write. *)
RoomUnannounced(c) ==
    /\ srv[c].pc = "room"
    /\ \E e \in Extents :
          /\ Free(e)
          /\ hold' = [hold EXCEPT ![e] = @ \cup {c}]
          /\ srv' = [srv EXCEPT ![c] = [@ EXCEPT !.ext = e,
                        !.pc = IF srv[c].op \in Puts THEN "commit" ELSE "read"]]
    /\ UNCHANGED <<cli, up, down, qp, history, mem, l1, store, events>>

(* slab.alloc, for a PUT with its PUT_READY. *)
Room(c) ==
    /\ srv[c].pc = "room"
    /\ \E e \in Extents :
          /\ Free(e)
          /\ hold' = [hold EXCEPT ![e] = @ \cup {c}]
          /\ srv' = [srv EXCEPT ![c] = [@ EXCEPT !.ext = e,
                        !.pc = IF srv[c].op \in Puts THEN "commit" ELSE "read"]]
          /\ down' = IF srv[c].op \in Puts
                     THEN [down EXCEPT ![c] = @ \o Sends(c, "put_ready", TRUE, e)] ELSE down
    /\ UNCHANGED <<cli, up, qp, history, mem, l1, store, events>>

(* evict_chunks_cache_to_free between two tries; stripe PUTs do not evict. *)
Evict(c) ==
    /\ srv[c].pc = "room" /\ srv[c].op # "put_stripes"
    /\ Full /\ l1.gen # 0
    /\ DropL1
    /\ UNCHANGED <<conns, history, mem, store, events>>

(* No room: a GET goes the per-chunk way, a PUT is rejected with its result  *)
(* right behind the rejection.                                               *)
NoRoom(c) ==
    /\ srv[c].pc = "room"
    /\ Full /\ (l1.gen = 0 \/ srv[c].op = "put_stripes")
    /\ \/ /\ srv[c].op \in Gets
          /\ ServerTo(c, "fallback")
          /\ UNCHANGED <<down, hold>>
       \/ /\ srv[c].op \in Puts
          /\ Finishes(c, Sends(c, "put_ready", FALSE, None) \o
                         Sends(c, PutAnswer(c), FALSE, None))
    /\ UNCHANGED <<cli, up, qp, history, mem, l1, store, events>>

(* The stream read of the generation into the extent.  Files that are gone   *)
(* make the read heal the metadata (a stripe read does not).                 *)
Read(c) ==
    /\ srv[c].pc = "read"
    /\ LET g == srv[c].gen
           stripes == srv[c].op = "get_stripes"
           served == g \in files /\ (stripes \/ g \notin expired)
       IN
       \/ /\ served
          /\ mem' = [mem EXCEPT ![srv[c].ext] = data[g]]
          /\ ServerTo(c, "send_new")
          /\ UNCHANGED <<down, hold, cur>>
       \/ /\ ~served
          /\ NotFound(c)
          /\ IF stripes THEN UNCHANGED cur ELSE Forget(g)
          /\ UNCHANGED mem
    /\ UNCHANGED <<cli, up, qp, history, l1, data, files, expired, spread, events>>

(* A GET whose extent did not work out lets go of it and reads the object    *)
(* again the per-chunk way; a stripe GET reports not found.                  *)
GivesUpExtent(c) ==
    \/ srv[c].op = "get_stripes" /\ NotFound(c)
    \/ /\ srv[c].op # "get_stripes"
       /\ srv' = [srv EXCEPT ![c] = [@ EXCEPT !.pc = "fallback", !.ext = None]]
       /\ hold' = [hold EXCEPT ![srv[c].ext] = @ \ {c}]
       /\ UNCHANGED down

ReadIoFails(c) ==
    /\ srv[c].pc = "read" /\ Event
    /\ GivesUpExtent(c)
    /\ UNCHANGED <<cli, up, qp, history, mem, l1, store>>

(* serve_get_fallback's source: memory.get_chunks, or a read of exactly the  *)
(* descriptor's generation.  The plain GET takes whatever is current by now, *)
(* and fills L1 with it, in the slab when there is room again.               *)
Fallback(c) ==
    /\ srv[c].pc = "fallback"
    /\ LET op == srv[c].op
           cached == op = "get" /\ l1.gen # 0
           g == IF op = "get" THEN cur ELSE srv[c].gen
           here == g # 0 /\ g \in files /\ ~(op = "get" /\ g \in spread)
                   /\ (op = "get_stripes" \/ g \notin expired)
       IN
       \/ /\ cached /\ l1.gen \notin expired
          /\ srv' = [srv EXCEPT ![c] = [@ EXCEPT !.pc = "send_heap", !.ext = l1.ext,
                                                 !.val = l1.val]]
          /\ hold' = [e \in Extents |-> IF e = l1.ext THEN hold[e] \cup {c} ELSE hold[e]]
          /\ UNCHANGED <<down, mem, l1, cur>>
       \/ /\ cached /\ l1.gen \in expired
          /\ DropL1 /\ Forget(l1.gen)
          /\ down' = [down EXCEPT ![c] = @ \o Sends(c, "get_resp", FALSE, None)]
          /\ srv' = [srv EXCEPT ![c] = Waiting]
          /\ UNCHANGED mem
       \/ /\ ~cached /\ ~here
          /\ NotFound(c)
          /\ IF op = "get_stripes" THEN UNCHANGED cur ELSE Forget(g)
          /\ UNCHANGED <<mem, l1>>
       \/ /\ ~cached /\ here
          /\ srv' = [srv EXCEPT ![c] = [@ EXCEPT !.pc = "send_heap", !.val = data[g]]]
          /\ IF op = "get" THEN FillL1(g) ELSE UNCHANGED <<mem, hold, l1>>
          /\ UNCHANGED <<down, cur>>
    /\ UNCHANGED <<cli, up, qp, history, data, files, expired, spread, events>>

FallbackIoFails(c) ==
    /\ srv[c].pc = "fallback" /\ Event
    /\ NotFound(c)
    /\ UNCHANGED <<cli, up, qp, history, mem, l1, store>>

Sending(c) == srv[c].pc \in {"send_pin", "send_new", "send_heap"}
Source(c) == IF srv[c].ext = None THEN srv[c].val ELSE mem[srv[c].ext]

(* post_write and poll_n: the NIC writes the client's buffer, then the       *)
(* answer goes out.  A freshly read extent becomes the L1 entry.             *)
Send(c) ==
    /\ Sending(c) /\ c \in qp
    /\ cli' = [cli EXCEPT ![c] = [@ EXCEPT !.buf = Source(c)]]
    /\ down' = [down EXCEPT ![c] = @ \o Sends(c, "get_resp", TRUE, None)]
    /\ srv' = [srv EXCEPT ![c] = Waiting]
    /\ IF srv[c].pc = "send_new" /\ srv[c].op # "get_stripes"
       THEN CacheExtent(c, srv[c].gen)
       ELSE hold' = Without(c) /\ UNCHANGED l1
    /\ UNCHANGED <<up, qp, history, mem, store, events>>

(* The transfer fails: a fresh read falls back, the others end the           *)
(* connection with the error.                                                *)
SendFails(c) ==
    /\ Sending(c)
    /\ IF c \in qp THEN Event ELSE UNCHANGED events
    /\ \/ srv[c].pc = "send_new" /\ GivesUpExtent(c) /\ qp' = qp \ {c} /\ UNCHANGED mem
       \/ srv[c].pc # "send_new" /\ Ends(c)
    /\ UNCHANGED <<cli, up, history, l1, store>>

-----------------------------------------------------------------------------
(* The server's PUT paths, from PUT_READY on. *)

(* Anything but COMMIT ends the connection. *)
Commit(c) ==
    /\ srv[c].pc = "commit" /\ up[c] # <<>>
    /\ \/ /\ Head(up[c]).tag = "commit"
          /\ ServerTo(c, "store")
          /\ UNCHANGED <<down, qp, mem, hold>>
       \/ Head(up[c]).tag # "commit" /\ Ends(c)
    /\ up' = [up EXCEPT ![c] = Tail(@)]
    /\ UNCHANGED <<cli, history, l1, store, events>>

NewGeneration(v, away) ==
    LET g == Len(data) + 1 IN
    /\ data' = Append(data, v)
    /\ cur' = g
    /\ files' = files \cup {g}
    /\ spread' = IF away THEN spread \cup {g} ELSE spread

(* put_from_ptr, put_from_ptr_if_absent, put_placement_chunk: what the       *)
(* extent holds is written out.  A stripe PUT publishes nothing.             *)
Store(c) ==
    /\ srv[c].pc = "store"
    /\ LET exists == srv[c].op = "put_if_absent" /\ cur # 0 /\ cur \notin expired IN
       \/ /\ srv[c].op # "put_stripes" /\ ~exists
          /\ NewGeneration(mem[srv[c].ext], FALSE)
          /\ srv' = [srv EXCEPT ![c] = [@ EXCEPT !.pc = "inject", !.gen = cur']]
          /\ UNCHANGED <<down, hold>>
       \/ /\ srv[c].op = "put_stripes" \/ exists
          /\ Finishes(c, Sends(c, PutAnswer(c), ~exists, None))
          /\ UNCHANGED <<cur, data, files, spread>>
    /\ UNCHANGED <<cli, up, qp, history, mem, l1, expired, events>>

StoreFails(c) ==
    /\ srv[c].pc = "store" /\ Event
    /\ Finishes(c, Sends(c, PutAnswer(c), FALSE, None))
    /\ UNCHANGED <<cli, up, qp, history, mem, l1, store>>

(* handle_put reads the metadata back, to cache the extent under it. *)
Inject(c) ==
    /\ srv[c].pc = "inject"
    /\ \/ /\ cur # 0
          /\ srv' = [srv EXCEPT ![c] = [@ EXCEPT !.pc = "insert", !.gen = cur]]
          /\ mispaired' = IF cur = srv[c].gen THEN mispaired ELSE mispaired \cup {cur}
          /\ UNCHANGED <<down, hold, events>>
       \/ /\ IF cur # 0 THEN Event ELSE UNCHANGED events
          /\ Finishes(c, Sends(c, PutAnswer(c), TRUE, None))
          /\ UNCHANGED mispaired
    /\ UNCHANGED <<cli, up, qp, skipped, mem, l1, store>>

(* L1 has the value before the client has its answer. *)
Insert(c) ==
    /\ srv[c].pc = "insert"
    /\ CacheExtent(c, srv[c].gen)
    /\ down' = [down EXCEPT ![c] = @ \o Sends(c, PutAnswer(c), TRUE, None)]
    /\ srv' = [srv EXCEPT ![c] = Waiting]
    /\ UNCHANGED <<cli, up, qp, history, mem, store, events>>

-----------------------------------------------------------------------------
(* The rest of the cluster: another node stores (perhaps across nodes) or    *)
(* deletes the key, time passes, the collector removes retired generations.  *)
OtherPut ==
    /\ GenerationsLeft
    /\ Event
    /\ \E away \in BOOLEAN : NewGeneration(<<None, Len(data) + 1>>, away)
    /\ UNCHANGED <<conns, history, slab, expired>>

OtherDelete ==
    /\ cur # 0 /\ cur' = 0
    /\ Event
    /\ UNCHANGED <<conns, history, slab, data, files, expired, spread>>

TtlPasses ==
    /\ cur \notin expired \cup {0}
    /\ Event
    /\ expired' = expired \cup {cur}
    /\ UNCHANGED <<conns, history, slab, cur, data, files, spread>>

Collect(g) ==
    /\ g \in files \ {cur}
    /\ Event
    /\ files' = files \ {g}
    /\ UNCHANGED <<conns, history, slab, cur, data, expired, spread>>

-----------------------------------------------------------------------------
ClientStep(c) ==
    \/ ReadReady(c) \/ Write(c) \/ WriteFails(c) \/ SendCommit(c)
    \/ ReadAnswer(c) \/ ReadFails(c)

ServerStep(c) ==
    \/ ReadTag(c) \/ Hangup(c) \/ MetaFails(c)
    \/ LookupL1(c) \/ Meta(c) \/ Room(c) \/ Evict(c) \/ NoRoom(c)
    \/ Read(c) \/ ReadIoFails(c) \/ Fallback(c) \/ FallbackIoFails(c)
    \/ Send(c) \/ SendFails(c)
    \/ Commit(c) \/ Store(c) \/ StoreFails(c) \/ Inject(c) \/ Insert(c)

Next ==
    \/ \E c \in Conns :
          \/ Lookup(c) \/ (\E op \in Ops : Request(c, op))
          \/ Close(c) \/ Crash(c) \/ Connect(c)
          \/ ClientStep(c) \/ ServerStep(c)
    \/ OtherPut \/ OtherDelete \/ TtlPasses
    \/ \E g \in Gens : Collect(g)

Spec == Init /\ [][Next]_vars

(* The threads of both sides are scheduled, and a posted transfer completes  *)
(* or fails: the queue pair's retries are limited and both polls time out.   *)
Fairness == \A c \in Conns : WF_vars(ClientStep(c)) /\ WF_vars(ServerStep(c))

FairSpec == Spec /\ Fairness

-----------------------------------------------------------------------------
(* Properties *)

(* Slab memory that the cache or another connection still refers to is never *)
(* written: an extent changes only while one handler alone holds it.  The    *)
(* writer may be a remote NIC, and eviction may have raced with a pinned GET *)
(* (SlabExtent, SlabPlacement._pin, handle_put).                             *)
OnlyOwnedWritten ==
    [][\A e \in Extents : mem'[e] # mem[e] =>
          /\ hold[e] \subseteq Conns
          /\ \E h \in Conns \cup {"cache"} : hold[e] \cup hold'[e] = {h}]_vars

(* Request and answer stay in step on every control stream: what the server  *)
(* has sent belongs to the request its client is waiting for.  Only a client *)
(* that left the answer to a rejected stripe PUT unread is excepted.         *)
InStep ==
    \A c \in Conns \ skipped : cli[c].pc # "closed" =>
        \A i \in 1..Len(down[c]) : Reading(c) /\ down[c][i].id = cli[c].id

(* What a PUT is about to store is what the client of this very request      *)
(* wrote: COMMIT follows the completion of the RDMA WRITE, and nobody else   *)
(* has touched the extent since (handle_put, handle_put_stripes).            *)
StoresOwnBytes ==
    \A c \in Conns : srv[c].pc = "store" => mem[srv[c].ext] = <<c, srv[c].id>>

Served(c) ==
    /\ cli[c].pc = "answer" /\ cli[c].op \in Gets
    /\ down[c] # <<>> /\ Head(down[c]).tag = "get_resp" /\ Head(down[c]).ok

(* A GET that reports success has put a stored value into the client's       *)
(* buffer: never what a PUT that has not committed left in slab memory.  A   *)
(* client that left an answer unread is excepted: three requests later it    *)
(* takes the success of an earlier GET for its own.                          *)
GetCommitted ==
    \A c \in Conns \ skipped : Served(c) => \E g \in 1..Len(data) : cli[c].buf = data[g]

(* A descriptor GET returns the bytes of the descriptor's own generation, or *)
(* nothing.  Excepted are a generation whose metadata a PUT of other bytes   *)
(* has read back and cached its own extent under (handle_put), and again the *)
(* client that left an answer unread.                                        *)
DescriptorBytes ==
    \A c \in Conns \ skipped : Served(c) /\ cli[c].op \in {"get_descriptor", "get_stripes"} =>
        cli[c].buf = data[cli[c].desc] \/ cli[c].desc \in mispaired

(* Every request ends, with an answer or an error: client and server never   *)
(* wait for each other for good.                                             *)
EveryRequestEnds ==
    \A c \in Conns : cli[c].pc \notin {"idle", "closed"} ~> cli[c].pc \in {"idle", "closed"}
=============================================================================
