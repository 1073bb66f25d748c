----------------------------- MODULE MemoryTier -----------------------------
(* The L1 cache of one KVService node in front of the storage tier: two LRU  *)
(* maps (whole values in "cache", multi-segment values in "chunks") that     *)
(* share one byte counter, filled by PUTs and by reads that miss.  Requests  *)
(* run concurrently; a step is one section under a cache mutex, one turn of  *)
(* the eviction loop, or one call into the storage tier.                     *)
(*                                                                           *)
(* The storage tier is abstracted to what ObjectStore establishes: a PUT     *)
(* makes a new generation current, a read of the current metadata finds the  *)
(* bytes of that generation.  Objects are unstriped: striped ones stream     *)
(* past L1.                                                                  *)
EXTENDS Integers, Sequences, FiniteSets

CONSTANTS
    Keys,
    Size,       \* bytes of each key's objects
    Capacity,   \* memory_tier.capacity_mb
    Handlers,   \* requests that can be active at once
    Ops,        \* the RPCs clients issue
    TtlGens,    \* the PUTs that carry ttl_seconds > 0
    MaxGen      \* bound: PUTs

Writes == {"put", "put_if_absent", "put_chunks", "put_chunks_if_absent"}
Reads == {"get", "get_batch", "get_stream", "exists"}

ASSUME MemoryAssumption ==
    /\ Size \in [Keys -> Nat \ {0}]
    /\ Capacity \in Nat
    /\ Ops \subseteq Writes \cup Reads \cup {"delete"}
    /\ MaxGen \in Nat
    /\ TtlGens \subseteq 1 .. MaxGen
    /\ "free" \notin Handlers

VARIABLES
    meta,       \* Redis: key -> current generation, 0 when absent
    last,       \* generations handed out so far, over all keys
    lapsed,     \* generations whose TTL has passed
    l1,         \* "cache" and "chunks": entries [key, data, meta], oldest first
    size,       \* current_size
    lock,       \* the handler in each map's eviction loop, or "free"
    h,          \* requests: [pc, then, op, key, data, ver], and what was current
                \* and what had expired when they began: [floor, dead]
    overlapped  \* history: two requests have been active at once

vars == <<meta, last, lapsed, l1, size, lock, h, overlapped>>
redisVars == <<meta, last, lapsed>>
l1Vars == <<l1, size, lock>>

Gens == 1 .. MaxGen
Maps == {"cache", "chunks"}

(* The map an operation reads and fills. *)
MapOf(op) == IF op \in {"put_chunks", "put_chunks_if_absent", "get_stream"}
             THEN "chunks" ELSE "cache"

(* The bytes that the entries of a map hold, each as key and offset. *)
Held(s) == UNION {{s[i].key} \X (1 .. Size[s[i].key]) : i \in DOMAIN s}
Bytes(m) == Cardinality(Held(l1[m]))

(* The entry of key k in a map, as a sequence, and the map without it. *)
RemoveAt(s, i) == [j \in 1 .. Len(s) - 1 |-> IF j < i THEN s[j] ELSE s[j + 1]]
Places(s, k) == {i \in DOMAIN s : s[i].key = k}
Hits(s, k) == IF Places(s, k) = {} THEN <<>> ELSE <<s[CHOOSE i \in Places(s, k) : TRUE]>>
Without(s, k) == IF Places(s, k) = {} THEN s ELSE RemoveAt(s, CHOOSE i \in Places(s, k) : TRUE)

(* Mutant: an entry of L1 does not expire. *)
ExpiredNever(e) == FALSE

(* BlockMeta::is_expired of an L1 entry; version 0 is the caller's own       *)
(* metadata, kept when the key was gone again after the PUT.                 *)
Expired(e) == (IF e.meta = 0 THEN e.data ELSE e.meta) \in lapsed

NoRequest == [pc |-> "idle", then |-> "idle", op |-> "none", key |-> "none",
              data |-> 0, ver |-> 0, floor |-> 0, dead |-> {}, verdict |-> "none"]

Init ==
    /\ meta = [k \in Keys |-> 0] /\ last = 0 /\ lapsed = {}
    /\ l1 = [m \in Maps |-> <<>>] /\ size = 0
    /\ lock = [m \in Maps |-> "free"]
    /\ h = [p \in Handlers |-> NoRequest]
    /\ overlapped = FALSE

Active(p) == h[p].pc # "idle"
Goto(p, l) == h' = [h EXCEPT ![p].pc = l]

(* The request is answered with the bytes of generation g, 0 for a miss.     *)
(* Of a read's answer, how it compares with the state it began in is kept.   *)
Verdict(p, g) == IF h[p].op \notin Reads THEN "none"
                 ELSE IF g \in h[p].dead THEN "expired"
                 ELSE IF g = h[p].floor THEN "fresh" ELSE "other"

Answer(p, g) == h' = [h EXCEPT ![p] = [NoRequest EXCEPT !.verdict = Verdict(p, g)]]

(* invalidate_l1_entry, then on to label l. *)
Invalidate(p, l) == h' = [h EXCEPT ![p].pc = "pop_cache", ![p].then = l]

-----------------------------------------------------------------------------
(* An RPC arrives.  GET and GetStream look the metadata up first. *)
Begin(p, op, k) ==
    /\ ~Active(p)
    /\ op \in Writes => last + Cardinality({q \in Handlers : h[q].pc = "store"}) < MaxGen
    /\ h' = [h EXCEPT ![p] =
                [NoRequest EXCEPT !.pc = CASE op \in Writes -> "store"
                                           [] op \in {"get", "get_stream"} -> "live"
                                           [] op = "delete" -> "retire"
                                           [] OTHER -> "look",
                                  !.op = op, !.key = k, !.floor = meta[k],
                                  !.dead = IF op \in Reads THEN lapsed ELSE {}]]
    /\ overlapped' = (overlapped \/ \E q \in Handlers \ {p} : Active(q))
    /\ UNCHANGED <<redisVars, l1Vars>>

TtlPasses(g) ==
    /\ g <= last /\ g \notin lapsed
    /\ lapsed' = lapsed \cup {g}
    /\ UNCHANGED <<meta, last, l1Vars, h, overlapped>>

(* storage.put / put_chunks; the if_absent forms stop at a live object. *)
Store(p) ==
    LET k == h[p].key IN
    /\ h[p].pc = "store"
    /\ \/ /\ h[p].op \in {"put_if_absent", "put_chunks_if_absent"}
          /\ meta[k] # 0 /\ meta[k] \notin lapsed
          /\ Answer(p, 0)
          /\ UNCHANGED <<meta, last>>
       \/ /\ h[p].op \in {"put", "put_chunks"} \/ meta[k] = 0 \/ meta[k] \in lapsed
          /\ last' = last + 1
          /\ meta' = [meta EXCEPT ![k] = last + 1]
          /\ h' = [h EXCEPT ![p].pc = "reread", ![p].data = last + 1]
    /\ UNCHANGED <<lapsed, l1Vars, overlapped>>

(* metadata().get_block, which may find a later PUT's generation, or none. *)
Reread(p) ==
    /\ h[p].pc = "reread"
    /\ h' = [h EXCEPT ![p].pc = "pop_cache", ![p].then = "insert", ![p].ver = meta[h[p].key]]
    /\ UNCHANGED <<redisVars, l1Vars, overlapped>>

-----------------------------------------------------------------------------
(* invalidate_l1_entry and the two inserts. *)

(* One map's part of invalidate_l1_entry. *)
PopLabel(m) == IF m = "cache" THEN "pop_cache" ELSE "pop_chunks"

PopAs(p, m, left, freed) ==
    /\ h[p].pc = PopLabel(m) /\ lock[m] = "free"
    /\ l1' = [l1 EXCEPT ![m] = left]
    /\ size' = size - freed
    /\ Goto(p, IF m = "cache" THEN "pop_chunks" ELSE h[p].then)
    /\ UNCHANGED <<redisVars, lock, overlapped>>

(* Mutants: the counter keeps a popped entry's bytes; only the single-value  *)
(* map is cleared.                                                           *)
PopKeepsSize(p, m) == PopAs(p, m, Without(l1[m], h[p].key), 0)
PopCacheOnly(p, m) ==
    IF m = "cache" THEN PopAs(p, m, Without(l1[m], h[p].key), Size[h[p].key] * Len(Hits(l1[m], h[p].key)))
                   ELSE PopAs(p, m, l1[m], 0)

Pop(p, m) == PopAs(p, m, Without(l1[m], h[p].key), Size[h[p].key] * Len(Hits(l1[m], h[p].key)))

(* cache_insert / chunks_cache_insert: an object larger than L1 is skipped. *)
Insert(p) ==
    /\ h[p].pc = "insert"
    /\ IF Size[h[p].key] > Capacity THEN Answer(p, h[p].data) ELSE Invalidate(p, "fit")
    /\ UNCHANGED <<redisVars, l1Vars, overlapped>>

(* Mutants: the new entry's bytes are forgotten; the loop does not stop at   *)
(* an empty map.                                                             *)
OverWithoutNew(p, m) == size > Capacity /\ l1[m] # <<>>
OverForever(p, m) == size + Size[h[p].key] > Capacity

Over(p, m) == size + Size[h[p].key] > Capacity /\ l1[m] # <<>>

(* The loop condition is evaluated with the map locked, but the counter also *)
(* moves with the other map.                                                 *)
Fit(p) ==
    LET m == MapOf(h[p].op) IN
    /\ h[p].pc = "fit" /\ lock[m] \in {"free", p}
    /\ lock' = [lock EXCEPT ![m] = p]
    /\ Goto(p, IF Over(p, m) THEN "evict" ELSE "place")
    /\ UNCHANGED <<redisVars, l1, size, overlapped>>

Evict(p) ==
    LET m == MapOf(h[p].op) IN
    /\ h[p].pc = "evict"
    /\ size' = size - Size[Head(l1[m]).key]
    /\ l1' = [l1 EXCEPT ![m] = Tail(l1[m])]
    /\ Goto(p, "fit")
    /\ UNCHANGED <<redisVars, lock, overlapped>>

Place(p) ==
    LET m == MapOf(h[p].op)
        k == h[p].key
    IN
    /\ h[p].pc = "place"
    /\ l1' = [l1 EXCEPT ![m] =
                 Append(Without(l1[m], k), [key |-> k, data |-> h[p].data, meta |-> h[p].ver])]
    /\ size' = size - Size[k] * Len(Hits(l1[m], k)) + Size[k]
    /\ lock' = [lock EXCEPT ![m] = "free"]
    /\ Answer(p, h[p].data)
    /\ UNCHANGED <<redisVars, overlapped>>

-----------------------------------------------------------------------------
(* Reads. *)

(* Mutant: no comparison with the identity that had expired. *)
DeleteCurrent(k, g) == meta' = IF g \in lapsed THEN [meta EXCEPT ![k] = 0] ELSE meta

(* delete_if_expired: retire the generation g if it is still current. *)
DeleteIfExpired(k, g) ==
    meta' = IF g # 0 /\ meta[k] = g /\ g \in lapsed THEN [meta EXCEPT ![k] = 0] ELSE meta

AfterLive(op) == IF op = "get" THEN "look" ELSE "peek"

(* metadata_get_live: the placement it returns is local, so what is left of  *)
(* it is the purge of an expired object, which leaves L1 alone.              *)
Live(p) ==
    LET g == meta[h[p].key] IN
    /\ h[p].pc = "live"
    /\ h' = [h EXCEPT ![p].pc = IF g \in lapsed THEN "live_purge" ELSE AfterLive(h[p].op),
                      ![p].ver = g]
    /\ UNCHANGED <<redisVars, l1Vars, overlapped>>

LivePurge(p) ==
    /\ h[p].pc = "live_purge"
    /\ DeleteIfExpired(h[p].key, h[p].ver)
    /\ Goto(p, AfterLive(h[p].op))
    /\ UNCHANGED <<last, lapsed, l1Vars, overlapped>>

(* A hit in a map moves the entry to the recent end. *)
Recent(s, k) == IF Hits(s, k) = <<>> THEN s ELSE Append(Without(s, k), Hits(s, k)[1])
Touch(m, k) == l1' = [l1 EXCEPT ![m] = Recent(l1[m], k)]

(* peek_chunks, which does not look at the expiry. *)
Peek(p) ==
    LET hit == Hits(l1["chunks"], h[p].key) IN
    /\ h[p].pc = "peek" /\ lock["chunks"] = "free"
    /\ IF hit # <<>> THEN Answer(p, hit[1].data) ELSE Goto(p, "look")
    /\ Touch("chunks", h[p].key)
    /\ UNCHANGED <<redisVars, size, lock, overlapped>>

(* The locked lookup of get, get_chunks, get_batch and exists. *)
Lookup(p, m, next) ==
    LET hit == Hits(l1[m], h[p].key) IN
    /\ lock[m] = "free"
    /\ Touch(m, h[p].key)
    /\ IF hit = <<>> THEN Goto(p, next)
       ELSE IF Expired(hit[1])
            THEN h' = [h EXCEPT ![p].pc = "pop_cache", ![p].then = "purge", ![p].ver = hit[1].meta]
            ELSE Answer(p, hit[1].data)
    /\ UNCHANGED <<redisVars, size, lock, overlapped>>

Look(p) == h[p].pc = "look" /\
    Lookup(p, MapOf(h[p].op), IF h[p].op = "exists" THEN "look_chunks" ELSE "fetch")

LookChunks(p) == h[p].pc = "look_chunks" /\ Lookup(p, "chunks", "fetch")

(* storage.get / get_chunks / get_batch / exists: get_block decides. *)
Fetch(p) ==
    LET g == meta[h[p].key] IN
    /\ h[p].pc = "fetch"
    /\ IF g = 0 THEN Answer(p, 0)
       ELSE IF g \in lapsed
       THEN h' = [h EXCEPT ![p].pc = "fetch_purge", ![p].data = g, ![p].ver = g]
       ELSE IF h[p].op = "exists" THEN Answer(p, g)
       ELSE h' = [h EXCEPT ![p].pc = "insert", ![p].data = g, ![p].ver = g]
    /\ UNCHANGED <<redisVars, l1Vars, overlapped>>

(* purge_if_expired: a read whose generation is no longer current goes on    *)
(* with its files.                                                           *)
FetchPurge(p) ==
    /\ h[p].pc = "fetch_purge"
    /\ DeleteIfExpired(h[p].key, h[p].ver)
    /\ IF meta[h[p].key] = h[p].ver \/ h[p].op = "exists" THEN Answer(p, 0) ELSE Goto(p, "insert")
    /\ UNCHANGED <<last, lapsed, l1Vars, overlapped>>

(* purge_expired_l1_entry after its invalidation. *)
Purge(p) ==
    /\ h[p].pc = "purge"
    /\ DeleteIfExpired(h[p].key, h[p].ver)
    /\ Answer(p, 0)
    /\ UNCHANGED <<last, lapsed, l1Vars, overlapped>>

(* DELETE retires the key, then clears L1. *)
Retire(p) ==
    /\ h[p].pc = "retire"
    /\ meta' = [meta EXCEPT ![h[p].key] = 0]
    /\ Invalidate(p, "deleted")
    /\ UNCHANGED <<last, lapsed, l1Vars, overlapped>>

Deleted(p) ==
    /\ h[p].pc = "deleted"
    /\ Answer(p, 0)
    /\ UNCHANGED <<redisVars, l1Vars, overlapped>>

Step(p) ==
    \/ Store(p) \/ Reread(p) \/ (\E m \in Maps : Pop(p, m)) \/ Insert(p)
    \/ Fit(p) \/ Evict(p) \/ Place(p)
    \/ Live(p) \/ LivePurge(p) \/ Peek(p) \/ Look(p) \/ LookChunks(p)
    \/ Fetch(p) \/ FetchPurge(p) \/ Purge(p) \/ Retire(p) \/ Deleted(p)

Next ==
    \/ \E p \in Handlers : Step(p) \/ \E op \in Ops, k \in Keys : Begin(p, op, k)
    \/ \E g \in TtlGens : TtlPasses(g)

Spec == Init /\ [][Next]_vars

-----------------------------------------------------------------------------
(* Properties *)

(* current_size is what both maps hold, however their inserts, evictions and *)
(* invalidations interleave.                                                 *)
SizeAccounted == size = Bytes("cache") + Bytes("chunks")

(* Neither map alone outgrows the capacity, although each is evicted only by *)
(* its own inserts while the shared counter moves under it.                  *)
EachWithinCapacity == \A m \in Maps : Bytes(m) <= Capacity

(* A read answered while requests came one at a time, and with no TTL, has   *)
(* the current value, through whichever RPC it was written: every PUT clears *)
(* the representations of the other interfaces.                              *)
FreshRead ==
    ~overlapped /\ lapsed = {} =>
        \A p \in Handlers : h[p].verdict \in {"none", "fresh"}

(* Metadata leaves a key only by DELETE or because that very generation has  *)
(* expired: no read's purge takes a newer value with it.                     *)
OnlyExpiredPurged ==
    [][\A k \in Keys : meta[k] # 0 /\ meta'[k] = 0 =>
          \/ meta[k] \in lapsed
          \/ \E p \in Handlers : h[p].pc = "retire" /\ h[p].key = k /\ h'[p] # h[p]]_vars

(* An eviction always frees an entry, so the loop ends: it stops at an empty *)
(* map even when the bytes that fill L1 are in the other one, and no other   *)
(* request pops the entry between the test and the pop.                      *)
EvictionFrees == \A p \in Handlers : h[p].pc = "evict" => l1[MapOf(h[p].op)] # <<>>

(* "After a successful write, clear every L1 representation of the same      *)
(* object to avoid single/chunks/slab caches returning stale values"         *)
(* (memory_tier.rs): with no request active, L1 holds no superseded value.   *)
NothingStale ==
    (\A p \in Handlers : ~Active(p)) =>
        \A m \in Maps : \A i \in DOMAIN l1[m] : meta[l1[m][i].key] \in {0, l1[m][i].data}

(* While requests come one at a time, a value that had expired before the    *)
(* request began is returned by GetStream alone, whose peek at L1 ignores    *)
(* the expiry: every other read tests the entry it found, in either map.     *)
ExpiredOnlyStreamed ==
    [][~overlapped => \A p \in Handlers :
          h'[p].verdict = "expired" /\ h[p].verdict # "expired" => h[p].op = "get_stream"]_vars
=============================================================================
