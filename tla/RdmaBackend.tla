----------------------------- MODULE RdmaBackend ----------------------------
(* The RDMA data plane of a vLLM worker: the connector's load and store      *)
(* threads, the Python KVServiceBackend they share, its RdmaClient and the   *)
(* Rust client behind it (rdma-ffi).  parallel_channels is 1, the setting    *)
(* the zero-copy calls need, so the client pool holds one client.            *)
(* A step ends where another thread can run: at a lock, at a call into the   *)
(* Rust library (ctypes releases the GIL), or between two reads of shared    *)
(* attributes.  A pinned buffer is named by the thread that owns it, and     *)
(* data by the thread whose object it belongs to.                            *)
EXTENDS Integers, Sequences, FiniteSets

CONSTANTS
    Loaders,      \* threads in _load_blocks_from_service
    Storers,      \* threads in _store_blocks_to_service
    CacheLimit,   \* CS_RDMA_REGION_CACHE_LIMIT
    Fallback,     \* rdma_fallback_to_grpc
    MaxCalls,     \* bound: calls of each thread
    MaxFaults,    \* bound: crashes of the server and failures of single calls
    None

Threads == Loaders \union Storers
Hole == "hole"      \* a slot that unregister_external emptied
Inner == "inner"    \* the buffer that cs_rdma_client_new allocates

ASSUME RdmaBackendAssumption ==
    /\ Loaders # {} /\ Loaders \intersect Storers = {} /\ {None, Hole, Inner} \intersect Threads = {}
    /\ IsFiniteSet(Threads)
    /\ CacheLimit \in Nat \ {0} /\ MaxCalls \in [Threads -> Nat] /\ MaxFaults \in Nat
    /\ Fallback \in BOOLEAN

VARIABLES
    enabled,   \* _rdma_enabled
    pool,      \* _rdma_client_pool: its client, 0 when empty
    clients,   \* clients: [open, conn, era, addr, regions, inner, lock]
    dicts,     \* pairs of region caches: [ext, put]
    era,       \* the current pair
    mem,       \* contents of each pinned buffer
    up, epoch, \* the server runs; how often it was started
    faults, calls,
    th,        \* threads
    mixed      \* history: a cache entry was made or dropped on a client of
               \* another reset than the cache, or made or dropped twice

vars == <<enabled, pool, clients, dicts, era, mem, up, epoch, faults, calls, th, mixed>>
server == <<up, epoch>>
caches == <<dicts, era>>
tables == <<pool, clients, caches>>

(* client: pool[0] as the call read it; dict: the cache it read; att: attempt;*)
(* key: the buffer ensure_rdma_region is asked for; region: what             *)
(* _find_rdma_region found; dst: the buffer the call in progress addresses;  *)
(* clean: no other thread reset the pool, evicted a region, used the         *)
(* client's own buffer or loaded into a buffer not its own since the call    *)
(* began; hurt: the server or a connection failed during the call.           *)
Idle == [pc |-> "idle", path |-> "zc", att |-> 0, client |-> 0, dict |-> 0,
         key |-> None, rid |-> 0, region |-> None, old |-> 0, dst |-> None,
         again |-> FALSE, clean |-> TRUE, hurt |-> FALSE, out |-> "none", got |-> None]

Dict == [ext |-> <<>>, put |-> {}]

(* Client::new: the built-in buffer at an address, no region, no connection. *)
NewClient(addr) ==
    [open |-> TRUE, conn |-> 0, era |-> era, addr |-> addr,
     regions |-> <<>>, inner |-> None, lock |-> None]

(* Client::connect: to the server as it runs now. *)
Connected(client) == [client EXCEPT !.conn = epoch]

(* After _prewarm_load_rdma_region: connected, a load buffer registered. *)
Init ==
    /\ enabled = TRUE /\ pool = 1 /\ up = TRUE /\ epoch = 1
    /\ \E t \in Loaders :
          /\ dicts = <<[ext |-> <<<<t, 1>>>>, put |-> {}]>> /\ era = 1
          /\ clients = <<[Connected(NewClient(1)) EXCEPT !.regions = <<t>>]>>
    /\ mem = [t \in Threads |-> None]
    /\ faults = 0 /\ calls = [t \in Threads |-> 0]
    /\ th = [t \in Threads |-> Idle]
    /\ mixed = FALSE

-----------------------------------------------------------------------------
(* Thread records. *)
At(t, pc) == th[t].pc = pc
Set(t, r) == th' = [th EXCEPT ![t] = r]
Disturbing(t, r) ==
    th' = [u \in Threads |-> IF u = t THEN r
                             ELSE [th[u] EXCEPT !.clean = @ /\ At(u, "idle")]]
Hurt == [u \in Threads |-> [th[u] EXCEPT !.hurt = @ \/ ~At(u, "idle")]]
Fault == faults < MaxFaults /\ faults' = faults + 1

Done(r, out, got) == [Idle EXCEPT !.clean = r.clean /\ ~(out = "grpc" /\ r.hurt),
                                  !.out = out, !.got = got]

(* The zero-copy call returned False or None, and the caller takes the       *)
(* list[bytes] path; that failed too, and the call falls back to gRPC.       *)
ToBytes(r) == [Idle EXCEPT !.pc = "inner", !.path = "inner", !.clean = r.clean, !.hurt = r.hurt]
ZcFailed(r) == IF Fallback THEN ToBytes(r) ELSE Done(r, "error", None)
InnerFailed(r) == Done(r, IF Fallback THEN "grpc" ELSE "error", None)
GaveUp(r) == IF r.path = "zc" THEN ZcFailed(r) ELSE InnerFailed(r)
Errored(r) ==
    IF r.att = 1 THEN GaveUp(r)
    ELSE [Idle EXCEPT !.pc = "reset", !.path = r.path, !.region = r.region,
                      !.clean = r.clean, !.hurt = r.hurt]

(* A place in a table for a new entry, that nothing refers to any more. *)
NewPlace(tab, used) ==
    CHOOSE i \in 1..(Len(tab) + 1) : i \notin used /\ \A j \in 1..(i - 1) : j \in used
Put(tab, i, e) == IF i > Len(tab) THEN Append(tab, e) ELSE [tab EXCEPT ![i] = e]

(* _get_or_create_rdma_client_pool, under _rdma_lock: Client::new and        *)
(* Client::connect.  A freed buffer's address is used again.                 *)
FreeAddr == CHOOSE a \in 1..(Cardinality(Threads) + 1) :
    /\ \A i \in DOMAIN clients : clients[i].open => clients[i].addr # a
    /\ \A b \in 1..(a - 1) : \E i \in DOMAIN clients : clients[i].open /\ clients[i].addr = b

WithPool(t, found, absent) ==
    \/ /\ pool # 0
       /\ Set(t, [found EXCEPT !.client = pool])
       /\ UNCHANGED <<enabled, pool, clients, faults>>
    \/ /\ pool = 0 /\ up
       /\ pool' = NewPlace(clients, {i \in DOMAIN clients : clients[i].open}
                                      \union {th[u].client : u \in Threads})
       /\ clients' = Put(clients, pool', Connected(NewClient(FreeAddr)))
       /\ Set(t, [found EXCEPT !.client = pool'])
       /\ UNCHANGED <<enabled, faults>>
    \/ /\ pool = 0
       /\ (up /\ Fault) \/ (~up /\ UNCHANGED faults)
       /\ enabled' = (enabled /\ ~Fallback)
       /\ th' = [Hurt EXCEPT ![t] = [absent EXCEPT !.hurt = TRUE]]
       /\ UNCHANGED <<pool, clients>>

-----------------------------------------------------------------------------
(* The connector begins: a store with its data copied into its own pinned    *)
(* buffer, a load into its own.  supports_zerocopy or supports_rdma_put, and *)
(* ensure_rdma_region: the client,                                           *)
Begin(t) ==
    /\ At(t, "idle") /\ calls[t] < MaxCalls[t]
    /\ calls' = [calls EXCEPT ![t] = @ + 1]
    /\ mem' = [mem EXCEPT ![t] = IF t \in Storers THEN t ELSE None]
    /\ LET r == [Idle EXCEPT !.key = t, !.hurt = ~up \/ ~enabled]
       IN  \/ enabled /\ WithPool(t, [r EXCEPT !.pc = "cached"], ToBytes(r))
           \/ ~enabled /\ Set(t, ToBytes(r)) /\ UNCHANGED <<enabled, pool, clients, faults>>
    /\ UNCHANGED <<caches, server, mixed>>

EnsurePool(t) ==
    /\ At(t, "ensure")
    /\ WithPool(t, [th[t] EXCEPT !.pc = "cached"], ZcFailed(th[t]))
    /\ UNCHANGED <<caches, server, mem, calls, mixed>>

(* A cache is a sequence of <<buffer, id>>, the oldest first: a buffer's      *)
(* place in it, the cache without the buffer and with a new id for it.       *)
PlaceOf(ext, b) == {i \in DOMAIN ext : ext[i][1] = b}
RemoveAt(s, i) == [j \in 1..(Len(s) - 1) |-> IF j < i THEN s[j] ELSE s[j + 1]]
Without(ext, b) ==
    IF PlaceOf(ext, b) = {} THEN ext ELSE RemoveAt(ext, CHOOSE i \in PlaceOf(ext, b) : TRUE)
WithId(ext, b, rid) ==
    IF PlaceOf(ext, b) = {} THEN Append(ext, <<b, rid>>)
    ELSE [ext EXCEPT ![CHOOSE i \in PlaceOf(ext, b) : TRUE] = <<b, rid>>]

(* the cache as it is now, and the id when the buffer is in it, *)
Room(r) ==
    IF Len(dicts[r.dict].ext) >= CacheLimit
    THEN [r EXCEPT !.pc = "evict", !.old = Head(dicts[r.dict].ext)]
    ELSE [r EXCEPT !.pc = "register", !.old = 0]

Ensured(r, rid) ==
    [r EXCEPT !.pc = IF r.att = 0 THEN "begin" ELSE "again", !.rid = rid, !.old = 0,
              !.client = 0, !.dict = 0, !.key = None]

EnsureCached(t) ==
    /\ At(t, "cached")
    /\ LET ext == dicts[era].ext
           r == [th[t] EXCEPT !.dict = era]
       IN  \/ \E i \in PlaceOf(ext, r.key) : Set(t, Ensured(r, ext[i][2]))
           \/ PlaceOf(ext, r.key) = {} /\ Set(t, Room(r))
    /\ UNCHANGED <<enabled, tables, server, mem, faults, calls, mixed>>

(* unregister_external: the slot becomes a hole, ids of the others stay. *)
Unregistered(regions, rid) ==
    IF rid \in DOMAIN regions THEN [regions EXCEPT ![rid] = Hole] ELSE regions

(* the oldest entries evicted while the cache is full, *)
EnsureEvict(t) ==
    /\ At(t, "evict")
    /\ LET r == th[t]
           c == r.client
           ext == Without(dicts[r.dict].ext, r.old[1])
       IN  /\ clients' = IF clients[c].open
                         THEN [clients EXCEPT ![c].regions = Unregistered(@, r.old[2])]
                         ELSE clients
           /\ dicts' = [dicts EXCEPT ![r.dict].ext = ext]
           /\ mixed' = (mixed \/ clients[c].era # r.dict
                              \/ \A i \in DOMAIN dicts[r.dict].ext : dicts[r.dict].ext[i] # r.old)
           /\ Disturbing(t, IF Len(ext) >= CacheLimit
                            THEN [r EXCEPT !.old = Head(ext)]
                            ELSE [r EXCEPT !.pc = "register", !.old = 0])
    /\ UNCHANGED <<enabled, pool, era, server, mem, faults, calls>>

(* register_external: the first hole, or a new slot. *)
SlotFor(regions) ==
    IF \E i \in DOMAIN regions : regions[i] = Hole
    THEN CHOOSE i \in DOMAIN regions :
            regions[i] = Hole /\ \A j \in 1..(i - 1) : regions[j] # Hole
    ELSE Len(regions) + 1

Registered(c, buf) ==
    [clients EXCEPT ![c].regions = Put(@, SlotFor(@), buf)]

(* and the buffer registered.  A closed client refuses. *)
EnsureRegister(t) ==
    /\ At(t, "register")
    /\ LET r == th[t]
           c == r.client
           rid == SlotFor(clients[c].regions)
       IN  \/ /\ clients[c].open
              /\ clients' = Registered(c, r.key)
              /\ dicts' = [dicts EXCEPT ![r.dict].ext = WithId(@, r.key, rid)]
              /\ mixed' = (mixed \/ clients[c].era # r.dict
                                 \/ PlaceOf(dicts[r.dict].ext, r.key) # {})
              /\ Set(t, Ensured(r, rid))
              /\ UNCHANGED faults
           \/ /\ (clients[c].open /\ Fault) \/ (~clients[c].open /\ UNCHANGED faults)
              /\ Set(t, [ZcFailed(r) EXCEPT !.hurt = TRUE])
              /\ UNCHANGED <<clients, dicts, mixed>>
    /\ UNCHANGED <<enabled, pool, era, server, mem, calls>>

-----------------------------------------------------------------------------
(* get_chunks_into, put_chunks_from: the client, *)
ZcBegin(t) ==
    /\ At(t, "begin")
    /\ \/ enabled /\ WithPool(t, [th[t] EXCEPT !.pc = "find"], ZcFailed(th[t]))
       \/ ~enabled /\ Set(t, ZcFailed(th[t])) /\ UNCHANGED <<enabled, pool, clients, faults>>
    /\ UNCHANGED <<caches, server, mem, calls, mixed>>

(* _find_rdma_region: the buffer whose id this is in the current cache. *)
(* Mutant: the caller's buffer is not looked up. *)
FindNothing(rid) == None
FindRegion(rid) ==
    LET ext == dicts[era].ext
        hits == {i \in DOMAIN ext : ext[i][2] = rid}
    IN  IF hits = {} THEN None ELSE ext[CHOOSE i \in hits : \A j \in hits : i <= j][1]

ZcFind(t) ==
    /\ At(t, "find")
    /\ Set(t, [th[t] EXCEPT !.pc = "call", !.region = FindRegion(th[t].rid)])
    /\ UNCHANGED <<enabled, tables, server, mem, faults, calls, mixed>>

(* the second attempt, after ensure_rdma_region on a new client. *)
ZcAgain(t) ==
    /\ At(t, "again")
    /\ WithPool(t, [th[t] EXCEPT !.pc = "call"], ZcFailed(th[t]))
    /\ UNCHANGED <<caches, server, mem, calls, mixed>>

(* The region a call addresses: get_into, get_descriptor_into and put look   *)
(* the id up; get and get_descriptor use the client's own buffer.            *)
RegionOf(regions, rid) == IF rid \in DOMAIN regions THEN regions[rid] ELSE Hole
Addressed(t) ==
    IF th[t].path = "inner" /\ t \in Loaders THEN Inner
    ELSE RegionOf(clients[th[t].client].regions, th[t].rid)

(* A call into the Rust client, under RdmaClient._lock: refused at once when *)
(* the client is closed or has no such region; *)
Call(t) ==
    /\ At(t, "call")
    /\ LET c == th[t].client
           b == Addressed(t)
       IN  \/ /\ clients[c].open /\ b # Hole
              /\ clients[c].lock = None
              /\ clients' = [clients EXCEPT ![c].lock = t]
              /\ Set(t, [th[t] EXCEPT !.pc = "return", !.dst = b])
           \/ /\ ~(clients[c].open /\ b # Hole)
              /\ Set(t, Errored(th[t]))
              /\ UNCHANGED clients
    /\ UNCHANGED <<enabled, pool, caches, server, mem, faults, calls, mixed>>

Unlocked(c) == [clients EXCEPT ![c].lock = None]
Reaches(c) == up /\ clients[c].conn = epoch

(* it fails: the connection is gone, the region or the client was taken away *)
(* under it, or the server refuses a store; *)
CallFails(t) ==
    /\ At(t, "return")
    /\ LET c == th[t].client IN
       /\ \/ ~Reaches(c) /\ UNCHANGED faults
          \/ Reaches(c) /\ (~clients[c].open \/ Addressed(t) # th[t].dst) /\ UNCHANGED faults
          \/ Reaches(c) /\ t \in Storers /\ Fault
       /\ clients' = Unlocked(c)
       /\ Set(t, [Errored(th[t]) EXCEPT !.hurt = @ \/ Reaches(c)])
    /\ UNCHANGED <<enabled, pool, caches, server, mem, calls, mixed>>

(* a load misses; with a newer descriptor it is sent once more; *)
(* Mutant: an answer of no bytes passes for a load. *)
CallMissesUnchecked(t) ==
    /\ At(t, "return") /\ t \in Loaders
    /\ Reaches(th[t].client)
    /\ clients' = Unlocked(th[t].client)
    /\ Set(t, Done(th[t], "ok", mem[t]))
    /\ UNCHANGED <<enabled, pool, caches, server, mem, faults, calls, mixed>>
CallMisses(t) ==
    /\ At(t, "return") /\ t \in Loaders
    /\ LET r == th[t] IN
       /\ Reaches(r.client)
       /\ clients' = Unlocked(r.client)
       /\ \/ Set(t, IF r.path = "zc" THEN ZcFailed(r) ELSE Done(r, "miss", None))
          \/ ~r.again /\ Set(t, [r EXCEPT !.pc = "call", !.again = TRUE])
    /\ UNCHANGED <<enabled, pool, caches, server, mem, faults, calls, mixed>>

(* a load is written where the region id points; a zero-copy load then       *)
(* copies its own pinned buffer to the GPU; *)
LoadReturns(t) ==
    /\ At(t, "return") /\ t \in Loaders
    /\ LET r == th[t]
           c == r.client
       IN  /\ Reaches(c)
           /\ mem' = IF r.dst = Inner THEN mem ELSE [mem EXCEPT ![r.dst] = t]
           /\ clients' = [Unlocked(c) EXCEPT ![c].inner = IF r.dst = Inner THEN t ELSE @]
           /\ LET next == IF r.path = "zc" THEN Done(r, "ok", mem'[t]) ELSE [r EXCEPT !.pc = "view"]
              IN  IF r.dst = t THEN Set(t, next) ELSE Disturbing(t, next)
    /\ UNCHANGED <<enabled, pool, caches, server, faults, calls, mixed>>

(* a store sends what the region holds. *)
StoreReturns(t) ==
    /\ At(t, "return") /\ t \in Storers
    /\ LET r == th[t]
           c == r.client
       IN  /\ Reaches(c)
           /\ clients' = Unlocked(c)
           /\ Set(t, Done(r, "ok", IF r.dst = Inner THEN clients[c].inner ELSE mem[r.dst]))
    /\ UNCHANGED <<enabled, pool, caches, server, mem, faults, calls, mixed>>

-----------------------------------------------------------------------------
(* _reset_rdma_client_pool: pool and caches replaced under _rdma_lock, *)
CachesCleared ==
    /\ era' = NewPlace(dicts, {era} \union {th[u].dict : u \in Threads}
                  \union {clients[i].era : i \in {j \in DOMAIN clients : clients[j].open}})
    /\ dicts' = Put(dicts, era', Dict)

Reset(t) ==
    /\ At(t, "reset")
    /\ Disturbing(t, [th[t] EXCEPT !.pc = "close", !.old = pool])
    /\ pool' = 0
    /\ CachesCleared
    /\ UNCHANGED <<enabled, clients, server, mem, faults, calls, mixed>>

(* then the old client closed and freed (Drop), whoever is using it. *)
Freed(c) == [clients EXCEPT ![c] =
                [@ EXCEPT !.open = FALSE, !.conn = 0, !.era = 0, !.addr = 0,
                          !.regions = <<>>, !.inner = None]]

Close(t) ==
    /\ At(t, "close")
    /\ LET r == [th[t] EXCEPT !.old = 0] IN
       /\ clients' = IF th[t].old = 0 THEN clients ELSE Freed(th[t].old)
       /\ Disturbing(t, IF r.path = "inner" THEN [r EXCEPT !.pc = "inner", !.att = 1]
                        ELSE IF r.region = None THEN ZcFailed(r)
                        ELSE [r EXCEPT !.pc = "ensure", !.att = 1, !.key = r.region, !.region = None])
    /\ UNCHANGED <<enabled, pool, caches, server, mem, faults, calls, mixed>>

-----------------------------------------------------------------------------
(* put_chunks and get_chunks: _try_rdma_put, _get_chunks_rdma.  A store      *)
(* below 4 MB goes to gRPC; the second attempt of a load does not ask        *)
(* whether RDMA is still enabled.                                            *)
InnerBegin(t) ==
    /\ At(t, "inner")
    /\ LET asks == enabled \/ (t \in Loaders /\ th[t].att = 1)
           next == IF t \in Loaders THEN "call" ELSE "stage"
       IN  \/ asks /\ WithPool(t, [th[t] EXCEPT !.pc = next], InnerFailed(th[t]))
           \/ /\ ~asks \/ (t \in Storers /\ th[t].att = 0)
              /\ Set(t, Done(th[t], "grpc", None))
              /\ UNCHANGED <<enabled, pool, clients, faults>>
    /\ UNCHANGED <<caches, server, mem, calls, mixed>>

(* _try_rdma_put: the client's own buffer registered as a region, its id     *)
(* cached by address; refused when the data is larger than that buffer; *)
Stage(t) ==
    /\ At(t, "stage")
    /\ LET r == th[t]
           c == r.client
           hits == {e \in dicts[era].put : e[1] = clients[c].addr}
           rid == SlotFor(clients[c].regions)
       IN  \/ /\ clients[c].open /\ hits # {}
              /\ \E e \in hits : Set(t, [r EXCEPT !.pc = "copy", !.rid = e[2]])
              /\ UNCHANGED <<clients, dicts, faults, mixed>>
           \/ /\ clients[c].open /\ hits = {}
              /\ clients' = Registered(c, Inner)
              /\ dicts' = [dicts EXCEPT ![era].put = @ \union {<<clients[c].addr, rid>>}]
              /\ mixed' = (mixed \/ clients[c].era # era)
              /\ Set(t, [r EXCEPT !.pc = "copy", !.rid = rid])
              /\ UNCHANGED faults
           \/ /\ \/ clients[c].open /\ hits = {} /\ Fault
                 \/ ~clients[c].open /\ UNCHANGED faults
              /\ Set(t, [Errored(r) EXCEPT !.hurt = TRUE])
              /\ UNCHANGED <<clients, dicts, mixed>>
           \/ /\ r.att = 0
              /\ Set(t, InnerFailed(r))
              /\ UNCHANGED <<clients, dicts, faults, mixed>>
    /\ UNCHANGED <<enabled, pool, era, server, mem, calls>>

(* the segments copied into it. *)
Copy(t) ==
    /\ At(t, "copy")
    /\ LET c == th[t].client
       IN  clients' = IF clients[c].open THEN [clients EXCEPT ![c].inner = t] ELSE clients
    /\ Disturbing(t, [th[t] EXCEPT !.pc = "call"])
    /\ UNCHANGED <<enabled, pool, caches, server, mem, faults, calls, mixed>>

(* _get_chunks_rdma: buffer_view copies the answer out of the buffer. *)
View(t) ==
    /\ At(t, "view")
    /\ Set(t, Done(th[t], "ok", clients[th[t].client].inner))
    /\ UNCHANGED <<enabled, tables, server, mem, faults, calls, mixed>>

-----------------------------------------------------------------------------
(* The server stops, and its connections with it; it is started again. *)
Crash ==
    /\ up /\ Fault
    /\ up' = FALSE /\ th' = Hurt
    /\ UNCHANGED <<enabled, tables, epoch, mem, calls, mixed>>

Restart ==
    /\ ~up
    /\ up' = TRUE /\ epoch' = epoch + 1
    /\ UNCHANGED <<enabled, tables, mem, faults, calls, th, mixed>>

Step(t) ==
    \/ EnsurePool(t) \/ EnsureCached(t) \/ EnsureEvict(t) \/ EnsureRegister(t)
    \/ ZcBegin(t) \/ ZcFind(t) \/ ZcAgain(t)
    \/ Call(t) \/ CallFails(t) \/ CallMisses(t) \/ LoadReturns(t) \/ StoreReturns(t)
    \/ Reset(t) \/ Close(t)
    \/ InnerBegin(t) \/ Stage(t) \/ Copy(t) \/ View(t)

Next == Crash \/ Restart \/ \E t \in Threads : Begin(t) \/ Step(t)

Spec == Init /\ [][Next]_vars

-----------------------------------------------------------------------------
(* A call that succeeded over RDMA moved the caller's own data: a store sent *)
(* what the store wrote, a load returns what the server sent for it.  No     *)
(* other thread reset the pool, evicted a region, used the client's own      *)
(* buffer or missed its own during the call, and no cache entry was made     *)
(* across a reset.                                                           *)
OwnBytes ==
    \A t \in Threads :
        th[t].out = "ok" /\ th[t].clean /\ ~mixed => th[t].got = t

(* A connection that died while no call was using it costs a call nothing:   *)
(* it resets the pool, registers its buffer again and succeeds on the second *)
(* attempt, without falling back to gRPC.  A call that fell back was hurt by *)
(* a fault of its own time or disturbed by another thread.                   *)
Healed ==
    \A t \in Threads :
        th[t].out = "grpc" => ~th[t].clean \/ mixed

=============================================================================
