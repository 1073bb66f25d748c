---------------------------- MODULE ObjectStore ----------------------------
(* The life of one object key across a cluster of KVService nodes that share *)
(* one Redis: the current metadata, the generation counter, the generation-  *)
(* versioned files, PUT / GET / EXISTS / DELETE handlers on any node, TTL    *)
(* expiry, and the delayed garbage collector with its due queue, leases and  *)
(* retries.  Keys share nothing (locks, metadata, paths and counters are all *)
(* per key), so one key stands for all of them.                              *)
(*                                                                           *)
(* A generation number stands for the whole BlockMeta it was prepared with:  *)
(* next_generation never hands the same number out twice, and the identity   *)
(* fields (handle, etag, layout_version, size) are derived from it.          *)
(* A step is one Redis command or script, or one file operation.             *)
EXTENDS Integers, FiniteSets

CONSTANTS
    Nodes,      \* KVService processes
    Mounts,     \* file systems the nodes write their files to
    MountOf,    \* the file system behind each node's storage.devices
    GcNodes,    \* the nodes with gc.enabled
    Gateways,   \* the nodes that reads go through
    Handlers,   \* request handlers that can be active at once
    Kinds,      \* the kinds of PUT that clients issue
    KindsAt,    \* those issued at each node (striping is a setting of the node)
    ReadKinds,  \* the kinds of read that clients issue
    GcLimit,    \* gc.max_tasks_per_run
    MaxGen,     \* bound: generations handed out
    MaxFaults   \* bound: failed writes, Redis errors, lost replies, crashes

LocalKinds == {"single", "striped"}     \* storage_tier PUTs: files of this node only
SpreadKinds == {"dist", "direct"}       \* one stripe per data node

ASSUME ConstantsAssumption ==
    /\ MountOf \in [Nodes -> Mounts]
    /\ GcNodes \subseteq Nodes /\ Gateways \subseteq Nodes
    /\ Kinds \subseteq LocalKinds \cup SpreadKinds
    /\ KindsAt \in [Nodes -> SUBSET Kinds]
    /\ ReadKinds \subseteq {"get", "exists"}
    /\ GcLimit \in Nat \ {0}
    /\ MaxGen \in Nat
    /\ MaxFaults \in Nat

VARIABLES
    (* Redis *)
    meta,       \* current generation under the block key, 0 when the key is absent
    expired,    \* whether its ttl_seconds have passed (TtlPasses)
    counter,    \* the key's generation counter
    due,        \* GC due zset: "no", "wait" (score in the future) or "ripe"
    inflight,   \* GC inflight zset: "no", "leased" or "lapsed" (lease over)
    payload,    \* generations whose GC task hash exists
    (* storage *)
    files,      \* generation -> files on disk, each <<mount, part>>
    layout,     \* generation -> kind of PUT that prepared it
    home,       \* generation -> mount of the node that prepared it (not in BlockMeta)
    h,          \* request handlers: [pc, at, kind, ifAbsent, gen, todo]
    w,          \* the GC worker of each node: [pc, batch, task]
    (* history and fault budget *)
    published,  \* generations that have been current
    doubted,    \* generations whose commit reply was lost once
    healed,     \* generations whose metadata a read removed as stale
    cut,        \* tasks whose reschedule stopped between its Redis commands
    faults

redisVars == <<meta, expired, counter, due, inflight, payload>>
diskVars == <<files, layout, home>>
ghostVars == <<published, doubted, healed, cut>>
vars == <<redisVars, diskVars, h, w, ghostVars, faults>>

Gens == 1 .. MaxGen
Parts == Nodes \cup {"whole"}
Files == Mounts \X Parts

(* Where a PUT of kind k through a node on mount m puts its files:           *)
(* chunk_locations name the owner of every stripe; a local object is one     *)
(* file, or one set of stripe files, on m.                                   *)
FilesOf(k, m) ==
    IF k \in SpreadKinds THEN {<<MountOf[n], n>> : n \in Nodes} ELSE {<<m, "whole">>}

(* The same paths looked up on node n's own file systems, as storage_tier    *)
(* does for every object, whoever owns its stripes.                          *)
LocalView(n, g) ==
    IF layout[g] \in SpreadKinds THEN {<<MountOf[n], o>> : o \in Nodes}
                                 ELSE {<<MountOf[n], "whole">>}

(* placement_from_meta evaluated on node n: recorded locations, or n itself  *)
(* when the metadata records none.                                           *)
PlacementFromMeta(n, g) == FilesOf(layout[g], MountOf[n])

FilesComplete(g) == FilesOf(layout[g], home[g]) \subseteq files[g]

(* Per-key write locks are process-local and there are two tables: the       *)
(* storage tier's and the service's.  A direct PUT takes neither.            *)
LockTable(k) == IF k \in LocalKinds THEN "storage" ELSE "service"

Locked(p) == h[p].kind # "direct" /\ h[p].pc \in
    {"drop", "prepare", "write", "commit", "rerun", "rollback"}

LockFree(n, k) ==
    \A q \in Handlers :
        Locked(q) /\ h[q].at = n => LockTable(h[q].kind) # LockTable(k)

NoHandler == [pc |-> "idle", at |-> "none", kind |-> "none", ifAbsent |-> FALSE,
              gen |-> 0, todo |-> {}]
NoWork == [pc |-> "idle", batch |-> {}, task |-> 0]

-----------------------------------------------------------------------------
Init ==
    /\ meta = 0 /\ expired = FALSE /\ counter = 0
    /\ due = [g \in Gens |-> "no"]
    /\ inflight = [g \in Gens |-> "no"]
    /\ payload = {}
    /\ files = [g \in Gens |-> {}]
    /\ layout = [g \in Gens |-> "none"]
    /\ home = [g \in Gens |-> "none"]
    /\ h = [p \in Handlers |-> NoHandler]
    /\ w = [n \in Nodes |-> NoWork]
    /\ published = {} /\ doubted = {} /\ healed = {} /\ cut = {}
    /\ faults = 0

Goto(p, l) == h' = [h EXCEPT ![p].pc = l]
Return(p) == h' = [h EXCEPT ![p] = NoHandler]

(* Something outside the code goes wrong, within the bound. *)
Fault == faults < MaxFaults /\ faults' = faults + 1

-----------------------------------------------------------------------------
(* Redis scripts on the block key. *)

(* The part replace_block, retire_block and retire_block_if_matches share:   *)
(* the displaced generation's task is stored and queued after the grace.     *)
EnqueueGc(g) ==
    /\ payload' = payload \cup {g}
    /\ due' = [due EXCEPT ![g] = "wait"]
    /\ UNCHANGED inflight

(* Mutants of replace_block: a plain SET, and a script that queues the new   *)
(* generation in place of the old.                                           *)
ReplaceBlockPlainSet(g) ==
    /\ meta' = g /\ expired' = FALSE /\ published' = published \cup {g}
    /\ UNCHANGED <<due, inflight, payload>>

ReplaceBlockQueuesNew(g) ==
    /\ meta' = g /\ expired' = FALSE /\ published' = published \cup {g}
    /\ EnqueueGc(g)

ReplaceBlock(g) ==
    /\ meta' = g /\ expired' = IF meta = g THEN expired ELSE FALSE
    /\ published' = published \cup {g}
    /\ IF meta = 0 THEN UNCHANGED <<due, inflight, payload>> ELSE EnqueueGc(meta)

PutBlockIfAbsent(g) ==
    /\ meta = 0
    /\ meta' = g /\ expired' = FALSE
    /\ published' = published \cup {g}
    /\ UNCHANGED <<due, inflight, payload>>

(* Mutant: no check that the key exists. *)
RetireBlockUnchecked == meta' = 0 /\ expired' = FALSE /\ EnqueueGc(meta)

RetireBlock == meta # 0 /\ meta' = 0 /\ expired' = FALSE /\ EnqueueGc(meta)

(* Mutant: whatever is current is retired. *)
RetireBlockAnyway(g) ==
    IF meta # 0 THEN RetireBlock ELSE UNCHANGED <<meta, expired, due, inflight, payload>>

RetireBlockIfMatches(g) ==
    IF meta = g THEN RetireBlock ELSE UNCHANGED <<meta, expired, due, inflight, payload>>

(* Mutant: the key is deleted without comparing identities. *)
DeleteBlockAnyway(g) ==
    /\ meta' = 0 /\ expired' = FALSE
    /\ healed' = IF meta = g THEN healed \cup {g} ELSE healed

(* delete_block_if_matches removes the key and queues nothing. *)
DeleteBlockIfMatches(g) ==
    /\ meta' = IF meta = g THEN 0 ELSE meta
    /\ expired' = IF meta = g THEN FALSE ELSE expired
    /\ healed' = IF meta = g THEN healed \cup {g} ELSE healed

-----------------------------------------------------------------------------
(* PUT. *)

(* A PUT of kind k arrives at node n and takes the key's lock.  With         *)
(* if_not_exists it looks the key up first: a live object refuses the PUT    *)
(* (nothing changes), an expired one is purged on the way.                   *)
PutBegin(p, n, k, x) ==
    /\ h[p].pc = "idle"
    /\ k = "direct" \/ LockFree(n, k)
    /\ x /\ meta # 0 => expired
    /\ h' = [h EXCEPT ![p] =
                [NoHandler EXCEPT !.pc = IF x /\ meta # 0 THEN "drop" ELSE "prepare",
                                  !.gen = IF x THEN meta ELSE 0,
                                  !.at = n, !.kind = k, !.ifAbsent = x]]
    /\ UNCHANGED <<redisVars, diskVars, w, ghostVars, faults>>

(* delete_expired_current_locked *)
PutDropExpired(p) ==
    /\ h[p].pc = "drop"
    /\ RetireBlockIfMatches(h[p].gen)
    /\ h' = [h EXCEPT ![p] = [@ EXCEPT !.pc = "prepare", !.gen = 0]]
    /\ UNCHANGED <<counter, diskVars, w, ghostVars, faults>>

(* next_generation: a counter that is behind the metadata catches up first.  *)
(* Mutant: one more than the current generation, as without the counter.     *)
NextOfCurrent == meta + 1
NextGeneration == (IF meta > counter THEN meta ELSE counter) + 1

(* prepare_write_meta: the identity of the new generation and its placement. *)
PutPrepare(p) ==
    LET g == NextGeneration IN
    /\ h[p].pc = "prepare"
    /\ g \in Gens
    /\ counter' = g
    /\ layout' = [layout EXCEPT ![g] = h[p].kind]
    /\ home' = [home EXCEPT ![g] = MountOf[h[p].at]]
    /\ h' = [h EXCEPT ![p] = [@ EXCEPT !.pc = "write", !.gen = g,
                                 !.todo = FilesOf(h[p].kind, MountOf[h[p].at])]]
    /\ UNCHANGED <<meta, expired, due, inflight, payload, files, w, ghostVars, faults>>

(* One file of the generation is written, on this node or by                 *)
(* PutPlacementChunk on the stripe's owner.                                  *)
PutWrite(p, f) ==
    /\ h[p].pc = "write"
    /\ f \in h[p].todo
    /\ files' = [files EXCEPT ![h[p].gen] = @ \cup {f}]
    /\ h' = [h EXCEPT ![p] = [@ EXCEPT !.todo = h[p].todo \ {f},
                                 !.pc = IF h[p].todo = {f} THEN "commit" ELSE "write"]]
    /\ UNCHANGED <<redisVars, layout, home, w, ghostVars, faults>>

(* A write fails: the PUT returns its error.  Stripes already on other nodes *)
(* stay behind, unreferenced.                                                *)
PutWriteFails(p) ==
    /\ h[p].pc = "write"
    /\ Fault
    /\ Return(p)
    /\ UNCHANGED <<redisVars, diskVars, w, ghostVars>>

(* What the commit does when it knows its outcome: acknowledge, or remove    *)
(* the files of the generation that lost.                                    *)
Publish(p) ==
    \/ ~h[p].ifAbsent /\ ReplaceBlock(h[p].gen) /\ Return(p)
    \/ h[p].ifAbsent /\ PutBlockIfAbsent(h[p].gen) /\ Return(p)
    \/ /\ h[p].ifAbsent /\ meta # 0
       /\ Goto(p, "rollback")
       /\ UNCHANGED <<meta, expired, due, inflight, payload, published>>

PutCommit(p) ==
    /\ h[p].pc \in {"commit", "rerun"}
    /\ Publish(p)
    /\ UNCHANGED <<counter, diskVars, w, doubted, healed, cut, faults>>

(* The script took effect and its reply was lost: run_with_reconnect will    *)
(* send it once more on a new connection.                                    *)
PutCommitReplyLost(p) ==
    /\ h[p].pc = "commit"
    /\ Fault
    /\ IF h[p].ifAbsent THEN PutBlockIfAbsent(h[p].gen) ELSE ReplaceBlock(h[p].gen)
    /\ Goto(p, "rerun")
    /\ doubted' = doubted \cup {h[p].gen}
    /\ UNCHANGED <<counter, diskVars, w, healed, cut>>

(* Redis cannot be reached (again): the PUT fails.  commit_distributed_put   *)
(* returns the error at once, the other paths remove the new files first.    *)
PutCommitFails(p) ==
    /\ h[p].pc \in {"commit", "rerun"}
    /\ Fault
    /\ IF h[p].kind = "direct" THEN Return(p) ELSE Goto(p, "rollback")
    /\ UNCHANGED <<redisVars, diskVars, w, ghostVars>>

(* delete_paths_best_effort, delete_chunk_from_placement for each stripe:    *)
(* failures are ignored.                                                     *)
PutRollback(p) ==
    /\ h[p].pc = "rollback"
    /\ \E kept \in SUBSET files[h[p].gen] :
          /\ kept = {} \/ (faults < MaxFaults /\ h[p].kind \in SpreadKinds)
          /\ files' = [files EXCEPT ![h[p].gen] = kept]
          /\ faults' = IF kept = {} THEN faults ELSE faults + 1
    /\ Return(p)
    /\ UNCHANGED <<redisVars, layout, home, w, ghostVars>>

-----------------------------------------------------------------------------
(* DELETE, expiry and reads. *)

(* DELETE retires whatever is current, without the write lock. *)
Delete ==
    /\ RetireBlock
    /\ UNCHANGED <<counter, diskVars, h, w, ghostVars, faults>>

(* The clock passes created_at + ttl_seconds of the current generation. *)
TtlPasses ==
    /\ meta # 0 /\ ~expired
    /\ expired' = TRUE
    /\ UNCHANGED <<meta, counter, due, inflight, payload, diskVars, h, w, ghostVars, faults>>

(* GET, EXISTS and batch GET start from get_block. *)
ReadBegin(p, n, k) ==
    /\ h[p].pc = "idle"
    /\ meta # 0
    /\ h' = [h EXCEPT ![p] =
                [NoHandler EXCEPT !.pc = IF expired THEN "purge" ELSE "read",
                                  !.at = n, !.kind = k, !.gen = meta]]
    /\ UNCHANGED <<redisVars, diskVars, w, ghostVars, faults>>

(* purge_if_expired / purge_expired_object: only the identity that was read  *)
(* is retired, under the key's locks.  When it is no longer current, the     *)
(* storage tier's GET goes on with the generation it has.                    *)
ReadPurge(p) ==
    /\ h[p].pc = "purge"
    /\ h[p].kind = "exists" \/ layout[h[p].gen] \in LocalKinds => LockFree(h[p].at, "single")
    /\ h[p].kind = "get" => LockFree(h[p].at, "dist")
    /\ RetireBlockIfMatches(h[p].gen)
    /\ IF meta # h[p].gen /\ h[p].kind = "get" /\ layout[h[p].gen] \in LocalKinds
       THEN Goto(p, "read") ELSE Return(p)
    /\ UNCHANGED <<counter, diskVars, w, ghostVars, faults>>

(* GET follows the placement of a spread object, and reports an error if a   *)
(* stripe cannot be read.  EXISTS, batch GET, and GET of a local object look *)
(* at this node's files and take a missing one for stale metadata.           *)
ReadsLocally(p) == h[p].kind = "exists" \/ layout[h[p].gen] \in LocalKinds

ReadPlacement(p) ==
    /\ h[p].pc = "read" /\ ~ReadsLocally(p)
    /\ Return(p)
    /\ UNCHANGED <<redisVars, diskVars, w, ghostVars, faults>>

ReadLocal(p) ==
    /\ h[p].pc = "read" /\ ReadsLocally(p)
    /\ IF LocalView(h[p].at, h[p].gen) \subseteq files[h[p].gen] THEN Return(p) ELSE Goto(p, "heal")
    /\ UNCHANGED <<redisVars, diskVars, w, ghostVars, faults>>

(* delete_metadata_if_current *)
ReadHeal(p) ==
    /\ h[p].pc = "heal"
    /\ DeleteBlockIfMatches(h[p].gen)
    /\ Return(p)
    /\ UNCHANGED <<counter, due, inflight, payload, diskVars, w,
                   published, doubted, cut, faults>>

-----------------------------------------------------------------------------
(* The garbage collector: run_gc_once on each node, every interval. *)

(* The clock reaches a queued task's not_before, or the end of a lease. *)
GraceEnds(g) ==
    /\ due[g] = "wait"
    /\ due' = [due EXCEPT ![g] = "ripe"]
    /\ UNCHANGED <<meta, expired, counter, inflight, payload, diskVars, h, w, ghostVars, faults>>

LeaseLapses(g) ==
    /\ inflight[g] = "leased"
    /\ inflight' = [inflight EXCEPT ![g] = "lapsed"]
    /\ UNCHANGED <<meta, expired, counter, due, payload, diskVars, h, w, ghostVars, faults>>

(* The task payload is built in Lua with cjson.encode(cjson.decode(old)),    *)
(* which turns the empty chunk_locations of a locally striped object into    *)
(* {}: serde_json cannot read it back as a GcTask.                           *)
Undecodable(g) == layout[g] = "striped"

(* Leases the next claim puts back.  Mutant: none. *)
LapsedIgnored == {}
Lapsed == {g \in Gens : inflight[g] = "lapsed"}

(* take_due_gc_tasks: one script moves lapsed leases back to due and leases  *)
(* up to the limit; a payload that does not decode fails the whole claim,    *)
(* after the script has leased the batch.                                    *)
GcClaim(n) ==
    LET ripe == {g \in Gens : due[g] = "ripe"} \cup Lapsed IN
    /\ w[n].pc = "idle"
    /\ ripe # {}
    /\ \E S \in SUBSET ripe :
          /\ S # {} /\ Cardinality(S) <= GcLimit
          /\ Cardinality(S) = GcLimit \/ S = ripe
          /\ due' = [g \in Gens |-> IF g \in S THEN "no"
                                    ELSE IF g \in Lapsed THEN "ripe" ELSE due[g]]
          /\ inflight' = [g \in Gens |-> IF g \in S \cap payload THEN "leased"
                                         ELSE IF g \in Lapsed THEN "no" ELSE inflight[g]]
          /\ w' = IF S \cap payload = {} \/ \E g \in S \cap payload : Undecodable(g)
                  THEN w
                  ELSE [w EXCEPT ![n] = [NoWork EXCEPT !.pc = "next",
                                                       !.batch = S \cap payload]]
    /\ UNCHANGED <<meta, expired, counter, payload, diskVars, h, ghostVars, faults>>

(* The next task of the batch is compared with the current metadata. *)
GcNext(n) ==
    /\ w[n].pc = "next"
    /\ \E t \in w[n].batch :
          w' = [w EXCEPT ![n] = [pc |-> IF meta = t THEN "unlease" ELSE "delete",
                                 batch |-> w[n].batch \ {t}, task |-> t]]
    /\ UNCHANGED <<redisVars, diskVars, h, ghostVars, faults>>

(* The lookup fails: the task goes back. *)
GcNextFails(n) ==
    /\ w[n].pc = "next"
    /\ Fault
    /\ \E t \in w[n].batch :
          w' = [w EXCEPT ![n] = [pc |-> "unlease", batch |-> w[n].batch \ {t}, task |-> t]]
    /\ UNCHANGED <<redisVars, diskVars, h, ghostVars>>

(* delete_distributed_chunks over the task's placement, evaluated here. *)
GcDelete(n) ==
    /\ w[n].pc = "delete"
    /\ files' = [files EXCEPT ![w[n].task] = @ \ PlacementFromMeta(n, w[n].task)]
    /\ w' = [w EXCEPT ![n].pc = "complete"]
    /\ UNCHANGED <<redisVars, layout, home, h, ghostVars, faults>>

(* A data node cannot be reached: some of the files stay. *)
GcDeleteFails(n) ==
    /\ w[n].pc = "delete"
    /\ Fault
    /\ \E gone \in SUBSET PlacementFromMeta(n, w[n].task) :
          /\ gone # PlacementFromMeta(n, w[n].task)
          /\ files' = [files EXCEPT ![w[n].task] = @ \ gone]
    /\ w' = [w EXCEPT ![n].pc = "unlease"]
    /\ UNCHANGED <<redisVars, layout, home, h, ghostVars>>

NextTask(n) ==
    w' = [w EXCEPT ![n] = [pc |-> IF w[n].batch = {} THEN "idle" ELSE "next",
                           batch |-> w[n].batch, task |-> 0]]

(* complete_gc_task: ZREM inflight, then DEL of the task hash. *)
GcComplete(n) ==
    /\ w[n].pc = "complete"
    /\ inflight' = [inflight EXCEPT ![w[n].task] = "no"]
    /\ w' = [w EXCEPT ![n].pc = "erase"]
    /\ UNCHANGED <<meta, expired, counter, due, payload, diskVars, h, ghostVars, faults>>

GcErase(n) ==
    /\ w[n].pc = "erase"
    /\ payload' = payload \ {w[n].task}
    /\ NextTask(n)
    /\ UNCHANGED <<meta, expired, counter, due, inflight, diskVars, h, ghostVars, faults>>

GcCompleteFails(n) ==
    /\ w[n].pc \in {"complete", "erase"}
    /\ Fault
    /\ w' = [w EXCEPT ![n].pc = "unlease"]
    /\ UNCHANGED <<redisVars, diskVars, h, ghostVars>>

(* reschedule_gc_task: ZREM inflight, HSET of the task hash, ZADD due. *)
GcUnlease(n) ==
    /\ w[n].pc = "unlease"
    /\ inflight' = [inflight EXCEPT ![w[n].task] = "no"]
    /\ w' = [w EXCEPT ![n].pc = "store"]
    /\ UNCHANGED <<meta, expired, counter, due, payload, diskVars, h, ghostVars, faults>>

GcStore(n) ==
    /\ w[n].pc = "store"
    /\ payload' = payload \cup {w[n].task}
    /\ w' = [w EXCEPT ![n].pc = "requeue"]
    /\ UNCHANGED <<meta, expired, counter, due, inflight, diskVars, h, ghostVars, faults>>

GcRequeue(n) ==
    /\ w[n].pc = "requeue"
    /\ due' = [due EXCEPT ![w[n].task] = "wait"]
    /\ NextTask(n)
    /\ UNCHANGED <<meta, expired, counter, inflight, payload, diskVars, h, ghostVars, faults>>

Rescheduling(n) == w[n].pc \in {"store", "requeue"}

(* "GC retry could not be persisted": the error is logged, the task skipped. *)
(* MaxFaults does not count it: a task is only put back after a fault.       *)
GcRescheduleFails(n) ==
    /\ w[n].pc \in {"unlease", "store", "requeue"}
    /\ cut' = IF Rescheduling(n) THEN cut \cup {w[n].task} ELSE cut
    /\ NextTask(n)
    /\ UNCHANGED <<redisVars, diskVars, h, published, doubted, healed, faults>>

-----------------------------------------------------------------------------
(* A node's process dies and restarts: its handlers, its locks and its GC    *)
(* batch are gone, Redis and the files are not.  A direct PUT is driven by   *)
(* its client and goes on.                                                   *)
Crash(n) ==
    /\ Fault
    /\ h' = [p \in Handlers |-> IF h[p].at = n /\ h[p].kind # "direct"
                                THEN NoHandler ELSE h[p]]
    /\ w' = [w EXCEPT ![n] = NoWork]
    /\ cut' = IF Rescheduling(n) THEN cut \cup {w[n].task} ELSE cut
    /\ UNCHANGED <<redisVars, diskVars, published, doubted, healed>>

HandlerStep(p) ==
    \/ PutDropExpired(p) \/ PutPrepare(p)
    \/ (\E f \in Files : PutWrite(p, f))
    \/ PutCommit(p) \/ PutRollback(p)
    \/ ReadPurge(p) \/ ReadPlacement(p) \/ ReadLocal(p) \/ ReadHeal(p)

HandlerFault(p) == PutWriteFails(p) \/ PutCommitReplyLost(p) \/ PutCommitFails(p)

GcStep(n) ==
    \/ GcClaim(n) \/ GcNext(n) \/ GcDelete(n) \/ GcComplete(n) \/ GcErase(n)
    \/ GcUnlease(n) \/ GcStore(n) \/ GcRequeue(n)

GcFault(n) == GcNextFails(n) \/ GcDeleteFails(n) \/ GcCompleteFails(n) \/ GcRescheduleFails(n)

Request(p) ==
    \/ \E n \in Nodes, k \in Kinds, x \in BOOLEAN :
          k \in KindsAt[n] /\ PutBegin(p, n, k, x)
    \/ \E n \in Gateways, k \in ReadKinds : ReadBegin(p, n, k)

Clock(g) == GraceEnds(g) \/ LeaseLapses(g)

Next ==
    \/ \E p \in Handlers : Request(p) \/ HandlerStep(p) \/ HandlerFault(p)
    \/ Delete
    \/ TtlPasses
    \/ \E g \in Gens : Clock(g)
    \/ \E n \in GcNodes : GcStep(n) \/ GcFault(n)
    \/ \E n \in Nodes : Crash(n)

Spec == Init /\ [][Next]_vars

(* Handlers run to their end (threads and tokio tasks are scheduled), the    *)
(* clock advances past due times and leases, and every GC ticker fires      *)
(* again and again (main.rs).  Nothing makes clients issue requests.         *)
Fairness ==
    /\ \A p \in Handlers : WF_vars(HandlerStep(p))
    /\ \A g \in Gens : WF_vars(GraceEnds(g)) /\ WF_vars(LeaseLapses(g))
    /\ \A n \in GcNodes : WF_vars(GcStep(n))

FairSpec == Spec /\ Fairness

-----------------------------------------------------------------------------
(* Properties *)

HandlerState == [pc : {"idle", "drop", "prepare", "write", "commit", "rerun",
                       "rollback", "purge", "read", "heal"},
                 at : Nodes \cup {"none"},
                 kind : Kinds \cup ReadKinds \cup {"none"},
                 ifAbsent : BOOLEAN,
                 gen : Gens \cup {0},
                 todo : SUBSET Files]

WorkerState == [pc : {"idle", "next", "delete", "complete", "erase",
                      "unlease", "store", "requeue"},
                batch : SUBSET Gens,
                task : Gens \cup {0}]

(* Every variable has its type, and a handler or worker that acts on a       *)
(* generation has one.                                                       *)
TypeOK ==
    /\ meta \in Gens \cup {0}
    /\ counter \in 0 .. MaxGen
    /\ due \in [Gens -> {"no", "wait", "ripe"}]
    /\ inflight \in [Gens -> {"no", "leased", "lapsed"}]
    /\ payload \in SUBSET Gens
    /\ files \in [Gens -> SUBSET Files]
    /\ layout \in [Gens -> Kinds \cup {"none"}]
    /\ home \in [Gens -> Mounts \cup {"none"}]
    /\ expired \in BOOLEAN
    /\ h \in [Handlers -> HandlerState]
    /\ w \in [Nodes -> WorkerState]
    /\ published \in SUBSET Gens
    /\ doubted \in SUBSET Gens
    /\ healed \in SUBSET Gens
    /\ cut \in SUBSET Gens
    /\ faults \in 0 .. MaxFaults

(* Committed metadata is always backed by all of its files, whatever mix of  *)
(* overwrites, losing conditional PUTs, deletes, expiry, collection by       *)
(* several workers, crashes and failed steps has happened: the exception is  *)
(* a generation whose commit lost its Redis reply.                           *)
CurrentReadable == meta # 0 /\ meta \notin doubted => FilesComplete(meta)

(* Why CurrentReadable holds.  A handler owns the generation it prepared     *)
(* until it returns; the collector touches a generation once it is queued.   *)
Owns(p) == h[p].pc \in {"write", "commit", "rerun", "rollback"}

Touched(g) ==
    \/ g \in payload
    \/ \E n \in Nodes : g \in w[n].batch \/ w[n].task = g

(* No generation in use is ahead of the counter: the next one is new. *)
CounterAhead ==
    /\ meta <= counter
    /\ \A g \in doubted : g <= counter
    /\ \A p \in Handlers : Owns(p) => h[p].gen <= counter
    /\ \A g \in Gens : Touched(g) => g <= counter

OneOwner ==
    \A p, q \in Handlers : Owns(p) /\ Owns(q) /\ h[p].gen = h[q].gen => p = q

(* Only a commit whose reply was lost is in doubt, and its handler reruns it. *)
DoubtAfterCommit ==
    \A p \in Handlers :
        /\ h[p].pc \in {"write", "commit"} => h[p].gen \notin doubted
        /\ h[p].pc = "rerun" => h[p].gen \in doubted

(* A generation its handler has not published is neither current nor queued. *)
OwnedUnpublished ==
    \A p \in Handlers : Owns(p) /\ h[p].gen \notin doubted =>
        h[p].gen # meta /\ ~Touched(h[p].gen)

(* What a handler has written of its generation is still there. *)
WritesKept ==
    \A p \in Handlers :
        /\ h[p].pc = "write" =>
              /\ layout[h[p].gen] = h[p].kind
              /\ home[h[p].gen] = MountOf[h[p].at]
              /\ FilesOf(h[p].kind, MountOf[h[p].at]) \ h[p].todo \subseteq files[h[p].gen]
        /\ h[p].pc = "commit" => FilesComplete(h[p].gen)

CurrentUntouched ==
    meta # 0 /\ meta \notin doubted => FilesComplete(meta) /\ ~Touched(meta)

(* The inductive invariant behind CurrentReadable: every generation is       *)
(* fresh, then owned by one PUT, then current, then the collector's, and     *)
(* only the one in charge removes its files.                                 *)
OwnershipInv ==
    /\ CounterAhead
    /\ OneOwner
    /\ DoubtAfterCommit
    /\ OwnedUnpublished
    /\ WritesKept
    /\ CurrentUntouched

Queued(g) == g \in payload /\ (due[g] # "no" \/ inflight[g] # "no")

(* A generation that was current, is not any more and still has files is     *)
(* known to the collector: its task is queued, or a worker is putting it     *)
(* back.  Not covered are generations a read dropped as stale, ones whose    *)
(* PUT is still rolling back, and tasks cut off inside reschedule_gc_task.   *)
Superseded(g) == g \in published /\ g # meta /\ files[g] # {} /\ g \notin healed

Reappearing(g) == \E n \in Nodes : Rescheduling(n) /\ w[n].task = g

RetiredTracked ==
    \A g \in Gens : Superseded(g) => Queued(g) \/ Reappearing(g) \/ g \in cut

(* "Expired leases are reclaimed after a worker crash" (config.rs): a task   *)
(* whose files remain is never forgotten, wherever the worker stops.         *)
CrashSafeQueue ==
    \A g \in Gens : Superseded(g) => Queued(g) \/ Reappearing(g)

(* Metadata of an intact object leaves the key only by being retired, which  *)
(* queues its files for collection: no read, expiry or lost race drops it.   *)
LiveMetadataKept ==
    [][meta # 0 /\ meta' # meta /\ FilesComplete(meta) => due'[meta] = "wait"]_vars

(* Only a client's DELETE (which runs in no handler here) removes an object  *)
(* that is neither expired nor broken; a purge decided on an older identity  *)
(* never removes the value that replaced it.                                 *)
PurgeSparesNewer ==
    [][meta # 0 /\ meta' = 0 /\ h' # h =>
          expired \/ ~FilesComplete(meta) \/ meta \in doubted]_vars

(* The collector eventually removes the files of every superseded            *)
(* generation, across leases that lapse, deletes that fail and crashes.      *)
Reclaimed ==
    \A g \in Gens : Superseded(g) ~> (~Superseded(g) \/ g \in cut)
=============================================================================
