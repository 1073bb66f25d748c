----------------------------- MODULE StripedPut -----------------------------
(* PUTs of one key at the grain of a stripe.  put_stream receives a client's *)
(* chunks, cuts them on stripe boundaries and starts each stripe's write as  *)
(* soon as it is full (put_distributed_stream_impl); when no size was        *)
(* declared it buffers the body and writes all stripes at once, on the data  *)
(* nodes (put_distributed_bytes_impl), on this node's devices                *)
(* (put_striped_chunks_impl, put_from_ptr_striped) or as one file.  A stripe *)
(* write may finish after the handler that started it has been dropped.      *)
(*                                                                           *)
(* Lengths are counted in units, ChunkSize units to a stripe.  A generation  *)
(* stands for the bytes its PUT sent.  Redis errors after a command took     *)
(* effect, and the collector's queue, are ObjectStore's subject.             *)
EXTENDS Integers, FiniteSets, Sequences

CONSTANTS
    Nodes,       \* data nodes
    Owner,       \* select_data_node: stripe index -> node
    ChunkSize,   \* storage.striping_chunk_size
    Threshold,   \* storage.striping_threshold
    MaxInflight, \* MAX_INFLIGHT_STRIPES
    Putters,     \* PUT handlers that can be active at once
    Streams,     \* request bodies: [decl: declared total, ends: offsets at
                 \*   which the chunks end]
    Configs,     \* configurations, each with the load put on it:
                 \*   clustered: more than one data node is configured
                 \*   verify: node -> verify_stripe_checksums
                 \*   gens: generations handed out, at most MaxGen
                 \*   putters, entry, absent, streams: active handlers, nodes,
                 \*     values of if_not_exists and bodies of the PUTs
                 \*   faults: the faults that happen, of "put", "read", "damage"
    MaxGen,      \* bound: generations
    MaxFaults    \* bound: failed writes, lost replies, dropped requests, damage

Total(body) == body.ends[Len(body.ends)]
Ceil(n) == (n + ChunkSize - 1) \div ChunkSize
Stripes == UNION {{s \in 0 .. Total(b) : s * ChunkSize < Total(b)} : b \in Streams}

ASSUME StripedPutAssumption ==
    /\ ChunkSize \in Nat \ {0} /\ MaxInflight \in Nat \ {0}
    /\ Threshold \in Nat /\ MaxGen \in Nat /\ MaxFaults \in Nat
    /\ \A b \in Streams :
        /\ b.decl \in Nat /\ b.ends \in Seq(Nat \ {0}) /\ b.ends # <<>>
        /\ \A i, j \in 1 .. Len(b.ends) : i < j => b.ends[i] < b.ends[j]
    /\ IsFiniteSet(Putters)
    /\ \A s \in Stripes : Owner[s] \in Nodes
    /\ \A c \in Configs :
        /\ c.gens \in 1 .. MaxGen /\ c.clustered \in BOOLEAN /\ c.verify \in [Nodes -> BOOLEAN]
        /\ c.putters \subseteq Putters /\ c.absent \subseteq BOOLEAN
        /\ c.entry \subseteq Nodes /\ c.streams \subseteq Streams

VARIABLES
    conf,     \* the configuration the cluster was started with
    meta,     \* current generation, 0 when the key is absent
    expired,  \* whether its ttl_seconds have passed
    retired,  \* generations handed to the garbage collector
    counter,  \* the key's generation counter
    obj,      \* generation -> [mode, at, total, lens]: how it was prepared
    task,     \* generation, stripe -> "none", "run", "ok", "fail" or "joined"
    file,     \* generation, stripe -> "none", "good", "bad" or "short"
    h,        \* PUT handlers
    failed,   \* history: generations whose PUT ended without committing
    excused,  \* history: generations a fault kept from being cleaned up
    hurt,     \* history: generations with a damaged file
    faults

life == <<meta, expired, retired>>
ghosts == <<failed, excused, hurt>>
putVars == <<conf, life, counter, obj, task, file, h, ghosts, faults>>

Gens == 1 .. MaxGen
Modes == {"streamed", "bytes", "striped", "single"}
NoObj == [mode |-> "none", at |-> "none", total |-> 0, lens |-> <<>>]
NoPut == [pc |-> "idle", at |-> "none", mode |-> "none", ifAbsent |-> FALSE,
          body |-> [decl |-> 0, ends |-> <<>>], gen |-> 0, chunk |-> 0, buf |-> 0,
          filled |-> 0, next |-> 0, recvd |-> 0, locs |-> {}, err |-> FALSE, todo |-> {}]

(* distributed_placement_enabled, and should_stripe of a node on its own. *)
Large(len) == Threshold > 0 /\ len > Threshold
Distributed(len) == Large(len) /\ conf.clustered

(* The path a body takes: the declared size decides first, the received one  *)
(* for a body that declared none or a small one.                             *)
ModeOf(body) ==
    IF body.decl > 0 /\ Distributed(body.decl) THEN "streamed"
    ELSE IF Distributed(Total(body)) THEN "bytes"
    ELSE IF Large(Total(body)) THEN "striped" ELSE "single"

(* Placement: chunk_locations for the distributed modes, this node's own     *)
(* devices for the others.                                                   *)
NodeOf(g, s) == IF obj[g].mode \in {"streamed", "bytes"} THEN Owner[s] ELSE obj[g].at
StripesOf(g) == 0 .. Len(obj[g].lens) - 1

(* put_placement_chunk returns a checksum when its own node verifies; a      *)
(* single file has none and is never verified.                               *)
HasSum(g, s) == obj[g].mode # "single" /\ conf.verify[NodeOf(g, s)]

Fault(kind) == kind \in conf.faults /\ faults < MaxFaults /\ faults' = faults + 1

-----------------------------------------------------------------------------
Init ==
    /\ conf \in Configs
    /\ meta = 0 /\ expired = FALSE /\ retired = {} /\ counter = 0
    /\ obj = [g \in Gens |-> NoObj]
    /\ task = [g \in Gens |-> [s \in Stripes |-> "none"]]
    /\ file = [g \in Gens |-> [s \in Stripes |-> "none"]]
    /\ h = [p \in Putters |-> NoPut]
    /\ failed = {} /\ excused = {} /\ hurt = {} /\ faults = 0

(* key_write_lock: the service's table for distributed PUTs, the storage     *)
(* tier's for the others, both local to a process.                           *)
Local(p) == h[p].mode \in {"striped", "single"}
LockFree(p) ==
    \A q \in Putters \ {p} :
        h[q].pc \in {"prepare", "feed", "drain", "commit", "undo"} /\ h[q].at = h[p].at
            => Local(q) # Local(p)

(* The handler answers its client with an error, or that the key exists. *)
Refuse(p) ==
    /\ h' = [h EXCEPT ![p] = NoPut]
    /\ failed' = IF h[p].gen = 0 THEN failed ELSE failed \cup {h[p].gen}

-----------------------------------------------------------------------------
(* Handlers. *)

PutBegin(p) ==
    /\ h[p].pc = "idle"
    /\ counter + Cardinality({q \in Putters : h[q].pc \in {"gate", "prepare"}}) < conf.gens
    /\ p \in conf.putters
    /\ \E n \in conf.entry, b \in conf.streams, ifAbsent \in conf.absent :
        h' = [h EXCEPT ![p] = [NoPut EXCEPT !.pc = "gate", !.at = n, !.mode = ModeOf(b),
                                            !.ifAbsent = ifAbsent, !.body = b]]
    /\ UNCHANGED <<conf, life, counter, obj, task, file, ghosts, faults>>

(* The existence gate, under the key's lock: a live object refuses an        *)
(* if-absent PUT, an expired one is retired first.                           *)
PutGate(p) ==
    /\ h[p].pc = "gate" /\ LockFree(p)
    /\ IF h[p].ifAbsent /\ meta # 0 /\ ~expired
       THEN Refuse(p) /\ UNCHANGED life
       ELSE /\ h' = [h EXCEPT ![p].pc = "prepare"]
            /\ IF h[p].ifAbsent /\ meta # 0
               THEN meta' = 0 /\ expired' = FALSE /\ retired' = retired \cup {meta}
               ELSE UNCHANGED life
            /\ UNCHANGED failed
    /\ UNCHANGED <<conf, counter, obj, task, file, excused, hurt, faults>>

(* The stripes of a body that has been received in full. *)
WholeLens(body, mode) ==
    LET t == Total(body) IN
    IF mode = "single" THEN <<t>>
    ELSE [i \in 1 .. Ceil(t) |-> IF i * ChunkSize <= t THEN ChunkSize
                                 ELSE t - (i - 1) * ChunkSize]

(* prepare_write_meta takes a generation.  A streamed PUT goes on to receive *)
(* its body; the others have theirs and start every stripe write at once.    *)
PutPrepare(p) ==
    LET g == counter + 1
        b == h[p].body
        streamed == h[p].mode = "streamed"
        lens == IF streamed THEN <<>> ELSE WholeLens(b, h[p].mode)
    IN
    /\ h[p].pc = "prepare"
    /\ counter' = g
    /\ obj' = [obj EXCEPT ![g] = [mode |-> h[p].mode, at |-> h[p].at, lens |-> lens,
                                  total |-> IF streamed THEN b.decl ELSE Total(b)]]
    /\ task' = [task EXCEPT ![g] = [s \in Stripes |-> IF s < Len(lens) THEN "run" ELSE "none"]]
    /\ h' = [h EXCEPT ![p].gen = g, ![p].pc = IF streamed THEN "feed" ELSE "drain"]
    /\ UNCHANGED <<conf, meta, expired, retired, file, ghosts, faults>>

Inflight(g) == {s \in Stripes : task[g][s] \in {"run", "ok", "fail"}}

(* Whether the bytes in hand complete the current stripe, and whether they   *)
(* are the trailing partial stripe of a body that has ended.                 *)
Full(p) == h[p].buf >= ChunkSize - h[p].filled
Ended(p) == h[p].buf = 0 /\ (h[p].chunk = Len(h[p].body.ends) \/ h[p].err)
Flushes(p) == Ended(p) /\ h[p].filled > 0 /\ ~h[p].err
Dispatches(p) == h[p].pc = "feed" /\ ((h[p].buf > 0 /\ Full(p)) \/ Flushes(p))

(* stream.next() and the part of feed! that keeps a chunk too short to       *)
(* complete the stripe.                                                      *)
PutReceive(p) ==
    /\ h[p].pc = "feed"
    /\ \/ /\ h[p].buf = 0 /\ ~Ended(p)
          /\ LET end == h[p].body.ends[h[p].chunk + 1]
             IN  h' = [h EXCEPT ![p].chunk = @ + 1, ![p].recvd = end,
                                ![p].buf = end - h[p].recvd]
       \/ /\ h[p].buf > 0 /\ ~Full(p)
          /\ h' = [h EXCEPT ![p].filled = @ + h[p].buf, ![p].buf = 0]
    /\ UNCHANGED <<conf, life, counter, obj, task, file, ghosts, faults>>

(* dispatch_stripe!: the stripe number advances, and the write is started    *)
(* unless one has failed.  The last, partial stripe is flushed the same way. *)
PutDispatch(p) ==
    LET g == h[p].gen
        s == h[p].next
        len == IF Flushes(p) THEN h[p].filled ELSE ChunkSize
    IN
    /\ Dispatches(p)
    /\ Cardinality(Inflight(g)) < MaxInflight
    /\ h' = [h EXCEPT ![p].next = s + 1, ![p].filled = 0,
                      ![p].buf = IF Flushes(p) THEN 0 ELSE @ - (ChunkSize - h[p].filled)]
    /\ IF h[p].err THEN UNCHANGED <<task, obj>>
       ELSE /\ task' = [task EXCEPT ![g][s] = "run"]
            /\ obj' = [obj EXCEPT ![g].lens = Append(@, len)]
    /\ UNCHANGED <<conf, life, counter, file, ghosts, faults>>

(* Mutant: finished writes are joined only once the body has ended. *)
AbsorbAtEnd(p) ==
    LET g == h[p].gen IN
    /\ h[p].pc = "drain"
    /\ \E s \in Stripes :
        /\ task[g][s] \in {"ok", "fail"}
        /\ task' = [task EXCEPT ![g][s] = "joined"]
        /\ h' = [h EXCEPT ![p].locs = IF task[g][s] = "ok" THEN @ \cup {s} ELSE @,
                          ![p].err = @ \/ task[g][s] = "fail"]
    /\ UNCHANGED <<conf, life, counter, obj, file, ghosts, faults>>

(* join_next and absorb: one finished stripe write, to make room for the     *)
(* next stripe or to drain the set at the end.                               *)
PutAbsorb(p) ==
    LET g == h[p].gen IN
    /\ \/ h[p].pc = "drain"
       \/ Dispatches(p) /\ Cardinality(Inflight(g)) >= MaxInflight
    /\ \E s \in Stripes :
        /\ task[g][s] \in {"ok", "fail"}
        /\ task' = [task EXCEPT ![g][s] = "joined"]
        /\ h' = [h EXCEPT ![p].locs = IF task[g][s] = "ok" THEN @ \cup {s} ELSE @,
                          ![p].err = @ \/ task[g][s] = "fail"]
    /\ UNCHANGED <<conf, life, counter, obj, file, ghosts, faults>>

PutEnded(p) ==
    /\ h[p].pc = "feed" /\ Ended(p) /\ (h[p].filled = 0 \/ h[p].err)
    /\ h' = [h EXCEPT ![p].pc = "drain"]
    /\ UNCHANGED <<conf, life, counter, obj, task, file, ghosts, faults>>

(* The stripes a PUT of each mode removes when a stripe write failed: the    *)
(* streamed one every stripe it knows of, the local striped one those before *)
(* the first failure, put_distributed_bytes_impl none.                       *)
Unwound(p) ==
    CASE h[p].mode = "streamed" -> h[p].locs
      [] h[p].mode = "striped" -> {s \in h[p].locs : 0 .. s \subseteq h[p].locs}
      [] OTHER -> {}

Undo(p, ss) == h' = [h EXCEPT ![p].pc = "undo", ![p].todo = ss]

(* Mutant: the received length is not compared with the declared one. *)
JoinedAnyLength(p) ==
    /\ h[p].pc = "drain" /\ Inflight(h[p].gen) = {}
    /\ IF h[p].err THEN Undo(p, Unwound(p)) ELSE h' = [h EXCEPT ![p].pc = "commit"]
    /\ UNCHANGED <<conf, life, counter, obj, task, file, ghosts, faults>>

(* Every stripe write has been joined: roll back, refuse, or go on to commit. *)
(* Only put_distributed_bytes_impl looks for a missing checksum.             *)
PutJoined(p) ==
    LET g == h[p].gen IN
    /\ h[p].pc = "drain" /\ Inflight(g) = {}
    /\ IF h[p].err \/ (h[p].mode = "streamed" /\ h[p].recvd # h[p].body.decl)
       THEN Undo(p, Unwound(p))
       ELSE IF /\ h[p].mode = "bytes" /\ conf.verify[h[p].at]
               /\ \E s \in h[p].locs : ~HasSum(g, s)
            THEN Undo(p, h[p].locs)
            ELSE h' = [h EXCEPT ![p].pc = "commit"]
    /\ UNCHANGED <<conf, life, counter, obj, task, file, ghosts, faults>>

(* Mutant: losing the SET NX is answered without removing the stripes. *)
CommitNoUndo(p) ==
    /\ h[p].pc \in {"commit", "orphan"}
    /\ IF h[p].ifAbsent /\ meta # 0
       THEN Refuse(p) /\ UNCHANGED life
       ELSE /\ meta' = h[p].gen /\ expired' = FALSE
            /\ retired' = retired \cup ({meta} \ {0})
            /\ h' = [h EXCEPT ![p] = NoPut]
            /\ UNCHANGED failed
    /\ UNCHANGED <<conf, counter, obj, task, file, excused, hurt, faults>>

(* put_block_if_absent (SET NX) or replace_block, which queues the displaced *)
(* generation.                                                               *)
PutCommit(p) ==
    LET g == h[p].gen IN
    /\ h[p].pc \in {"commit", "orphan"}
    /\ IF h[p].ifAbsent /\ meta # 0
       THEN /\ IF h[p].pc = "orphan" THEN Refuse(p)
               ELSE Undo(p, h[p].locs) /\ UNCHANGED failed
            /\ UNCHANGED life
       ELSE /\ meta' = g /\ expired' = FALSE
            /\ retired' = retired \cup ({meta} \ {0})
            /\ h' = [h EXCEPT ![p] = NoPut]
            /\ UNCHANGED failed
    /\ UNCHANGED <<conf, counter, obj, task, file, excused, hurt, faults>>

(* The commit command fails: the streamed PUT returns through `?`. *)
PutCommitFails(p) ==
    /\ h[p].pc = "commit" /\ Fault("put")
    /\ IF h[p].mode = "streamed"
       THEN Refuse(p) /\ excused' = excused \cup {h[p].gen}
       ELSE Undo(p, h[p].locs) /\ UNCHANGED <<failed, excused>>
    /\ UNCHANGED <<conf, life, counter, obj, task, file, hurt>>

(* delete_chunk_from_placement, delete_paths_best_effort: one file after the *)
(* other, errors ignored.                                                    *)
PutUndo(p) ==
    LET g == h[p].gen IN
    /\ h[p].pc = "undo"
    /\ IF h[p].todo = {}
       THEN Refuse(p) /\ UNCHANGED <<file, excused, faults>>
       ELSE \E s \in h[p].todo :
            /\ h' = [h EXCEPT ![p].todo = @ \ {s}]
            /\ \/ file' = [file EXCEPT ![g][s] = "none"] /\ UNCHANGED <<excused, faults>>
               \/ Fault("put") /\ excused' = excused \cup {g} /\ UNCHANGED file
            /\ UNCHANGED failed
    /\ UNCHANGED <<conf, life, counter, obj, task, hurt>>

(* The request stream breaks, or the client goes away and the handler is     *)
(* dropped: nothing is undone, the stripe writes are on their own, and so is *)
(* a commit that spawn_blocking has started, without the key's lock.  The    *)
(* local modes run on a blocking thread, which is never dropped.             *)
PutDropped(p) ==
    /\ h[p].pc \in {"feed", "drain", "commit", "undo"} /\ ~Local(p) /\ Fault("put")
    /\ IF h[p].pc = "commit"
       THEN h' = [h EXCEPT ![p].pc = "orphan"] /\ UNCHANGED failed
       ELSE Refuse(p)
    /\ excused' = excused \cup {h[p].gen}
    /\ UNCHANGED <<conf, life, counter, obj, task, file, hurt>>

-----------------------------------------------------------------------------
(* Stripe writes: put_stripe_segments_on_node, put_chunk_on_node and, on the *)
(* owning node, put_placement_chunk.                                         *)

Owned(g) == \E p \in Putters : h[p].gen = g

Ends(g, s, outcome) == task' = [task EXCEPT ![g][s] = outcome]

StripeWrite(g, s) ==
    /\ task[g][s] = "run"
    /\ file' = [file EXCEPT ![g][s] = "good"]
    /\ Ends(g, s, "ok")
    /\ UNCHANGED <<conf, life, counter, obj, h, ghosts, faults>>

(* The connection or the write fails; or the write is done and the answer of *)
(* the other node is lost; or the task is aborted with its handler gone.     *)
StripeFails(g, s) ==
    /\ task[g][s] = "run"
    /\ \/ Fault("put") /\ UNCHANGED <<file, excused>>
       \/ /\ NodeOf(g, s) # obj[g].at /\ Fault("put")
          /\ file' = [file EXCEPT ![g][s] = "good"]
          /\ excused' = excused \cup {g}
       \/ ~Owned(g) /\ UNCHANGED <<file, excused, faults>>
    /\ Ends(g, s, "fail")
    /\ UNCHANGED <<conf, life, counter, obj, h, failed, hurt>>

-----------------------------------------------------------------------------
(* The rest of the object's life, in outline (ObjectStore has the detail):   *)
(* DELETE and expiry retire the current generation, the collector removes    *)
(* the files of a retired one, and a device may lose or damage a file.       *)

Retire == meta' = 0 /\ expired' = FALSE /\ retired' = retired \cup {meta}

Delete ==
    /\ meta # 0 /\ Retire
    /\ UNCHANGED <<conf, counter, obj, task, file, h, ghosts, faults>>

TtlPasses ==
    /\ meta # 0 /\ ~expired /\ expired' = TRUE
    /\ UNCHANGED <<conf, meta, retired, counter, obj, task, file, h, ghosts, faults>>

Collect(g) ==
    /\ g \in retired /\ retired' = retired \ {g}
    /\ file' = [file EXCEPT ![g] = [s \in Stripes |-> "none"]]
    /\ UNCHANGED <<conf, meta, expired, counter, obj, task, h, ghosts, faults>>

Damage(g, s) ==
    /\ meta = g /\ file[g][s] = "good" /\ Fault("damage")
    /\ \E f \in {"none", "bad", "short"} : file' = [file EXCEPT ![g][s] = f]
    /\ hurt' = hurt \cup {g}
    /\ UNCHANGED <<conf, life, counter, obj, task, h, failed, excused>>

PutStep(p) ==
    \/ PutGate(p) \/ PutPrepare(p) \/ PutReceive(p) \/ PutDispatch(p) \/ PutAbsorb(p)
    \/ PutEnded(p) \/ PutJoined(p) \/ PutCommit(p) \/ PutUndo(p)

PutNext ==
    \/ \E p \in Putters : PutBegin(p) \/ PutStep(p) \/ PutCommitFails(p) \/ PutDropped(p)
    \/ \E g \in Gens, s \in Stripes : StripeWrite(g, s) \/ StripeFails(g, s) \/ Damage(g, s)
    \/ \E g \in Gens : Collect(g)
    \/ Delete \/ TtlPasses

-----------------------------------------------------------------------------
(* Properties of PUT. *)

(* Stripes of these lengths are that many bytes, cut on stripe boundaries:   *)
(* all but the last are full.                                                *)
Tiles(lens, bytes) ==
    /\ \A i \in 1 .. Len(lens) - 1 : lens[i] = ChunkSize
    /\ bytes = IF lens = <<>> THEN 0
               ELSE (Len(lens) - 1) * ChunkSize + lens[Len(lens)]

(* The object a reader finds is whole: its stripes tile the declared size,   *)
(* every one is on its device and none is still being written, so metadata   *)
(* is published only after every stripe of exactly the announced bytes.      *)
CommittedWhole ==
    meta # 0 =>
        /\ Tiles(obj[meta].lens, obj[meta].total)
        /\ \A s \in StripesOf(meta) :
               task[meta][s] = "joined" /\ (meta \in hurt \/ file[meta][s] = "good")

(* A streamed or single-file PUT that was refused (a stripe write failed,    *)
(* the body was not of the declared length, another PUT was first) leaves no *)
(* file behind, unless a fault cut the clean-up itself short.                *)
RolledBack ==
    \A g \in failed \ excused :
        obj[g].mode \in {"streamed", "single"} =>
            \A s \in Stripes : file[g][s] = "none"
=============================================================================
