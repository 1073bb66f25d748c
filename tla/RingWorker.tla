----------------------------- MODULE RingWorker -----------------------------
(* Tier B of the I/O executors, the read side: one worker thread and one     *)
(* io_uring per device.  Callers put jobs into the worker's channel; the     *)
(* worker opens files, pushes submission entries, waits for completions and  *)
(* reports every request.  All jobs of a device use the same ring, and a     *)
(* completion is told apart by <<index in the job, chunk>> alone.  (The      *)
(* write jobs go through the same channel; FileWrites models what they do to *)
(* files.)                                                                   *)
EXTENDS Integers, FiniteSets, SequencesExt

CONSTANTS
    Devices, Requests, Calls,
    DevOf,       \* request -> device of its path
    ChunksOf,    \* request -> number of submission entries of an O_DIRECT read
    CallOf,      \* request -> call
    Loads,       \* what is run: records [kind: call -> kind, depth: device -> Nat]
    NoDirect,    \* devices whose file system refuses O_DIRECT
    DepthFloor,  \* the 8 of ring_capacity.max(8) / 2
    StreamShare, \* the 4 of depth / 4
    MaxFaults    \* bound: failed opens, reads, submits, ring set-ups

ASSUME RingAssumption ==
    /\ DevOf \in [Requests -> Devices] /\ CallOf \in [Requests -> Calls]
    /\ ChunksOf \in [Requests -> Nat]
    /\ DepthFloor \in Nat \ {0} /\ StreamShare \in Nat \ {0} /\ MaxFaults \in Nat

VARIABLES
    load,    \* the load of this behaviour
    call,    \* call -> "new" or "sent"
    shut,    \* the executor was dropped
    queue,   \* device -> its channel: sequence of [kind, reqs]
    wk,      \* device -> the worker, see Idle
    sq, flight, cq,  \* device -> entries pushed, with the kernel, completed
    placed,  \* <<request, chunk>> whose bytes are in the request's buffer
    freed,   \* requests whose buffer was given up before they were reported
    rep,     \* request -> [st, n]: what was reported, and the count in an Ok
    torn,    \* history: devices on which a submit has failed
    faults

caller == <<load, call, shut>>
ring == <<sq, flight, cq>>
vars == <<caller, queue, wk, ring, placed, freed, rep, torn, faults>>

Max2(a, b) == IF a > b THEN a ELSE b
Depth(d) == load.depth[d]
BatchSize(d) == Max2(Depth(d), DepthFloor) \div 2
MaxBatch(d) == Max2(Depth(d) \div StreamShare, 1)

Fault == faults < MaxFaults /\ faults' = faults + 1

(* todo: entries <<i, s>> not pushed yet; cur: the request of the last push; *)
(* win: entries of this window; pushed: entries to wait for; left, got:      *)
(* chunks of request i outstanding and read; bad, fired: requests that       *)
(* failed, were reported.                                                    *)
Idle == [pc |-> "idle", kind |-> "none", reqs |-> <<>>, todo |-> <<>>, cur |-> 0,
         win |-> 0, pushed |-> 0, left |-> <<>>, got |-> <<>>, bad |-> {}, fired |-> {}]

Init ==
    /\ load \in Loads /\ call = [c \in Calls |-> "new"] /\ shut = FALSE
    /\ queue = [d \in Devices |-> <<>>]
    /\ wk = [d \in Devices |-> [Idle EXCEPT !.pc = "init"]]
    /\ sq = [d \in Devices |-> <<>>] /\ flight = [d \in Devices |-> {}]
    /\ cq = [d \in Devices |-> <<>>]
    /\ placed = {} /\ freed = {} /\ torn = {} /\ faults = 0
    /\ rep = [r \in Requests |-> [st |-> "none", n |-> 0]]

-----------------------------------------------------------------------------
(* Callers.  A batch is one job per device; each request of a stream is a    *)
(* job of its own.  Where the worker has gone the send fails.                *)

Dead(d) == wk[d].pc = "dead"
Errors(rs) == [r \in Requests |-> IF r \in rs /\ rep[r].st = "none"
                                  THEN [st |-> "err", n |-> 0] ELSE rep[r]]

Send(c, jobs) ==
    /\ call[c] = "new" /\ ~shut
    /\ call' = [call EXCEPT ![c] = "sent"]
    /\ queue' = [d \in Devices |-> IF Dead(d) THEN queue[d] ELSE queue[d] \o jobs[d]]
    /\ rep' = Errors({r \in Requests : CallOf[r] = c /\ Dead(DevOf[r])})
    /\ UNCHANGED <<load, shut, wk, ring, placed, freed, torn, faults>>

GroupByDevice(c, d) ==
    SetToSortSeq({r \in Requests : CallOf[r] = c /\ DevOf[r] = d}, LAMBDA a, b : a < b)
Grouped(c, kind) ==
    Send(c, [d \in Devices |-> IF GroupByDevice(c, d) = <<>> THEN <<>>
                               ELSE << [kind |-> kind, reqs |-> GroupByDevice(c, d)] >>])
Single(c, kind) ==
    Send(c, [d \in Devices |-> [i \in DOMAIN GroupByDevice(c, d) |->
                                    [kind |-> kind, reqs |-> <<GroupByDevice(c, d)[i]>>]]])

ReadFile(c) == load.kind[c] = "one" /\ Single(c, "one")
ReadBatch(c) == load.kind[c] = "batch" /\ Grouped(c, "batch")
ReadAlignedIntoPtrBatch(c) == load.kind[c] = "ptr" /\ Grouped(c, "ptr")
ReadAlignedIntoPtrStream(c) == load.kind[c] = "stream" /\ Single(c, "stream")
ReadAlignedBatch(c) == load.kind[c] = "aligned" /\ Grouped(c, "aligned")

(* Blocking calls have returned; a stream's receiver may still be waiting. *)
DropExecutor ==
    /\ ~shut /\ shut' = TRUE
    /\ \A r \in Requests : call[CallOf[r]] = "sent" /\ load.kind[CallOf[r]] # "stream"
                               => rep[r].st # "none"
    /\ queue' = [d \in Devices |-> IF Dead(d) THEN <<>>
                                   ELSE Append(queue[d], [kind |-> "shutdown", reqs |-> <<>>])]
    /\ UNCHANGED <<load, call, wk, ring, placed, freed, rep, torn, faults>>

-----------------------------------------------------------------------------
(* The worker. *)

(* The thread ends: what is in its channel is dropped, and the callers see   *)
(* their answer channels close.                                              *)
Queued(d) == UNION {ToSet(queue[d][i].reqs) : i \in DOMAIN queue[d]}
Dies(d, w) ==
    /\ wk' = [wk EXCEPT ![d] = [Idle EXCEPT !.pc = "dead"]]
    /\ queue' = [queue EXCEPT ![d] = <<>>]
    /\ rep' = Errors(Queued(d) \cup ToSet(w.reqs))

RingInit(d) ==
    /\ wk[d].pc = "init"
    /\ \/ wk' = [wk EXCEPT ![d] = Idle] /\ UNCHANGED <<queue, rep, faults>>
       \/ Fault /\ Dies(d, wk[d])
    /\ UNCHANGED <<caller, ring, placed, freed, torn>>

(* The results of requests that are settled for worker state w. *)
Result(w, i) == IF i \in w.bad THEN [st |-> "err", n |-> 0] ELSE [st |-> "ok", n |-> w.got[i]]
Report(w, is) ==
    rep' = [r \in Requests |-> IF \E i \in is : w.reqs[i] = r
                               THEN Result(w, CHOOSE i \in is : w.reqs[i] = r) ELSE rep[r]]

(* Only the incremental read reports before the job is over. *)
Incremental(w) == w.kind \in {"ptr", "stream"}
FireOnError(w) ==  \* mutant: a failed request does not wait for its other chunks
    IF Incremental(w) THEN {i \in DOMAIN w.reqs \ w.fired : w.left[i] = 0 \/ i \in w.bad} ELSE {}
Fire(w) == IF Incremental(w) THEN {i \in DOMAIN w.reqs \ w.fired : w.left[i] = 0} ELSE {}

(* maybe_fire. *)
Settle(d, w) ==
    /\ wk' = [wk EXCEPT ![d] = [w EXCEPT !.fired = @ \cup Fire(w)]]
    /\ Report(w, Fire(w))

(* The stream jobs that are already queued are read together; the first      *)
(* other job stays for the next round.                                       *)
Aggregated(d) ==
    LET q == queue[d]
        most == IF q[1].kind = "stream" THEN MaxBatch(d) ELSE 1
        k == CHOOSE m \in 1 .. Len(q) :
                /\ m <= most /\ (\A i \in 1 .. m : q[i].kind = q[1].kind)
                /\ m = most \/ m = Len(q) \/ q[m + 1].kind # q[1].kind
    IN [kind |-> q[1].kind, reqs |-> FlattenSeq([i \in 1 .. k |-> q[i].reqs]), taken |-> k]

(* Where O_DIRECT is refused, the aligned read is one do_read_one after the  *)
(* other.                                                                    *)
Kind(d, kind) == IF kind = "aligned" /\ d \in NoDirect THEN "one" ELSE kind

(* Phase 1: the files are opened and one entry is planned per chunk; bad are *)
(* the requests whose open or alignment check fails.  Where O_DIRECT is      *)
(* refused, an incremental request is read through the page cache at once.   *)
Buffered(d, job, bad) ==
    IF Incremental(job) /\ d \in NoDirect THEN DOMAIN job.reqs \ bad ELSE {}
Entries(d, job, i) ==
    IF Kind(d, job.kind) \in {"one", "batch"} THEN 1 ELSE ChunksOf[job.reqs[i]]
Plan(d, job, bad) ==
    LET at == Buffered(d, job, bad)
        chunks == [i \in DOMAIN job.reqs |->
                      IF i \in bad \cup at THEN 0 ELSE Entries(d, job, i)]
    IN [Idle EXCEPT !.pc = "push", !.kind = Kind(d, job.kind), !.reqs = job.reqs,
            !.bad = bad, !.left = chunks,
            !.got = [i \in DOMAIN job.reqs |-> IF i \in at THEN Entries(d, job, i) ELSE 0],
            !.todo = FlattenSeq([i \in DOMAIN job.reqs |-> [s \in 1 .. chunks[i] |-> <<i, s>>]])]

Take(d) ==
    /\ wk[d].pc = "idle" /\ queue[d] # <<>> /\ queue[d][1].kind # "shutdown"
    /\ \E job \in {Aggregated(d)} : \E bad \in {{}} \cup {{i} : i \in DOMAIN job.reqs} :
        /\ IF bad = {} THEN UNCHANGED faults ELSE Fault
        /\ \E w \in {Plan(d, job, bad)} : Settle(d, w)
        /\ placed' = placed \cup UNION {{<<job.reqs[i], s>> : s \in 1 .. Entries(d, job, i)} :
                                            i \in Buffered(d, job, bad)}
        /\ queue' = [queue EXCEPT ![d] = SubSeq(@, job.taken + 1, Len(@))]
    /\ UNCHANGED <<caller, ring, freed, torn>>

Shutdown(d) ==
    /\ wk[d].pc = "idle" /\ queue[d] # <<>> /\ queue[d][1].kind = "shutdown"
    /\ Dies(d, wk[d])
    /\ UNCHANGED <<caller, ring, placed, freed, torn, faults>>

(* A window: one read, all of a batch, BatchSize entries of an aligned read, *)
(* BatchSize in flight for an incremental one.                               *)
WindowOpen(d) ==
    LET w == wk[d] IN
    /\ w.todo # <<>>
    /\ w.kind = "one" => w.win < 1
    /\ w.kind \in {"aligned", "ptr", "stream"} => w.win < BatchSize(d)

(* user_data, and the request a completion is counted for (0: none). *)
UserData(w, e) ==
    CASE w.kind = "one" -> <<0, 0>>
      [] w.kind = "batch" -> <<0, e[1] - 1>>
      [] OTHER -> <<e[1] - 1, e[2] - 1>>
IndexOf(w, ud) ==
    CASE w.kind = "one" -> w.cur
      [] w.kind = "batch" -> IF ud[1] = 0 THEN ud[2] + 1 ELSE 0
      [] OTHER -> ud[1] + 1

(* One entry is pushed, or skipped because its request has failed, or finds  *)
(* the submission queue full, which fails the request: the aligned read      *)
(* gives its buffer up there and then.                                       *)
Push(d) ==
    LET w == wk[d]
        e == Head(w.todo)
        i == e[1]
        skip == i \in w.bad
        room == Len(sq[d]) < Depth(d)
        after == [w EXCEPT !.todo = Tail(@), !.cur = i,
                    !.win = IF w.kind = "aligned" \/ (~skip /\ room) THEN @ + 1 ELSE @,
                    !.pushed = IF ~skip /\ room THEN @ + 1 ELSE @,
                    !.left = IF skip \/ ~room THEN [@ EXCEPT ![i] = @ - 1] ELSE @,
                    !.bad = IF skip \/ room THEN @ ELSE @ \cup {i}]
    IN
    /\ w.pc = "push" /\ WindowOpen(d)
    /\ sq' = IF ~skip /\ room
             THEN [sq EXCEPT ![d] = Append(@, [ud |-> UserData(w, e), req |-> w.reqs[i], chunk |-> e[2]])]
             ELSE sq
    /\ freed' = IF ~skip /\ ~room /\ w.kind = "aligned" THEN freed \cup {w.reqs[i]} ELSE freed
    /\ \E v \in {after} : Settle(d, v)
    /\ UNCHANGED <<caller, queue, flight, cq, placed, torn, faults>>

(* submit_and_wait: the entries go to the kernel. *)
Submit(d) ==
    /\ wk[d].pc = "push" /\ ~WindowOpen(d) /\ wk[d].pushed > 0
    /\ wk' = [wk EXCEPT ![d].pc = "wait"]
    /\ flight' = [flight EXCEPT ![d] = @ \cup ToSet(sq[d])]
    /\ sq' = [sq EXCEPT ![d] = <<>>]
    /\ UNCHANGED <<caller, queue, cq, placed, freed, rep, torn, faults>>

(* It returns an error, with the entries still queued or already in flight.  *)
(* The single read fails; otherwise the job ends, and what it has not        *)
(* reported fails (for the aligned read, what has a buffer).  The ring is    *)
(* used again as it is.                                                      *)
SubmitFails(d) ==
    LET w == wk[d]
        hit == IF w.kind = "one" THEN {w.cur}
               ELSE {i \in DOMAIN w.reqs : w.kind = "aligned" => ChunksOf[w.reqs[i]] > 0}
        v == [w EXCEPT !.bad = @ \cup hit, !.pc = "push", !.win = 0, !.pushed = 0]
    IN
    /\ Fault
    /\ \/ w.pc = "wait"
       \/ w.pc = "push" /\ ~WindowOpen(d) /\ w.pushed > 0
    /\ torn' = torn \cup {d}
    /\ wk' = [wk EXCEPT ![d] = IF w.kind = "one" THEN v ELSE [v EXCEPT !.todo = <<>>]]
    /\ UNCHANGED <<caller, queue, ring, placed, freed, rep>>

(* The kernel, in any order: bytes are read, or an error, or the file ended. *)
Complete(d) ==
    \E e \in flight[d], res \in {"ok", "err", "short"} :
        /\ IF res = "ok" THEN UNCHANGED faults ELSE Fault
        /\ flight' = [flight EXCEPT ![d] = @ \ {e}]
        /\ cq' = [cq EXCEPT ![d] = Append(@, [ud |-> e.ud, res |-> res])]
        /\ placed' = IF res = "ok" THEN placed \cup {<<e.req, e.chunk>>} ELSE placed
        /\ UNCHANGED <<caller, queue, wk, sq, freed, rep, torn>>

(* Completions to wait for: all that were pushed, or the first one. *)
WantPlanned(w) == Len(w.reqs) + 1  \* mutant: counts entries that were never pushed
Want(w) == IF w.kind \in {"batch", "aligned"} THEN w.pushed ELSE 1

(* do_read_one looks at the first completion only; the others drain the      *)
(* queue.  A completion of an index the job does not have is passed over.    *)
Reap(d) ==
    LET w == wk[d]
        seen == IF w.kind = "one" THEN SubSeq(cq[d], 1, 1) ELSE cq[d]
        n == Len(seen)
        of(i, res) == Cardinality({k \in 1 .. n : IndexOf(w, seen[k].ud) = i /\ seen[k].res \in res})
        after == [w EXCEPT !.pc = "push",
                !.left = [i \in DOMAIN w.reqs |-> @[i] - of(i, {"ok", "err", "short"})],
                !.got = [i \in DOMAIN w.reqs |-> @[i] + of(i, {"ok"})],
                !.bad = @ \cup {i \in DOMAIN w.reqs : of(i, {"err"}) > 0},
                !.win = IF Incremental(w) THEN Max2(@ - n, 0) ELSE 0,
                !.pushed = IF Incremental(w) THEN Max2(@ - n, 0) ELSE 0]
    IN
    /\ w.pc = "wait" /\ Len(cq[d]) >= Want(w)
    /\ cq' = [cq EXCEPT ![d] = SubSeq(@, n + 1, Len(@))]
    /\ \E v \in {after} :
        /\ \/ Settle(d, v) /\ UNCHANGED queue
           \/ /\ Incremental(w) /\ \E i \in DOMAIN w.reqs : v.left[i] < 0  \* overflow check
              /\ Dies(d, w)
        /\ freed' = IF w.kind = "aligned" THEN freed \cup {w.reqs[i] : i \in v.bad \ w.bad} ELSE freed
    /\ UNCHANGED <<caller, sq, flight, placed, torn, faults>>

(* Nothing to push and nothing to wait for. *)
Finish(d) ==
    LET w == wk[d] IN
    /\ w.pc = "push" /\ w.todo = <<>> /\ w.pushed = 0
    /\ Report(w, DOMAIN w.reqs \ w.fired)
    /\ wk' = [wk EXCEPT ![d] = Idle]
    /\ UNCHANGED <<caller, queue, ring, placed, freed, torn, faults>>

(* A window of which nothing could be pushed. *)
NextWindow(d) ==
    /\ wk[d].pc = "push" /\ ~WindowOpen(d) /\ wk[d].todo # <<>> /\ wk[d].pushed = 0
    /\ wk' = [wk EXCEPT ![d].win = 0]
    /\ UNCHANGED <<caller, queue, ring, placed, freed, rep, torn, faults>>

-----------------------------------------------------------------------------
Worker(d) ==
    \/ RingInit(d) \/ Take(d) \/ Shutdown(d) \/ Push(d) \/ Submit(d)
    \/ Reap(d) \/ Finish(d) \/ NextWindow(d)
Caller(c) ==
    \/ ReadFile(c) \/ ReadBatch(c) \/ ReadAlignedIntoPtrBatch(c)
    \/ ReadAlignedIntoPtrStream(c) \/ ReadAlignedBatch(c)

Next ==
    \/ \E c \in Calls : Caller(c)
    \/ \E d \in Devices : Worker(d) \/ SubmitFails(d) \/ Complete(d)
    \/ DropExecutor

(* The threads run and the kernel completes what it was given. *)
Progress == \E d \in Devices : Worker(d) \/ Complete(d)

Spec == Init /\ [][Next]_vars
FairSpec == Spec /\ WF_vars(Progress)

-----------------------------------------------------------------------------
(* Properties. *)

InRing(d, r) == \E e \in flight[d] \cup ToSet(sq[d]) : e.req = r

(* A result is final: when a request has been reported, or its buffer freed, *)
(* the kernel has nothing of it left that could write into that memory (the  *)
(* slab extent goes to RDMA, or to another request), and the length in an Ok *)
(* is that of the bytes that are in place.  Nothing is said of a device      *)
(* after one of its submits has failed, nor of buffers freed on a ring that  *)
(* is smaller than a window.                                                 *)
Settled ==
    \A r \in Requests : DevOf[r] \notin torn =>
        /\ InRing(DevOf[r], r) =>
               /\ rep[r].st = "none"
               /\ r \in freed => Depth(DevOf[r]) < BatchSize(DevOf[r])
        /\ rep[r].st = "ok" => rep[r].n = Cardinality({x \in placed : x[1] = r})

(* Every request is answered, also when a submit fails, when completions of  *)
(* an earlier job are still about, when the ring cannot be set up and when   *)
(* the executor is dropped behind a stream.                                  *)
AllAnswered == \A r \in Requests : call[CallOf[r]] = "sent" ~> rep[r].st # "none"
=============================================================================
