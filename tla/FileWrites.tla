----------------------------- MODULE FileWrites -----------------------------
(* The write and read paths of the I/O executors on one file system: tier A  *)
(* (a thread pool) and the write functions of tier B (io_uring).  Every      *)
(* writer fills "<path>.tmp" and renames it to the path.  They differ in     *)
(* whether they go on after a short write, notice one, sync, have padding to *)
(* cut off, and remove the .tmp file after an error: one record each, under  *)
(* Variant.                                                                  *)
(*                                                                           *)
(* A job is one request of a batch; an inode is named by the job that        *)
(* created it.  A file is of Size units; `has` is the set of units that hold *)
(* the caller's bytes.  Jobs of one path carry the same bytes (the upload of *)
(* one stripe of one generation, repeated): neither put_placement_chunk nor  *)
(* the executors keep two of them apart.                                     *)
EXTENDS Integers, FiniteSets, Sequences

CONSTANTS
    Paths, Calls, Jobs, Readers,
    PathOf,      \* job -> path
    CallOf,      \* job -> the batch it belongs to
    None,        \* no inode
    NoDirect,    \* paths on a file system that refuses O_DIRECT
    Size,        \* units in a file
    Ends,        \* the offsets at which a vectored write's segments end
    Workers,     \* number of threads
    Loads,       \* what is run: records [kind: job -> variant,
                 \*   padded: Size is not a multiple of the O_DIRECT block,
                 \*   sync: CS_SYNC_WRITES is set, shared: paths may be
                 \*   written by two jobs at once]
    MaxFaults    \* bound: errors, short writes and crashes

ASSUME FileAssumption ==
    /\ PathOf \in [Jobs -> Paths] /\ CallOf \in [Jobs -> Calls] /\ None \notin Jobs
    /\ Size \in Nat \ {0} /\ Workers \in Nat \ {0} /\ MaxFaults \in Nat
ASSUME LoadsAssumption ==
    Loads \subseteq [kind: [Jobs -> {"file", "vec", "aligned", "ringOne", "ringBatch",
                                    "ringVec", "ringAligned"}],
                     padded: BOOLEAN, sync: BOOLEAN, shared: BOOLEAN]
ASSUME EndsAssumption ==
    /\ Ends \in Seq(Nat) /\ Ends # <<>> /\ Ends[Len(Ends)] = Size
    /\ \A k, l \in DOMAIN Ends : k <= l => Ends[k] <= Ends[l]

VARIABLES
    load,    \* the load of this behaviour
    call,    \* batch -> "new", "wait" or "back"
    job,     \* job -> [pc, kind, fd, done]; "queued": in the pool's channel
    pos,     \* job -> <<segment, offset in it>> of a buffered vectored write
    tmp,     \* path -> inode of "<path>.tmp", or None
    final,   \* path -> inode of the path, or None
    node,    \* inode -> [len, has]
    rd,      \* reader -> [pc, path, of, stat, fd, got]; `of`: the inode sized
    published, \* history: inodes that got their final name
    mixed,   \* history: inodes two jobs had in hand
    cut,     \* history: <<inode, kind>>, a short write nobody noticed
    faults

vars == <<load, call, job, pos, tmp, final, node, rd, published, mixed, cut, faults>>

Units == 1 .. Size
Inodes == Jobs

-----------------------------------------------------------------------------
(* The write paths.  `cleans`: the failures after which .tmp is removed.     *)

WriteFileImpl == [direct |-> FALSE, loop |-> TRUE, checked |-> TRUE, ring |-> FALSE,
                  sync |-> "env", cleans |-> {}, buffered |-> "none"]
WriteVecImpl == [direct |-> TRUE, loop |-> TRUE, checked |-> TRUE, ring |-> FALSE,
                 sync |-> "env", cleans |-> {}, buffered |-> "vecBuffered"]
WriteVecBuffered == [direct |-> FALSE, loop |-> TRUE, checked |-> TRUE, ring |-> FALSE,
                     sync |-> "env", cleans |-> {}, buffered |-> "none"]
WriteAlignedImpl == [direct |-> TRUE, loop |-> TRUE, checked |-> TRUE, ring |-> FALSE,
                     sync |-> "env", cleans |-> {}, buffered |-> "plain"]
PlainWrite == [direct |-> FALSE, loop |-> TRUE, checked |-> TRUE, ring |-> FALSE,
               sync |-> "never", cleans |-> {}, buffered |-> "none"]
DoWriteOne == [direct |-> FALSE, loop |-> FALSE, checked |-> FALSE, ring |-> TRUE,
               sync |-> "always", cleans |-> {"write"}, buffered |-> "none"]
DoWriteBatch == [direct |-> FALSE, loop |-> FALSE, checked |-> FALSE, ring |-> TRUE,
                 sync |-> "always", cleans |-> {"push", "write", "sync"},
                 buffered |-> "none"]
(* Mutant: a short completion is not compared with the segments' length. *)
DoWriteVecBatchUnchecked ==
    [direct |-> FALSE, loop |-> FALSE, checked |-> FALSE, ring |-> TRUE,
     sync |-> "env", cleans |-> {"push", "write", "sync"}, buffered |-> "none"]
DoWriteVecBatch == [direct |-> FALSE, loop |-> FALSE, checked |-> TRUE, ring |-> TRUE,
                    sync |-> "env", cleans |-> {"push", "write", "sync"},
                    buffered |-> "none"]
DoWriteAlignedBatch == [direct |-> TRUE, loop |-> FALSE, checked |-> FALSE, ring |-> TRUE,
                        sync |-> "env", cleans |-> {"push", "write", "sync", "trunc"},
                        buffered |-> "plain"]

Variants ==
    [file |-> WriteFileImpl, vec |-> WriteVecImpl, vecBuffered |-> WriteVecBuffered,
     aligned |-> WriteAlignedImpl, plain |-> PlainWrite,
     ringOne |-> DoWriteOne, ringBatch |-> DoWriteBatch, ringVec |-> DoWriteVecBatch,
     ringAligned |-> DoWriteAlignedBatch]
Kinds == DOMAIN Variants
Variant(k) == Variants[k]

V(j) == Variant(job[j].kind)
Padded(j) == load.padded /\ V(j).direct
Syncs(j) == V(j).sync = "always" \/ (V(j).sync = "env" /\ load.sync)

Fault == faults < MaxFaults /\ faults' = faults + 1

-----------------------------------------------------------------------------
NewJob(k) == [pc |-> "new", kind |-> k, fd |-> None, done |-> 0]
NoRead == [pc |-> "idle", path |-> None, of |-> None, stat |-> 0, fd |-> None, got |-> {}]
Empty == [len |-> 0, has |-> {}]

Init ==
    /\ load \in Loads
    /\ call = [c \in Calls |-> "new"]
    /\ job = [j \in Jobs |-> NewJob(load.kind[j])]
    /\ pos = [j \in Jobs |-> <<1, 0>>]
    /\ tmp = [p \in Paths |-> None] /\ final = [p \in Paths |-> None]
    /\ node = [i \in Inodes |-> Empty]
    /\ rd = [q \in Readers |-> NoRead]
    /\ published = {} /\ mixed = {} /\ cut = {} /\ faults = 0

(* A job that has its .tmp file open, and one a thread is working on.  After *)
(* a failed submit ("late") the ring may still carry the write out.          *)
Holding(j) == job[j].pc \in {"write", "sync", "trunc", "rename", "late"}
Running(j) == job[j].pc \in {"open", "write", "sync", "trunc", "rename"}
Ended(j) == job[j].pc \in {"ok", "err", "late"}

(* write_batch and the others: every request goes into the channel, and the  *)
(* caller waits for all the answers.                                         *)
Submit(c) ==
    LET mine == {j \in Jobs : CallOf[j] = c} IN
    /\ call[c] = "new"
    /\ load.shared \/ \A j \in mine, k \in Jobs \ mine :
                          PathOf[j] = PathOf[k] => job[k].pc = "new" \/ Ended(k)
    /\ call' = [call EXCEPT ![c] = "wait"]
    /\ job' = [j \in Jobs |-> IF j \in mine THEN [job[j] EXCEPT !.pc = "queued"] ELSE job[j]]
    /\ UNCHANGED <<load, pos, tmp, final, node, rd, published, mixed, cut, faults>>

Return(c) ==
    /\ call[c] = "wait" /\ \A j \in Jobs : CallOf[j] = c => Ended(j)
    /\ call' = [call EXCEPT ![c] = "back"]
    /\ UNCHANGED <<load, job, pos, tmp, final, node, rd, published, mixed, cut, faults>>

(* Mutant: a thread that is not the first to be busy drops the job. *)
TakeOrDrop(j) ==
    /\ job[j].pc = "queued" /\ Cardinality({k \in Jobs : Running(k)}) < Workers
    /\ job' = [job EXCEPT ![j].pc = IF \E k \in Jobs : Running(k) THEN "new" ELSE "open"]
    /\ UNCHANGED <<load, call, pos, tmp, final, node, rd, published, mixed, cut, faults>>

(* A thread takes a job. *)
Take(j) ==
    /\ job[j].pc = "queued" /\ Cardinality({k \in Jobs : Running(k)}) < Workers
    /\ job' = [job EXCEPT ![j].pc = "open"]
    /\ UNCHANGED <<load, call, pos, tmp, final, node, rd, published, mixed, cut, faults>>

-----------------------------------------------------------------------------
(* One write. *)

Goes(j, pc) == job' = [job EXCEPT ![j].pc = pc]

(* create + truncate: a .tmp file that is there already is emptied, also     *)
(* under another job's hands.  EINVAL selects the buffered path.             *)
Open(j) ==
    LET p == PathOf[j]
        i == IF tmp[p] = None THEN j ELSE tmp[p]
        k == IF V(j).direct /\ p \in NoDirect THEN V(j).buffered ELSE job[j].kind
    IN
    /\ job[j].pc = "open"
    /\ tmp' = [tmp EXCEPT ![p] = i]
    /\ node' = [node EXCEPT ![i] = Empty]
    /\ job' = [job EXCEPT ![j].pc = "write", ![j].kind = k, ![j].fd = i]
    /\ mixed' = IF \E l \in Jobs \ {j} : Holding(l) /\ job[l].fd = i
                THEN mixed \cup {i} ELSE mixed
    /\ cut' = {x \in cut : x[1] # i}
    /\ UNCHANGED <<load, call, pos, final, rd, published, faults>>

(* What the next bytes go after: the padding of an O_DIRECT write ends up    *)
(* behind the last unit.                                                     *)
Grown(j, n) ==
    LET upto == job[j].done + n
        len == IF upto = Size /\ Padded(j) THEN Size + 1 ELSE upto
        old == node[job[j].fd].len
    IN IF old > len THEN old ELSE len

(* The length of segments a to b together. *)
LenSum(a, b) == (IF b = 0 THEN 0 ELSE Ends[b]) - (IF a = 1 THEN 0 ELSE Ends[a - 1])
(* Mutant: the part of the next segment that was written is forgotten. *)
ResumeAtStart(seg, off, n) ==
    LET rest == n - (LenSum(seg, seg) - off)
        ends == {k \in seg + 1 .. Len(Ends) + 1 :
                    k = Len(Ends) + 1 \/ rest < LenSum(seg + 1, k)}
    IN IF rest < 0 THEN <<seg, off + n>>
       ELSE <<CHOOSE k \in ends : \A l \in ends : k <= l, 0>>
(* Where write_vec_impl_buffered goes on after n bytes: in the segment it    *)
(* was in, or in the first later one that is not used up.                    *)
Resume(seg, off, n) ==
    LET avail == LenSum(seg, seg) - off
        rest == n - avail
        ends == {k \in seg + 1 .. Len(Ends) + 1 :
                    k = Len(Ends) + 1 \/ rest < LenSum(seg + 1, k)}
        next == CHOOSE k \in ends : \A l \in ends : k <= l
    IN IF n < avail THEN <<seg, off + n>>
       ELSE <<next, IF next <= Len(Ends) THEN rest - LenSum(seg + 1, next - 1) ELSE 0>>

(* One write call, or one submission entry, of n units.  A loop goes on      *)
(* where it stopped; a single submission that comes short is an error if the *)
(* completion is checked, and is taken for the whole otherwise.              *)
Write(j) ==
    \E n \in 0 .. Size - job[j].done :
        LET i == job[j].fd
            all == job[j].done + n = Size
        IN
        /\ job[j].pc = "write" /\ (n > 0 \/ ~V(j).loop)
        /\ node' = [node EXCEPT ![i] = [len |-> Grown(j, n),
                        has |-> @.has \cup job[j].done + 1 .. job[j].done + n]]
        /\ pos' = IF job[j].kind = "vecBuffered"
                  THEN [pos EXCEPT ![j] = Resume(@[1], @[2], n)] ELSE pos
        /\ IF all \/ V(j).loop THEN UNCHANGED faults ELSE Fault
        /\ IF all \/ V(j).loop \/ ~V(j).checked
           THEN /\ job' = [job EXCEPT
                        ![j].done = IF V(j).loop THEN @ + n ELSE Size,
                        ![j].pc = IF ~all /\ V(j).loop THEN "write"
                                  ELSE IF Syncs(j) THEN "sync"
                                  ELSE IF Padded(j) THEN "trunc" ELSE "rename"]
                /\ cut' = IF all \/ V(j).loop THEN cut ELSE cut \cup {<<i, job[j].kind>>}
                /\ UNCHANGED tmp
           ELSE /\ Goes(j, "err") /\ tmp' = [tmp EXCEPT ![PathOf[j]] = None]
                /\ UNCHANGED cut
        /\ UNCHANGED <<load, call, final, rd, published, mixed>>

(* Mutant: a synced file keeps its padding. *)
SyncNoTrunc(j) ==
    /\ job[j].pc = "sync"
    /\ Goes(j, "rename")
    /\ UNCHANGED <<load, call, pos, tmp, final, node, rd, published, mixed, cut, faults>>

Sync(j) ==
    /\ job[j].pc = "sync"
    /\ Goes(j, IF Padded(j) THEN "trunc" ELSE "rename")
    /\ UNCHANGED <<load, call, pos, tmp, final, node, rd, published, mixed, cut, faults>>

(* The .tmp name may stand for another job's inode by now; then neither that *)
(* one nor the nameless one j wrote is j's alone.                            *)
Touched(j) == IF tmp[PathOf[j]] \in {None, job[j].fd} THEN mixed
              ELSE mixed \cup {tmp[PathOf[j]], job[j].fd}

(* set_len drops the padding.  The file is opened again, by name. *)
Trunc(j) ==
    LET i == tmp[PathOf[j]] IN
    /\ job[j].pc = "trunc"
    /\ IF i = None THEN Goes(j, "err") /\ UNCHANGED node
       ELSE Goes(j, "rename") /\ node' = [node EXCEPT ![i].len = Size]
    /\ mixed' = Touched(j)
    /\ UNCHANGED <<load, call, pos, tmp, final, rd, published, cut, faults>>

Rename(j) ==
    LET p == PathOf[j] IN
    /\ job[j].pc = "rename"
    /\ IF tmp[p] = None THEN Goes(j, "err") /\ UNCHANGED <<tmp, final, published>>
       ELSE /\ Goes(j, "ok") /\ published' = published \cup {tmp[p]}
            /\ final' = [final EXCEPT ![p] = tmp[p]] /\ tmp' = [tmp EXCEPT ![p] = None]
    /\ mixed' = Touched(j)
    /\ UNCHANGED <<load, call, pos, node, rd, cut, faults>>

(* An error at any stage.  After a failed submit the entries stay in the     *)
(* ring, and the job's .tmp file stays behind.                               *)
Fails(j) ==
    \E stage \in {"open", "push", "submit", "write", "sync", "trunc", "rename"} :
        /\ Fault
        /\ job[j].pc = IF stage \in {"push", "submit"} THEN "write" ELSE stage
        /\ stage \in {"push", "submit"} => V(j).ring
        /\ Goes(j, IF stage = "submit" THEN "late" ELSE "err")
        /\ tmp' = IF stage \in V(j).cleans THEN [tmp EXCEPT ![PathOf[j]] = None] ELSE tmp
        /\ UNCHANGED <<load, call, pos, final, node, rd, published, mixed, cut>>

(* The kernel carries out a write whose buffer has been given back. *)
LateWrite(j) ==
    /\ job[j].pc = "late"
    /\ \E lost \in {{}, Units} :
        node' = [node EXCEPT ![job[j].fd].has = @ \ lost]
    /\ Goes(j, "err")
    /\ UNCHANGED <<load, call, pos, tmp, final, rd, published, mixed, cut, faults>>

(* The process dies: files stay as they are, .tmp files included. *)
Crash ==
    /\ Fault
    /\ call' = [c \in Calls |-> IF call[c] = "wait" THEN "back" ELSE call[c]]
    /\ job' = [j \in Jobs |-> IF job[j].pc \in {"new", "ok", "err"} THEN job[j]
                              ELSE [job[j] EXCEPT !.pc = "err"]]
    /\ rd' = [q \in Readers |-> NoRead]
    /\ UNCHANGED <<load, pos, tmp, final, node, published, mixed, cut>>

(* delete_file, from the collector or a roll-back. *)
Delete(p) ==
    /\ final[p] # None /\ final' = [final EXCEPT ![p] = None]
    /\ UNCHANGED <<load, call, job, pos, tmp, node, rd, published, mixed, cut, faults>>

-----------------------------------------------------------------------------
(* read_aligned_impl: the length from the path, then the file by name again, *)
(* then its bytes into a buffer of the pool; a file that ends early leaves   *)
(* what the buffer held before.                                              *)

ReadStat(q) ==
    /\ rd[q].pc = "idle"
    /\ \E p \in Paths :
        /\ final[p] # None
        /\ rd' = [rd EXCEPT ![q] = [pc |-> "stat", path |-> p, of |-> final[p],
                                    stat |-> node[final[p]].len, fd |-> None, got |-> {}]]
    /\ UNCHANGED <<load, call, job, pos, tmp, final, node, published, mixed, cut, faults>>

ReadOpen(q) ==
    /\ rd[q].pc = "stat"
    /\ rd' = IF final[rd[q].path] = None THEN [rd EXCEPT ![q] = NoRead]
             ELSE [rd EXCEPT ![q].pc = "read", ![q].fd = final[rd[q].path]]
    /\ UNCHANGED <<load, call, job, pos, tmp, final, node, published, mixed, cut, faults>>

ReadBytes(q) ==
    /\ rd[q].pc = "read"
    /\ rd' = [rd EXCEPT ![q].pc = "ok", ![q].got = {u \in node[rd[q].fd].has : u <= rd[q].stat}]
    /\ UNCHANGED <<load, call, job, pos, tmp, final, node, published, mixed, cut, faults>>

ReadDone(q) ==
    /\ rd[q].pc = "ok" /\ rd' = [rd EXCEPT ![q] = NoRead]
    /\ UNCHANGED <<load, call, job, pos, tmp, final, node, published, mixed, cut, faults>>

-----------------------------------------------------------------------------
Step(j) == Take(j) \/ Open(j) \/ Write(j) \/ Sync(j) \/ Trunc(j) \/ Rename(j)

Next ==
    \/ \E c \in Calls : Submit(c) \/ Return(c)
    \/ Crash
    \/ \E j \in Jobs : Step(j) \/ Fails(j) \/ LateWrite(j)
    \/ \E p \in Paths : Delete(p)
    \/ \E q \in Readers : ReadStat(q) \/ ReadOpen(q) \/ ReadBytes(q) \/ ReadDone(q)

Spec == Init /\ [][Next]_vars

(* The threads run: some job moves on, or a caller takes its answers. *)
Progress ==
    \/ \E j \in Jobs : Step(j)
    \/ \E c \in Calls : Return(c)

FairSpec == Spec /\ WF_vars(Progress)

-----------------------------------------------------------------------------
(* Properties. *)

Whole(i) == node[i].len = Size /\ node[i].has = Units

(* The paths that take a short completion for the whole. *)
Unchecked(i) == \E k \in {"ringOne", "ringBatch", "ringAligned"} : <<i, k>> \in cut

(* Write to .tmp, then rename: a file that got its final name is complete    *)
(* and of its exact length, and stays so for whoever still has it open,      *)
(* through errors, short writes and crashes, whichever path wrote it.  Known *)
(* exceptions: two jobs had the same .tmp file in hand, or one of the        *)
(* io_uring paths that do not look at the length of a completion was given a *)
(* short one.                                                                *)
PublishedWhole ==
    \A i \in published : Whole(i) \/ i \in mixed \/ Unchecked(i)

(* read_aligned_impl sizes its answer before it opens the file: the answer   *)
(* is nevertheless one whole file, and never what a pooled buffer held       *)
(* before, with the same exceptions.                                         *)
ReadWhole ==
    \A q \in Readers : rd[q].pc = "ok" =>
        \/ rd[q].stat = Size /\ rd[q].got = Units
        \/ \E i \in {rd[q].of, rd[q].fd} : i \in mixed \/ Unchecked(i)

(* After any series of partial writes, write_vec_impl_buffered goes on with  *)
(* the first byte that has not been written: it stands inside a segment, and *)
(* the segments before that and its offset add up to the bytes written.      *)
ResumeExact ==
    \A j \in Jobs : job[j].kind = "vecBuffered" /\ job[j].pc = "write" =>
        LET seg == pos[j][1]
            off == pos[j][2]
        IN /\ seg \in DOMAIN Ends /\ off \in 0 .. LenSum(seg, seg)
           /\ LenSum(1, seg - 1) + off = job[j].done

(* Every batch is answered. *)
BatchesEnd == \A c \in Calls : call[c] = "wait" ~> call[c] = "back"
=============================================================================
