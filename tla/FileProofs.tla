----------------------------- MODULE FileProofs -----------------------------
(* For every number of files, jobs, threads and faults, and every mixture of *)
(* write paths: a file under its final name is whole, and so is what a read  *)
(* returns, but for the two exceptions PublishedWhole names.                 *)
EXTENDS FileWrites, WellFoundedInduction, TLAPS

(* Time limits of the provers, for a busy machine. *)
USE ZenonT(10), SMTT(15)

Pcs == {"new", "queued", "open", "write", "sync", "trunc", "rename", "ok", "err", "late"}
Excused(i) == i \in mixed \/ Unchecked(i)
Started(j) == job[j].pc \notin {"new", "queued", "open"}

JobRec == [pc: Pcs, kind: Kinds, fd: Jobs \cup {None}, done: 0 .. Size]
NodeRec == [len: Nat, has: SUBSET Units]
RdRec == [pc: {"idle", "stat", "read", "ok"}, path: Paths \cup {None},
          of: Jobs \cup {None}, stat: Nat, fd: Jobs \cup {None}, got: SUBSET Units]

(* The inductive invariant. *)
Typed ==
    /\ job \in [Jobs -> JobRec]
    /\ call \in [Calls -> {"new", "wait", "back"}]
    /\ tmp \in [Paths -> Jobs \cup {None}]
    /\ node \in [Jobs -> NodeRec]
    /\ published \subseteq Jobs /\ final \in [Paths -> published \cup {None}]

(* A batch that is not submitted has not begun, and nothing is written by a  *)
(* job that has not opened its file.                                         *)
Unsubmitted ==
    /\ \A j \in Jobs : call[CallOf[j]] = "new" => job[j].pc = "new"
    /\ \A j \in Jobs : ~Started(j) => job[j].done = 0

(* An inode exists from the step in which the job it is named after opens    *)
(* its file; a .tmp name stands for an inode that has no other name.         *)
Created ==
    /\ \A p \in Paths : tmp[p] # None => Started(tmp[p])
    /\ \A i \in published : Started(i)
    /\ \A j \in Jobs : Holding(j) => job[j].fd \in Jobs /\ Started(job[j].fd)
OneName ==
    /\ \A p \in Paths : tmp[p] \notin published
    /\ \A p, q \in Paths : tmp[p] = tmp[q] /\ tmp[p] # None => p = q

(* One job at a time has an inode in hand, and none once it is published. *)
Alone ==
    /\ \A j, k \in Jobs : Holding(j) /\ Holding(k) /\ job[j].fd = job[k].fd
                              => j = k \/ job[j].fd \in mixed
    /\ \A j \in Jobs : Holding(j) /\ job[j].fd \in published => job[j].fd \in mixed

(* What a job has written at each stage. *)
Filled(j) ==
    LET f == node[job[j].fd] IN
    /\ job[j].pc = "write" => job[j].done < Size /\ f.len = job[j].done
                              /\ f.has = 1 .. job[j].done
    /\ job[j].pc = "sync" => f.has = Units /\ (Padded(j) \/ f.len = Size)
    /\ job[j].pc = "trunc" => f.has = Units
    /\ job[j].pc = "rename" => f.has = Units /\ f.len = Size
AllFilled == \A j \in Jobs : Holding(j) => Filled(j) \/ Excused(job[j].fd)

FileInv ==
    Typed /\ Unsubmitted /\ Created /\ OneName /\ Alone /\ AllFilled /\ PublishedWhole

(* What a step leaves to those who have a published file open. *)
Keeps ==
    /\ published \subseteq published'
    /\ \A i \in published : Excused(i) => Excused(i)'
    /\ \A i \in published : node'[i] = node[i] \/ Excused(i)'

-----------------------------------------------------------------------------
(* The table of write paths. *)
LEMMA KindNames ==
    Kinds = {"file", "vec", "vecBuffered", "aligned", "plain",
             "ringOne", "ringBatch", "ringVec", "ringAligned"}
  BY DEF Kinds, Variants

LEMMA BufferedKind ==
    ASSUME NEW k \in Kinds, Variant(k).direct
    PROVE  Variant(k).buffered \in Kinds
<1>1. /\ Variant("file").direct = FALSE /\ Variant("vecBuffered").direct = FALSE
      /\ Variant("plain").direct = FALSE /\ Variant("ringOne").direct = FALSE
      /\ Variant("ringBatch").direct = FALSE /\ Variant("ringVec").direct = FALSE
  BY DEF Variant, Variants, WriteFileImpl, WriteVecBuffered, PlainWrite, DoWriteOne,
         DoWriteBatch, DoWriteVecBatch
<1>2. k \in {"vec", "aligned", "ringAligned"}
  BY <1>1, KindNames
<1> QED
  BY SMTT(15), <1>2, KindNames DEF Variant, Variants, WriteVecImpl, WriteAlignedImpl, DoWriteAlignedBatch

LEMMA UncheckedKind ==
    ASSUME NEW k \in Kinds, ~Variant(k).loop, ~Variant(k).checked
    PROVE  k \in {"ringOne", "ringBatch", "ringAligned"}
<1>1. /\ Variant("file").loop = TRUE /\ Variant("vecBuffered").loop = TRUE
      /\ Variant("plain").loop = TRUE /\ Variant("vec").loop = TRUE
      /\ Variant("aligned").loop = TRUE /\ Variant("ringVec").checked = TRUE
  BY DEF Variant, Variants, WriteFileImpl, WriteVecBuffered, PlainWrite, WriteVecImpl,
         WriteAlignedImpl, DoWriteVecBatch
<1> QED
  BY <1>1, KindNames

(* A job that only moves on. *)
LEMMA JobMoves ==
    ASSUME job \in [Jobs -> JobRec], NEW j \in Jobs, NEW to \in Pcs,
           job' = [job EXCEPT ![j].pc = to]
    PROVE  /\ job' \in [Jobs -> JobRec]
           /\ \A k \in Jobs \ {j} : job'[k] = job[k]
           /\ job'[j].pc = to /\ job'[j].fd = job[j].fd /\ job'[j].done = job[j].done
           /\ job'[j].kind = job[j].kind
<1>1. job[j] \in JobRec
  OBVIOUS
<1>2. /\ [job[j] EXCEPT !.pc = to] \in JobRec
      /\ [job[j] EXCEPT !.pc = to].pc = to
      /\ [job[j] EXCEPT !.pc = to].fd = job[j].fd
      /\ [job[j] EXCEPT !.pc = to].done = job[j].done
      /\ [job[j] EXCEPT !.pc = to].kind = job[j].kind
  BY <1>1 DEF JobRec
<1> QED
  BY <1>2

LEMMA InitFile == Init => FileInv
<1> SUFFICES ASSUME Init PROVE FileInv
  OBVIOUS
<1> USE FileAssumption
<1>1. load.kind \in [Jobs -> Kinds]
  BY KindNames, LoadsAssumption DEF Init
<1>2. \A j \in Jobs : job[j] = [pc |-> "new", kind |-> load.kind[j], fd |-> None, done |-> 0]
  BY DEF Init, NewJob
<1>3. job \in [Jobs -> JobRec]
  BY SMTT(15), <1>1 DEF Init, NewJob, Pcs, JobRec
<1>4. Typed
  BY <1>3 DEF Init, Typed, Inodes, Empty, NodeRec
<1>5. \A j \in Jobs : job[j].pc = "new" /\ job[j].done = 0
  BY DEF Init, NewJob
<1>6. Unsubmitted /\ Created /\ OneName /\ Alone /\ AllFilled /\ PublishedWhole
  BY <1>5 DEF Unsubmitted, Created, OneName, Alone, AllFilled, PublishedWhole, Init,
              Holding
<1> QED
  BY <1>4, <1>6 DEF FileInv

(* A step in which no inode changes and no job gets hold of one. *)
LEMMA LettingGo ==
    ASSUME FileInv, Typed', Unsubmitted', UNCHANGED <<load, node, published, mixed, cut>>,
           \A p \in Paths : tmp'[p] \in {tmp[p], None},
           \A j \in Jobs : /\ Started(j) => Started(j)'
                           /\ Holding(j)' => /\ Holding(j) /\ job'[j].fd = job[j].fd
                                             /\ Filled(j) => Filled(j)'
    PROVE  FileInv' /\ Keeps
<1>1. \A i : Excused(i) <=> Excused(i)'
  BY DEF Excused, Unchecked
<1>2. Created'
  BY FileAssumption DEF FileInv, Typed, Created
<1>3. OneName'
  BY FileAssumption DEF FileInv, Typed, OneName
<1>4. Alone'
  BY DEF FileInv, Alone
<1>5. AllFilled'
  BY <1>1 DEF FileInv, AllFilled
<1>6. PublishedWhole'
  BY DEF FileInv, PublishedWhole, Whole, Unchecked
<1> QED
  BY <1>1, <1>2, <1>3, <1>4, <1>5, <1>6 DEF FileInv, Keeps

(* A step of the callers or the readers. *)
LEMMA QuietFile ==
    ASSUME FileInv, UNCHANGED <<load, job, tmp, node, published, mixed, cut>>,
           final' \in [Paths -> published \cup {None}],
           call' \in [Calls -> {"new", "wait", "back"}],
           \A j \in Jobs : call'[CallOf[j]] = "new" => call[CallOf[j]] = "new"
    PROVE  FileInv' /\ Keeps
<1>1. Typed' /\ Unsubmitted'
  BY DEF FileInv, Typed, Unsubmitted, Started
<1>2. \A j \in Jobs : /\ Holding(j) <=> Holding(j)'
                      /\ Started(j) => Started(j)'
                      /\ Filled(j) => Filled(j)'
  BY DEF Holding, Started, Filled, Padded, V
<1> QED
  BY <1>1, <1>2, LettingGo

LEMMA SubmitFile ==
    ASSUME FileInv, NEW c \in Calls, Submit(c)
    PROVE  FileInv' /\ Keeps
<1> USE FileAssumption
<1>1. \A j \in Jobs : /\ CallOf[j] = c => /\ job[j].pc = "new"
                                          /\ job'[j] = [job[j] EXCEPT !.pc = "queued"]
                      /\ CallOf[j] # c => job'[j] = job[j]
  BY DEF FileInv, Unsubmitted, Submit
<1> USE <1>1
<1>2. job' \in [Jobs -> JobRec]
  BY SMTT(15) DEF FileInv, Typed, Submit, Pcs, JobRec
<1>3. UNCHANGED <<load, tmp, final, node, published, mixed, cut>>
  BY DEF Submit
<1> USE <1>3
<1>4. \A j \in Jobs : CallOf[j] = c => job'[j].pc = "queued" /\ job'[j].done = job[j].done
  BY SMTT(15) DEF FileInv, Typed, Submit
<1>5. \A j \in Jobs : /\ Started(j) => Started(j)'
                      /\ Holding(j)' => Holding(j) /\ job'[j] = job[j]
  BY <1>4 DEF Holding, Started
<1>6. \A j \in Jobs : job'[j] = job[j] => (Filled(j) => Filled(j)')
  BY DEF Filled, Padded, V
<1>7. call' = [call EXCEPT ![c] = "wait"]
  BY DEF Submit
<1>8. Typed'
  BY <1>2, <1>7 DEF FileInv, Typed
<1>9. Unsubmitted'
  <2>1. \A j \in Jobs : call'[CallOf[j]] = "new" => job'[j].pc = "new"
    BY <1>7 DEF FileInv, Typed, Unsubmitted
  <2>2. ASSUME NEW j \in Jobs, ~Started(j)' PROVE job'[j].done = 0
    <3>1. CASE CallOf[j] = c
      BY <3>1, <1>4 DEF FileInv, Unsubmitted, Started
    <3>2. CASE CallOf[j] # c
      BY <3>2, <2>2 DEF FileInv, Unsubmitted, Started
    <3> QED
      BY <3>1, <3>2
  <2> QED
    BY <2>1, <2>2 DEF Unsubmitted
<1> QED
  BY <1>5, <1>6, <1>8, <1>9, LettingGo DEF FileInv, Typed

(* The step of one job that changes only its pc, and may drop the .tmp name. *)
LEMMA PcStep ==
    ASSUME FileInv, NEW j \in Jobs, NEW to \in Pcs, Goes(j, to),
           UNCHANGED <<load, call, final, node, published, mixed, cut>>,
           tmp' \in [Paths -> Jobs \cup {None}],
           \A p \in Paths : tmp'[p] \in {tmp[p], None},
           job[j].pc # "new",
           to \in {"open", "ok", "err", "late", "trunc", "rename"},
           to = "open" => ~Started(j),
           to \in {"trunc", "rename", "late"} => Holding(j),
           to = "trunc" => (Filled(j) => node[job[j].fd].has = Units),
           to = "rename" => (Filled(j) => /\ node[job[j].fd].has = Units
                                          /\ node[job[j].fd].len = Size)
    PROVE  FileInv' /\ Keeps
<1>1. /\ job' \in [Jobs -> JobRec]
      /\ \A k \in Jobs \ {j} : job'[k] = job[k]
      /\ job'[j].pc = to /\ job'[j].fd = job[j].fd /\ job'[j].done = job[j].done
  BY JobMoves DEF FileInv, Typed, Goes
<1> USE <1>1
<1>2. Typed'
  BY DEF FileInv, Typed
<1>3. Unsubmitted'
  BY DEF FileInv, Unsubmitted, Started
<1>4. ASSUME NEW k \in Jobs
      PROVE  /\ Started(k) => Started(k)'
             /\ Holding(k)' => /\ Holding(k) /\ job'[k].fd = job[k].fd
                               /\ Filled(k) => Filled(k)'
  <2>1. CASE k # j
    BY <2>1 DEF Started, Holding, Filled, Padded, V
  <2>2. CASE k = j
    <3>1. Started(j) => Started(j)'
      BY DEF Started
    <3>2. Holding(j)' => Holding(j)
      BY DEF Holding
    <3>3. ASSUME Holding(j)', Filled(j) PROVE Filled(j)'
      <4>1. to \in {"late", "trunc", "rename"}
        BY <3>3 DEF Holding
      <4>2. job'[j].pc = to /\ node'[job'[j].fd] = node[job[j].fd]
        OBVIOUS
      <4> QED
        BY <4>1, <4>2, <3>3 DEF Filled
    <3> QED
      BY <2>2, <3>1, <3>2, <3>3
  <2> QED
    BY <2>1, <2>2
<1> QED
  BY <1>2, <1>3, <1>4, LettingGo

(* A step of job j that changes the inode i only. *)
LEMMA InodeStep ==
    ASSUME FileInv, NEW j \in Jobs, NEW i \in Jobs,
           load' = load, published' = published, mixed \subseteq mixed',
           \A k \in Jobs \ {j} : job'[k] = job[k],
           \A m \in Jobs \ {i} : node'[m] = node[m],
           \A m \in Jobs \ {i} : Unchecked(m) => Unchecked(m)',
           \A k \in Jobs \ {j} : Holding(k) /\ job[k].fd = i => i \in mixed',
           i \in published => i \in mixed',
           Holding(j)' => job'[j].fd = i \/ (Holding(j) /\ job'[j].fd = job[j].fd),
           Holding(j)' => Filled(j)' \/ Excused(job[j].fd)'
    PROVE  Alone' /\ AllFilled' /\ PublishedWhole' /\ Keeps
<1>1. \A k \in Jobs \ {j} : Holding(k)' <=> Holding(k)
  BY DEF Holding
<1>2. \A m \in Jobs : Excused(m) => Excused(m)' \/ m = i
  BY DEF Excused
<1>3. \A k \in Jobs \ {j} : Holding(k)' => job'[k].fd \in Jobs /\ Holding(k) /\ job'[k].fd = job[k].fd
  BY <1>1 DEF FileInv, Created
<1> USE <1>3
<1>4. Alone'
  <2>1. ASSUME NEW k \in Jobs \ {j}, Holding(k)', Holding(j)', job'[k].fd = job'[j].fd
        PROVE  job'[k].fd \in mixed'
    BY <2>1 DEF FileInv, Alone
  <2>2. ASSUME NEW k \in Jobs \ {j}, NEW l \in Jobs \ {j}, Holding(k)', Holding(l)',
               job'[k].fd = job'[l].fd
        PROVE  k = l \/ job'[k].fd \in mixed'
    BY <2>2 DEF FileInv, Alone
  <2>3. ASSUME NEW k \in Jobs, Holding(k)', job'[k].fd \in published'
        PROVE  job'[k].fd \in mixed'
    <3>1. CASE k = j
      BY <3>1, <2>3 DEF FileInv, Alone
    <3>2. CASE k # j
      BY <3>2, <2>3 DEF FileInv, Alone
    <3> QED
      BY <3>1, <3>2
  <2> QED
    BY <2>1, <2>2, <2>3 DEF Alone
<1>5. AllFilled'
  <2> SUFFICES ASSUME NEW k \in Jobs \ {j}, Holding(k)'
               PROVE  Filled(k)' \/ Excused(job[k].fd)'
    BY DEF AllFilled
  <2>1. /\ Holding(k) /\ job'[k] = job[k] /\ job[k].fd \in Jobs
        /\ Filled(k) \/ Excused(job[k].fd)
    BY DEF FileInv, AllFilled
  <2> USE <2>1
  <2>2. CASE job[k].fd = i
    BY <2>2 DEF Excused
  <2>3. CASE job[k].fd # i
    <3>1. node'[job'[k].fd] = node[job[k].fd] /\ (Padded(k)' <=> Padded(k))
      BY <2>3 DEF Padded, V
    <3>2. Filled(k) => Filled(k)'
      BY <3>1 DEF Filled
    <3>3. Excused(job[k].fd) => Excused(job[k].fd)'
      BY <2>3, <1>2
    <3> QED
      BY <3>2, <3>3
  <2> QED
    BY <2>2, <2>3
<1>6. published \subseteq Jobs
  BY DEF FileInv, Typed
<1>7. Keeps
  <2>1. \A m \in published : Excused(m) => Excused(m)'
    BY <1>2, <1>6 DEF Excused
  <2>2. \A m \in published : node'[m] = node[m] \/ Excused(m)'
    BY <1>6 DEF Excused
  <2> QED
    BY <2>1, <2>2 DEF Keeps
<1>8. PublishedWhole'
  <2> SUFFICES ASSUME NEW m \in published PROVE Whole(m)' \/ Excused(m)'
    BY DEF PublishedWhole, Excused
  <2>1. Whole(m) \/ Excused(m)
    BY DEF FileInv, PublishedWhole, Excused
  <2>2. node'[m] = node[m] => (Whole(m) => Whole(m)')
    BY DEF Whole
  <2> QED
    BY <2>1, <2>2, <1>7 DEF Keeps
<1> QED
  BY <1>4, <1>5, <1>7, <1>8

LEMMA TakeFile ==
    ASSUME FileInv, NEW j \in Jobs, Take(j)
    PROVE  FileInv' /\ Keeps
<1>1. Goes(j, "open") /\ ~Started(j) /\ job[j].pc # "new"
  BY DEF Take, Goes, Started
<1>2. tmp' \in [Paths -> Jobs \cup {None}] /\ \A p \in Paths : tmp'[p] \in {tmp[p], None}
  BY DEF Take, FileInv, Typed
<1> QED
  BY <1>1, <1>2, PcStep DEF Take, Pcs

LEMMA SyncFile ==
    ASSUME FileInv, NEW j \in Jobs, Sync(j)
    PROVE  FileInv' /\ Keeps
<1>1. job[j].pc = "sync" /\ Holding(j) /\ job[j].pc # "new"
  BY DEF Sync, Holding
<1> USE <1>1
<1>2. tmp' \in [Paths -> Jobs \cup {None}] /\ \A p \in Paths : tmp'[p] \in {tmp[p], None}
  BY DEF Sync, FileInv, Typed
<1>3. UNCHANGED <<load, call, final, node, published, mixed, cut>>
  BY DEF Sync
<1>4. Filled(j) => node[job[j].fd].has = Units /\ (Padded(j) \/ node[job[j].fd].len = Size)
  BY DEF Filled
<1>5. CASE Padded(j)
  <2>1. Goes(j, "trunc")
    BY <1>5 DEF Sync
  <2> QED
    BY <2>1, <1>2, <1>3, <1>4, PcStep DEF Pcs
<1>6. CASE ~Padded(j)
  <2>1. Goes(j, "rename")
    BY <1>6 DEF Sync
  <2> QED
    BY <2>1, <1>2, <1>3, <1>4, <1>6, PcStep DEF Pcs
<1> QED
  BY <1>5, <1>6

LEMMA FailsFile ==
    ASSUME FileInv, NEW j \in Jobs, Fails(j)
    PROVE  FileInv' /\ Keeps
<1> USE FileAssumption
<1>1. PICK stage \in {"open", "push", "submit", "write", "sync", "trunc", "rename"} :
        /\ job[j].pc = IF stage \in {"push", "submit"} THEN "write" ELSE stage
        /\ Goes(j, IF stage = "submit" THEN "late" ELSE "err")
        /\ tmp' = IF stage \in V(j).cleans THEN [tmp EXCEPT ![PathOf[j]] = None] ELSE tmp
        /\ UNCHANGED <<load, call, final, node, published, mixed, cut>>
  BY DEF Fails
<1> USE <1>1
<1>2. job[j].pc # "new" /\ (stage = "submit" => Holding(j))
  BY DEF Holding
<1>3. tmp' \in [Paths -> Jobs \cup {None}] /\ \A p \in Paths : tmp'[p] \in {tmp[p], None}
  BY DEF FileInv, Typed
<1>4. CASE stage = "submit"
  <2>1. Goes(j, "late")
    BY <1>4
  <2> QED
    BY <2>1, <1>2, <1>3, <1>4, PcStep DEF Pcs
<1>5. CASE stage # "submit"
  <2>1. Goes(j, "err")
    BY <1>5
  <2> QED
    BY <2>1, <1>2, <1>3, PcStep DEF Pcs
<1> QED
  BY <1>4, <1>5

LEMMA CrashFile ==
    ASSUME FileInv, Crash
    PROVE  FileInv' /\ Keeps
<1>1. UNCHANGED <<load, tmp, final, node, published, mixed, cut>>
  BY DEF Crash
<1>2. job' \in [Jobs -> JobRec]
  <2>1. ASSUME NEW j \in Jobs
        PROVE  job[j] \in JobRec /\ [job[j] EXCEPT !.pc = "err"] \in JobRec
    BY SMTT(15) DEF FileInv, Typed, Pcs, JobRec
  <2> QED
    BY <2>1 DEF Crash
<1>4. \A j \in Jobs :
         /\ job[j].pc \in {"new", "ok", "err"} => job'[j] = job[j]
         /\ job[j].pc \notin {"new", "ok", "err"} => job'[j].pc = "err"
  BY SMTT(15) DEF Crash, FileInv, Typed
<1>5. \A j \in Jobs : (Started(j) => Started(j)') /\ ~Holding(j)'
  BY <1>4 DEF Started, Holding
<1>6. Typed'
  BY <1>1, <1>2 DEF FileInv, Typed, Crash
<1>7. \A j \in Jobs : call'[CallOf[j]] = "new" => call[CallOf[j]] = "new"
  BY FileAssumption DEF Crash, FileInv, Typed
<1>8. Unsubmitted'
  BY <1>4, <1>7 DEF FileInv, Unsubmitted, Started
<1> QED
  BY <1>1, <1>5, <1>6, <1>8, LettingGo

LEMMA LateWriteFile ==
    ASSUME FileInv, NEW j \in Jobs, LateWrite(j)
    PROVE  FileInv' /\ Keeps
<1> DEFINE i == job[j].fd
<1>1. Holding(j) /\ i \in Jobs /\ Started(j)
  BY DEF LateWrite, Holding, FileInv, Created, Started
<1> USE <1>1
<1>2. PICK lost \in {{}, Units} : node' = [node EXCEPT ![i].has = @ \ lost]
  BY DEF LateWrite
<1>3. UNCHANGED <<load, call, tmp, final, published, mixed, cut>>
  BY DEF LateWrite
<1> USE <1>3
<1>4. /\ job' \in [Jobs -> JobRec]
      /\ \A k \in Jobs \ {j} : job'[k] = job[k]
      /\ job'[j].pc = "err"
  BY JobMoves DEF LateWrite, Goes, FileInv, Typed, Pcs
<1> USE <1>4
<1>5. /\ node' \in [Jobs -> NodeRec]
      /\ \A m \in Jobs \ {i} : node'[m] = node[m]
  <2> DEFINE f == [node[i] EXCEPT !.has = @ \ lost]
  <2>1. node \in [Jobs -> NodeRec] /\ node[i] \in NodeRec
    BY DEF FileInv, Typed
  <2> USE <2>1
  <2>2. f \in NodeRec
    BY DEF NodeRec
  <2>3. node' = [node EXCEPT ![i] = f]
    BY <1>2
  <2> HIDE DEF f
  <2> QED
    BY <2>2, <2>3
<1>6. Typed'
  BY <1>5 DEF FileInv, Typed
<1>7. Unsubmitted'
  BY DEF FileInv, Unsubmitted, LateWrite, Started
<1>8. /\ ~Holding(j)' /\ Started(j)'
      /\ \A k \in Jobs \ {j} : (Holding(k)' <=> Holding(k)) /\ (Started(k)' <=> Started(k))
  BY DEF Holding, Started
<1>9. Created' /\ OneName'
  BY <1>8 DEF FileInv, Typed, Created, OneName
<1>10. /\ \A k \in Jobs \ {j} : Holding(k) /\ job[k].fd = i => i \in mixed
       /\ i \in published => i \in mixed
  BY DEF FileInv, Alone
<1>11. \A m \in Jobs : Unchecked(m) => Unchecked(m)'
  BY DEF Unchecked
<1> HIDE DEF i
<1>12. Alone' /\ AllFilled' /\ PublishedWhole' /\ Keeps
  BY <1>5, <1>8, <1>10, <1>11, InodeStep
<1> QED
  BY <1>6, <1>7, <1>9, <1>12 DEF FileInv

(* Opening makes a new inode, or takes over and empties the one .tmp names. *)
LEMMA OpenFile ==
    ASSUME FileInv, NEW j \in Jobs, Open(j)
    PROVE  FileInv' /\ Keeps
<1> USE FileAssumption
<1> DEFINE p == PathOf[j]
           k == IF V(j).direct /\ p \in NoDirect THEN V(j).buffered ELSE job[j].kind
<1>0. PICK i \in Jobs : i = IF tmp[p] = None THEN j ELSE tmp[p]
  BY DEF FileInv, Typed
<1>1. p \in Paths /\ i \in Jobs
  BY DEF FileInv, Typed
<1>2. job[j].kind \in Kinds
  BY DEF FileInv, Typed, JobRec
<1>3. k \in Kinds
  BY <1>2, BufferedKind DEF V
<1>4. job[j].pc = "open" /\ job' = [job EXCEPT ![j].pc = "write", ![j].kind = k, ![j].fd = i]
  BY <1>0 DEF Open
<1>5. tmp' = [tmp EXCEPT ![p] = i] /\ node' = [node EXCEPT ![i] = [len |-> 0, has |-> {}]]
  BY <1>0 DEF Open, Empty
<1>6. UNCHANGED <<load, call, final, published>> /\ cut' = {x \in cut : x[1] # i}
  BY <1>0 DEF Open
<1>7. mixed' = IF \E l \in Jobs \ {j} : Holding(l) /\ job[l].fd = i THEN mixed \cup {i} ELSE mixed
  BY <1>0 DEF Open
<1>8. job[j].done = 0 /\ ~Started(j)
  BY <1>4 DEF FileInv, Unsubmitted, Started
<1>9. /\ i \notin published
      /\ \A q \in Paths \ {p} : tmp[q] # i
  <2>1. CASE tmp[p] = None
    BY <2>1, <1>0, <1>1, <1>8 DEF FileInv, Typed, Created
  <2>2. CASE tmp[p] # None
    BY <2>2, <1>0, <1>1 DEF FileInv, OneName
  <2> QED
    BY <2>1, <2>2
<1>10. tmp[p] # None => Started(i)
  BY <1>0, <1>1 DEF FileInv, Created
<1> HIDE DEF k, p
<1>11. /\ job' \in [Jobs -> JobRec]
       /\ \A l \in Jobs \ {j} : job'[l] = job[l]
       /\ job'[j].pc = "write" /\ job'[j].fd = i /\ job'[j].done = 0
  <2> DEFINE r == [job[j] EXCEPT !.pc = "write", !.kind = k, !.fd = i]
  <2>1. job \in [Jobs -> JobRec] /\ job[j] \in JobRec
    BY DEF FileInv, Typed
  <2>2. r \in JobRec /\ r.pc = "write" /\ r.fd = i /\ r.done = job[j].done
    BY <2>1, <1>1, <1>3 DEF JobRec, Pcs
  <2>3. job' = [job EXCEPT ![j] = r]
    BY <1>4, <2>1
  <2> HIDE DEF r
  <2> QED
    BY <2>1, <2>2, <2>3, <1>8
<1>12. /\ node' \in [Jobs -> NodeRec]
       /\ \A m \in Jobs \ {i} : node'[m] = node[m]
       /\ node'[i] = [len |-> 0, has |-> {}]
  <2>1. node \in [Jobs -> NodeRec]
    BY DEF FileInv, Typed
  <2>2. [len |-> 0, has |-> {}] \in NodeRec
    BY DEF NodeRec
  <2> QED
    BY <2>1, <2>2, <1>1, <1>5
<1>13. /\ tmp' \in [Paths -> Jobs \cup {None}]
       /\ \A q \in Paths \ {p} : tmp'[q] = tmp[q]
       /\ tmp'[p] = i
  BY <1>1, <1>5 DEF FileInv, Typed
<1>14. Typed'
  BY <1>6, <1>11, <1>12, <1>13 DEF FileInv, Typed
<1>15. Unsubmitted'
  BY <1>4, <1>6, <1>11 DEF FileInv, Unsubmitted, Started
<1>16. /\ Holding(j)' /\ Started(j)'
       /\ \A l \in Jobs \ {j} : (Holding(l)' <=> Holding(l)) /\ (Started(l)' <=> Started(l))
  BY <1>11 DEF Holding, Started
<1>17. Started(i)'
  <2>1. i = j \/ (i \in Jobs /\ Started(i))
    BY <1>0, <1>1, <1>10
  <2> QED
    BY <2>1, <1>16
<1>18. Created'
  BY <1>1, <1>6, <1>11, <1>13, <1>16, <1>17 DEF FileInv, Typed, Created
<1>19. OneName'
  BY <1>6, <1>9, <1>13 DEF FileInv, OneName
<1>20. Filled(j)'
  BY SMTT(15), <1>11, <1>12, FileAssumption DEF Filled
<1>21. \A m \in Jobs \ {i} : Unchecked(m) => Unchecked(m)'
  BY <1>6 DEF Unchecked
<1>22. /\ mixed \subseteq mixed'
       /\ \A l \in Jobs \ {j} : Holding(l) /\ job[l].fd = i => i \in mixed'
  BY <1>7
<1>23. Alone' /\ AllFilled' /\ PublishedWhole' /\ Keeps
  BY ZenonT(40), <1>1, <1>6, <1>9, <1>11, <1>12, <1>20, <1>21, <1>22, InodeStep
<1> QED
  BY <1>14, <1>15, <1>18, <1>19, <1>23 DEF FileInv

LEMMA TruncFile ==
    ASSUME FileInv, NEW j \in Jobs, Trunc(j)
    PROVE  FileInv' /\ Keeps
<1> USE FileAssumption
<1> DEFINE p == PathOf[j]
<1>1. p \in Paths
  OBVIOUS
<1>2. job[j].pc = "trunc" /\ Holding(j) /\ Started(j)
  BY DEF Trunc, Holding, Started
<1> USE <1>2
<1>3. UNCHANGED <<load, call, tmp, final, published, cut>> /\ mixed' = Touched(j)
  BY DEF Trunc
<1> USE <1>3
<1>4. CASE tmp[p] = None
  <2>1. Goes(j, "err") /\ UNCHANGED node
    BY <1>4 DEF Trunc
  <2>2. mixed' = mixed
    BY <1>4 DEF Touched
  <2>3. tmp' \in [Paths -> Jobs \cup {None}] /\ \A q \in Paths : tmp'[q] \in {tmp[q], None}
    BY DEF FileInv, Typed
  <2> QED
    BY <2>1, <2>2, <2>3, PcStep DEF Pcs
<1>5. CASE tmp[p] # None
  <2> USE <1>5
  <2>0. PICK i \in Jobs : i = tmp[p]
    BY <1>1 DEF FileInv, Typed
  <2> USE <2>0
  <2>1. Goes(j, "rename") /\ node' = [node EXCEPT ![i].len = Size]
    BY DEF Trunc
  <2>2. i \notin published
    BY <1>1 DEF FileInv, OneName
  <2>3. mixed \subseteq mixed' /\ (job[j].fd # i => i \in mixed' /\ job[j].fd \in mixed')
    BY DEF Touched
  <2> USE <2>3
  <2>4. /\ job' \in [Jobs -> JobRec]
        /\ \A l \in Jobs \ {j} : job'[l] = job[l]
        /\ job'[j].pc = "rename" /\ job'[j].fd = job[j].fd
    BY <2>1, JobMoves DEF Goes, FileInv, Typed, Pcs
  <2> USE <2>4
  <2>5. /\ node' \in [Jobs -> NodeRec]
        /\ \A m \in Jobs \ {i} : node'[m] = node[m]
        /\ node'[i].len = Size /\ node'[i].has = node[i].has
    <3>1. node \in [Jobs -> NodeRec] /\ Size \in Nat
      BY DEF FileInv, Typed
    <3> USE <3>1
    <3>2. node' = [node EXCEPT ![i].len = Size]
      BY <2>1
    <3> DEFINE f == [node[i] EXCEPT !.len = Size]
    <3>3. f \in NodeRec /\ f.len = Size /\ f.has = node[i].has
      BY SMTT(15) DEF NodeRec
    <3>4. node' = [node EXCEPT ![i] = f]
      BY <3>2
    <3> HIDE DEF f
    <3> QED
      BY <3>3, <3>4
  <2> USE <2>5
  <2>6. Typed'
    BY DEF FileInv, Typed
  <2>7. Unsubmitted'
    BY SMTT(15) DEF FileInv, Unsubmitted, Started
  <2>8. /\ Holding(j)' /\ Started(j)'
        /\ \A l \in Jobs \ {j} : (Holding(l)' <=> Holding(l)) /\ (Started(l)' <=> Started(l))
    BY DEF Holding, Started
  <2>9. Created' /\ OneName'
    BY SMTT(15), <2>8 DEF FileInv, Typed, Created, OneName
  <2>10. \A l \in Jobs \ {j} : Holding(l) /\ job[l].fd = i => i \in mixed'
    BY DEF FileInv, Alone
  <2>11. \A m : Unchecked(m) => Unchecked(m)'
    BY DEF Unchecked
  <2>12. Filled(j)' \/ Excused(job[j].fd)'
    <3>1. Filled(j) \/ Excused(job[j].fd)
      BY DEF FileInv, AllFilled
    <3>2. Excused(job[j].fd) => Excused(job[j].fd)'
      BY <2>11 DEF Excused
    <3>3. CASE job[j].fd = i /\ Filled(j)
      BY <3>3 DEF Filled
    <3>4. CASE job[j].fd # i
      BY <3>4 DEF Excused
    <3> QED
      BY <3>1, <3>2, <3>3, <3>4
  <2>13. Alone' /\ AllFilled' /\ PublishedWhole' /\ Keeps
    BY <2>2, <2>8, <2>10, <2>11, <2>12, InodeStep
  <2> QED
    BY <2>6, <2>7, <2>9, <2>13 DEF FileInv
<1> QED
  BY <1>4, <1>5

(* The rename publishes what the job has filled, or an inode it shares. *)
LEMMA RenameFile ==
    ASSUME FileInv, NEW j \in Jobs, Rename(j)
    PROVE  FileInv' /\ Keeps
<1> USE FileAssumption
<1> DEFINE p == PathOf[j]
<1>1. p \in Paths
  OBVIOUS
<1> USE <1>1
<1>2. job[j].pc = "rename" /\ Holding(j) /\ Started(j)
  BY DEF Rename, Holding, Started
<1> USE <1>2
<1>3. UNCHANGED <<load, call, node, cut>> /\ mixed' = Touched(j)
  BY DEF Rename
<1> USE <1>3
<1>4. CASE tmp[p] = None
  <2>1. Goes(j, "err") /\ UNCHANGED <<tmp, final, published>>
    BY <1>4 DEF Rename
  <2>2. mixed' = mixed
    BY <1>4 DEF Touched
  <2>3. tmp' \in [Paths -> Jobs \cup {None}] /\ \A q \in Paths : tmp'[q] \in {tmp[q], None}
    BY <2>1 DEF FileInv, Typed
  <2> QED
    BY <2>1, <2>2, <2>3, PcStep DEF Pcs
<1>5. CASE tmp[p] # None
  <2> USE <1>5
  <2>0. PICK i \in Jobs : i = tmp[p]
    BY DEF FileInv, Typed
  <2> USE <2>0
  <2>1. /\ Goes(j, "ok") /\ published' = published \cup {i}
        /\ final' = [final EXCEPT ![p] = i] /\ tmp' = [tmp EXCEPT ![p] = None]
    BY DEF Rename
  <2> USE <2>1
  <2>2. i \notin published /\ Started(i) /\ \A q \in Paths \ {p} : tmp[q] # i
    BY DEF FileInv, OneName, Created
  <2>3. mixed \subseteq mixed' /\ (job[j].fd # i => i \in mixed')
    BY DEF Touched
  <2> USE <2>3
  <2>4. /\ job' \in [Jobs -> JobRec]
        /\ \A l \in Jobs \ {j} : job'[l] = job[l]
        /\ job'[j].pc = "ok"
    BY JobMoves DEF Goes, FileInv, Typed, Pcs
  <2> USE <2>4
  <2>5. /\ tmp' \in [Paths -> Jobs \cup {None}] /\ tmp'[p] = None
        /\ \A q \in Paths \ {p} : tmp'[q] = tmp[q]
    BY DEF FileInv, Typed
  <2> USE <2>5
  <2>6. Typed'
    BY DEF FileInv, Typed
  <2>7. Unsubmitted'
    BY SMTT(15) DEF FileInv, Unsubmitted, Started
  <2>8. /\ ~Holding(j)' /\ Started(j)'
        /\ \A l \in Jobs \ {j} : (Holding(l)' <=> Holding(l)) /\ (Started(l)' <=> Started(l))
    BY DEF Holding, Started
  <2> USE <2>8
  <2>9. \A l \in Jobs : Started(l) => Started(l)'
    OBVIOUS
  <2>10. Created'
    BY SMTT(15), <2>2, <2>9 DEF FileInv, Typed, Created
  <2>11. OneName'
    BY SMTT(15), <2>2 DEF FileInv, Typed, OneName
  <2>12. \A l \in Jobs \ {j} : Holding(l) /\ job[l].fd = i => i \in mixed'
    BY DEF FileInv, Alone
  <2>13. Alone'
    BY SMTT(15), <2>12 DEF FileInv, Alone
  <2>14. \A m : Excused(m) => Excused(m)'
    BY DEF Excused, Unchecked
  <2> USE <2>14
  <2>15. AllFilled'
    <3> SUFFICES ASSUME NEW l \in Jobs \ {j}, Holding(l)
                 PROVE  Filled(l)' \/ Excused(job[l].fd)'
      BY DEF AllFilled
    <3>1. Filled(l) => Filled(l)'
      BY DEF Filled, Padded, V
    <3>2. Excused(job[l].fd) => Excused(job[l].fd)'
      OBVIOUS
    <3> QED
      BY <3>1, <3>2 DEF FileInv, AllFilled
  <2>16. Whole(i)' \/ Excused(i)'
    <3>1. CASE job[j].fd # i
      BY <3>1 DEF Excused
    <3>2. CASE job[j].fd = i
      <4>1. Filled(j) \/ Excused(i)
        BY SMTT(15), <3>2 DEF FileInv, AllFilled
      <4>2. Filled(j) => Whole(i)'
        BY <3>2 DEF Filled, Whole
      <4> QED
        BY <4>1, <4>2
    <3> QED
      BY <3>1, <3>2
  <2>17. \A m \in published : Whole(m)' \/ Excused(m)'
    BY DEF FileInv, PublishedWhole, Whole, Excused
  <2>18. PublishedWhole'
    BY <2>16, <2>17 DEF PublishedWhole, Excused
  <2>19. Keeps
    BY DEF Keeps
  <2> QED
    BY <2>6, <2>7, <2>10, <2>11, <2>13, <2>15, <2>18, <2>19 DEF FileInv
<1> QED
  BY <1>4, <1>5

(* How far a write call extends its file. *)
LEMMA GrownTo ==
    ASSUME NEW j, NEW n \in Nat, NEW d \in Nat, NEW l \in Nat,
           job[j].done = d, node[job[j].fd].len = l
    PROVE  /\ Grown(j, n) \in Nat
           /\ l <= d /\ (d + n # Size \/ ~Padded(j)) => Grown(j, n) = d + n
<1>1. PICK len \in Nat : /\ len = IF d + n = Size /\ Padded(j) THEN Size + 1 ELSE d + n
                        /\ Grown(j, n) = IF l > len THEN l ELSE len
  BY SMTT(15), FileAssumption DEF Grown
<1> QED
  BY SMTT(15), <1>1, FileAssumption

LEMMA Extended ==
    ASSUME NEW d \in Nat, NEW n \in Nat
    PROVE  (1 .. d) \cup (d + 1 .. d + n) = 1 .. d + n
BY SMTT(15)

(* A write call adds to the prefix it found, or comes short unnoticed. *)
LEMMA WriteFile ==
    ASSUME FileInv, NEW j \in Jobs, Write(j)
    PROVE  FileInv' /\ Keeps
<1> USE FileAssumption
<1>1. job[j].pc = "write" /\ Holding(j) /\ Started(j) /\ PathOf[j] \in Paths
  BY DEF Write, Holding, Started
<1>2. PICK i \in Jobs : i = job[j].fd /\ Started(i)
  BY <1>1 DEF FileInv, Created
<1>3. PICK n \in 0 .. Size - job[j].done :
        /\ node' = [node EXCEPT ![i] = [len |-> Grown(j, n),
                        has |-> @.has \cup job[j].done + 1 .. job[j].done + n]]
        /\ IF job[j].done + n = Size \/ V(j).loop \/ ~V(j).checked
           THEN /\ job' = [job EXCEPT
                        ![j].done = IF V(j).loop THEN @ + n ELSE Size,
                        ![j].pc = IF job[j].done + n # Size /\ V(j).loop THEN "write"
                                  ELSE IF Syncs(j) THEN "sync"
                                  ELSE IF Padded(j) THEN "trunc" ELSE "rename"]
                /\ cut' = IF job[j].done + n = Size \/ V(j).loop THEN cut
                          ELSE cut \cup {<<i, job[j].kind>>}
                /\ UNCHANGED tmp
           ELSE /\ Goes(j, "err") /\ tmp' = [tmp EXCEPT ![PathOf[j]] = None]
                /\ UNCHANGED cut
        /\ UNCHANGED <<load, call, final, published, mixed>>
  BY <1>2 DEF Write
<1> DEFINE done == job[j].done
           all == done + n = Size
<1>4. done \in 0 .. Size /\ n \in Nat /\ done + n \in 0 .. Size /\ job[j].kind \in Kinds
  BY SMTT(15) DEF FileInv, Typed, JobRec
<1>5. node[i].len \in Nat /\ node[i].has \in SUBSET Units
  BY DEF FileInv, Typed, NodeRec
<1>6. Grown(j, n) \in Nat
  BY SMTT(15), <1>2, <1>4, <1>5, GrownTo
<1>7. node[i].has \cup done + 1 .. done + n \in SUBSET Units
  BY SMTT(15), <1>4, <1>5 DEF Units
<1>8. /\ node' \in [Jobs -> NodeRec]
      /\ \A m \in Jobs \ {i} : node'[m] = node[m]
      /\ node'[i].len = Grown(j, n) /\ node'[i].has = node[i].has \cup done + 1 .. done + n
  <2> DEFINE f == [len |-> Grown(j, n), has |-> node[i].has \cup done + 1 .. done + n]
  <2>1. node \in [Jobs -> NodeRec]
    BY DEF FileInv, Typed
  <2>2. f \in NodeRec /\ f.len = Grown(j, n) /\ f.has = node[i].has \cup done + 1 .. done + n
    BY <1>6, <1>7 DEF NodeRec
  <2>3. node' = [node EXCEPT ![i] = f]
    BY <1>3, <2>1
  <2> HIDE DEF f
  <2> QED
    BY <2>1, <2>2, <2>3
<1>9. UNCHANGED <<load, call, final, published, mixed>>
  BY <1>3
<1>10. /\ \A l \in Jobs \ {j} : Holding(l) /\ job[l].fd = i => i \in mixed
       /\ i \in published => i \in mixed
  BY <1>1, <1>2 DEF FileInv, Alone
<1>11. Filled(j) \/ Excused(i)
  BY <1>1, <1>2 DEF FileInv, AllFilled
<1>12. Filled(j) => done < Size /\ node[i].len = done /\ node[i].has = 1 .. done
  BY <1>1, <1>2 DEF Filled
<1>13. Filled(j) => node'[i].has = 1 .. done + n
  <2>1. done \in Nat
    BY SMTT(15), <1>4
  <2> QED
    BY <2>1, <1>4, <1>8, <1>12, Extended
<1>14. Filled(j) /\ (~all \/ ~Padded(j)) => node'[i].len = done + n
  <2>1. done \in Nat /\ done <= done
    BY SMTT(15), <1>4
  <2> QED
    BY SMTT(15), <1>2, <1>4, <1>8, <1>12, <2>1, GrownTo
<1>15. CASE all \/ V(j).loop \/ ~V(j).checked
  <2> DEFINE to == IF ~all /\ V(j).loop THEN "write"
                   ELSE IF Syncs(j) THEN "sync"
                   ELSE IF Padded(j) THEN "trunc" ELSE "rename"
             upto == IF V(j).loop THEN done + n ELSE Size
  <2>1. /\ job' = [job EXCEPT ![j].done = upto, ![j].pc = to]
        /\ cut' = IF all \/ V(j).loop THEN cut ELSE cut \cup {<<i, job[j].kind>>}
        /\ tmp' = tmp
    BY <1>3, <1>15
  <2>2. upto \in 0 .. Size /\ to \in {"write", "sync", "trunc", "rename"}
    BY SMTT(15), <1>4
  <2>3. /\ to = "write" => ~all /\ upto = done + n
        /\ to = "trunc" => Padded(j)
        /\ to = "rename" => ~Padded(j)
        /\ to # "write" => all \/ ~V(j).loop
    OBVIOUS
  <2> HIDE DEF to, upto
  <2>4. /\ job' \in [Jobs -> JobRec]
        /\ \A l \in Jobs \ {j} : job'[l] = job[l]
        /\ job'[j].pc = to /\ job'[j].fd = i /\ job'[j].done = upto
        /\ job'[j].kind = job[j].kind
    <3>1. job' = [job EXCEPT ![j].done = upto, ![j].pc = to]
      BY <2>1
    <3>2. job \in [Jobs -> JobRec] /\ job[j] \in JobRec
      BY DEF FileInv, Typed
    <3> DEFINE r == [job[j] EXCEPT !.done = upto, !.pc = to]
    <3>3. r \in JobRec /\ r.pc = to /\ r.fd = i /\ r.done = upto /\ r.kind = job[j].kind
      BY <1>2, <2>2, <3>2 DEF JobRec, Pcs
    <3>4. job' = [job EXCEPT ![j] = r]
      BY <3>1, <3>2
    <3> HIDE DEF r
    <3> QED
      BY <3>2, <3>3, <3>4
  <2>5. Typed'
    BY <1>8, <1>9, <2>1, <2>4 DEF FileInv, Typed
  <2>6. /\ Holding(j)' /\ Started(j)'
        /\ \A l \in Jobs \ {j} : (Holding(l)' <=> Holding(l)) /\ (Started(l)' <=> Started(l))
    BY <2>2, <2>4 DEF Holding, Started
  <2>7. Unsubmitted'
    BY <1>1, <1>9, <2>4, <2>6 DEF FileInv, Unsubmitted
  <2>8. \A l \in Jobs : Started(l) => Started(l)'
    BY <2>6
  <2>9. Created' /\ OneName'
    BY SMTT(15), <1>2, <1>9, <2>1, <2>4, <2>6, <2>8 DEF FileInv, Typed, Created, OneName
  <2>10. \A m : Unchecked(m) => Unchecked(m)'
    BY <2>1 DEF Unchecked
  <2>11. Filled(j)' \/ Excused(job[j].fd)'
    <3>1. CASE Excused(i)
      BY <3>1, <1>9, <2>4, <2>10 DEF Excused
    <3>2. CASE Filled(j) /\ all
      <4>1. Padded(j)' <=> Padded(j)
        BY <1>9, <2>4 DEF Padded, V
      <4>2. node'[i].has = Units /\ (~Padded(j) => node'[i].len = Size)
        BY <3>2, <1>13, <1>14 DEF Units
      <4> QED
        BY <3>2, <4>1, <4>2, <2>2, <2>3, <2>4 DEF Filled
    <3>3. CASE Filled(j) /\ ~all /\ to = "write"
      <4>1. done + n < Size
        BY SMTT(15), <1>4, <3>3
      <4> QED
        BY <3>3, <4>1, <1>13, <1>14, <2>3, <2>4 DEF Filled
    <3>4. CASE ~all /\ to # "write"
      <4>1. ~V(j).loop /\ ~V(j).checked
        BY <3>4, <1>15, <2>3
      <4>2. <<i, job[j].kind>> \in cut'
        BY <3>4, <4>1, <2>1
      <4>3. job[j].kind \in {"ringOne", "ringBatch", "ringAligned"}
        BY <4>1, <1>4, UncheckedKind DEF V
      <4>4. Unchecked(job[j].fd)'
        BY <4>2, <4>3, <2>4 DEF Unchecked
      <4> QED
        BY <4>4 DEF Excused
    <3> QED
      BY <3>1, <3>2, <3>3, <3>4, <1>11
  <2>12. Alone' /\ AllFilled' /\ PublishedWhole' /\ Keeps
    BY Zenon, <1>8, <1>9, <1>10, <2>4, <2>6, <2>10, <2>11, InodeStep
  <2> QED
    BY <2>5, <2>7, <2>9, <2>12 DEF FileInv
<1>16. CASE ~(all \/ V(j).loop \/ ~V(j).checked)
  <2>1. /\ job' = [job EXCEPT ![j].pc = "err"]
        /\ tmp' = [tmp EXCEPT ![PathOf[j]] = None] /\ cut' = cut
    BY <1>3, <1>16 DEF Goes
  <2>2. /\ job' \in [Jobs -> JobRec]
        /\ \A l \in Jobs \ {j} : job'[l] = job[l]
        /\ job'[j].pc = "err"
    BY <2>1, JobMoves DEF FileInv, Typed, Pcs
  <2>3. tmp' \in [Paths -> Jobs \cup {None}] /\ \A q \in Paths : tmp'[q] \in {tmp[q], None}
    BY <2>1 DEF FileInv, Typed
  <2>4. Typed'
    BY <1>8, <1>9, <2>2, <2>3 DEF FileInv, Typed
  <2>5. /\ ~Holding(j)' /\ Started(j)'
        /\ \A l \in Jobs \ {j} : (Holding(l)' <=> Holding(l)) /\ (Started(l)' <=> Started(l))
    BY <2>2 DEF Holding, Started
  <2>6. Unsubmitted'
    BY SMTT(15), <1>1, <1>9, <2>2, <2>5 DEF FileInv, Unsubmitted
  <2>7. \A l \in Jobs : Started(l) => Started(l)'
    BY <2>5
  <2>8. Created'
    BY <1>9, <2>2, <2>3, <2>5, <2>7 DEF FileInv, Typed, Created
  <2>9. OneName'
    BY <1>9, <2>3 DEF FileInv, Typed, OneName
  <2>10. \A m : Unchecked(m) => Unchecked(m)'
    BY <2>1 DEF Unchecked
  <2>11. Alone' /\ AllFilled' /\ PublishedWhole' /\ Keeps
    BY <1>8, <1>9, <1>10, <2>2, <2>5, <2>10, InodeStep
  <2> QED
    BY <2>4, <2>6, <2>8, <2>9, <2>11 DEF FileInv
<1> QED
  BY <1>15, <1>16

-----------------------------------------------------------------------------
(* The readers. *)
ReadInv ==
    \A q \in Readers :
        /\ rd[q].pc \in {"stat", "read", "ok"} =>
               rd[q].path \in Paths /\ rd[q].of \in published
               /\ (rd[q].stat = Size \/ Excused(rd[q].of))
        /\ rd[q].pc \in {"read", "ok"} => rd[q].fd \in published
        /\ rd[q].pc = "ok" => \/ rd[q].stat = Size /\ rd[q].got = Units
                              \/ Excused(rd[q].of) \/ Excused(rd[q].fd)
RdTyped ==
    rd \in [Readers -> RdRec]

FullInv == FileInv /\ RdTyped /\ ReadInv

(* What a published file's readers know survives every step of the others. *)
LEMMA ReadKept ==
    ASSUME FullInv, Keeps, FileInv', rd' = rd
    PROVE  FullInv'
<1>1. RdTyped'
  BY DEF FullInv, RdTyped
<1>2. \A i \in published : i \in published' /\ (Excused(i) => Excused(i)')
  BY DEF Keeps
<1>3. ASSUME NEW q \in Readers
      PROVE  /\ rd[q].pc \in {"stat", "read", "ok"} =>
                    rd[q].path \in Paths /\ rd[q].of \in published'
                    /\ (rd[q].stat = Size \/ Excused(rd[q].of)')
             /\ rd[q].pc \in {"read", "ok"} => rd[q].fd \in published'
             /\ rd[q].pc = "ok" => \/ rd[q].stat = Size /\ rd[q].got = Units
                                   \/ Excused(rd[q].of)' \/ Excused(rd[q].fd)'
  BY <1>2 DEF FullInv, ReadInv
<1> QED
  BY <1>1, <1>3 DEF FullInv, ReadInv

LEMMA ReaderFile ==
    ASSUME FullInv, NEW q \in Readers,
           ReadStat(q) \/ ReadOpen(q) \/ ReadBytes(q) \/ ReadDone(q)
    PROVE  FullInv'
<1> USE FileAssumption
<1>1. UNCHANGED <<load, call, job, tmp, final, node, published, mixed, cut>>
  BY DEF ReadStat, ReadOpen, ReadBytes, ReadDone
<1> USE <1>1
<1>2. FileInv'
  BY QuietFile DEF FullInv, FileInv, Typed
<1>3. \A i : Excused(i) <=> Excused(i)'
  BY DEF Excused, Unchecked
<1>4. \A i \in published : Whole(i) \/ Excused(i)
  BY DEF FullInv, FileInv, PublishedWhole, Excused
<1>5. \A p \in Paths : final[p] # None => final[p] \in published
  BY DEF FullInv, FileInv, Typed
<1>6. published \subseteq Jobs /\ node \in [Jobs -> NodeRec]
  BY DEF FullInv, FileInv, Typed
<1> USE <1>6
<1>7. rd \in [Readers -> RdRec]
  BY DEF FullInv, RdTyped
<1> USE <1>7
<1> DEFINE Good(r) ==
        /\ r.pc \in {"stat", "read", "ok"} =>
               r.path \in Paths /\ r.of \in published /\ (r.stat = Size \/ Excused(r.of))
        /\ r.pc \in {"read", "ok"} => r.fd \in published
        /\ r.pc = "ok" => \/ r.stat = Size /\ r.got = Units
                          \/ Excused(r.of) \/ Excused(r.fd)
<1>8. \A k \in Readers : Good(rd[k])
  BY DEF FullInv, ReadInv
<1> USE <1>8
<1>9. SUFFICES /\ rd' \in [Readers -> RdRec]
               /\ \A k \in Readers \ {q} : rd'[k] = rd[k]
               /\ Good(rd'[q])
  <2>1. \A k \in Readers : Good(rd'[k])
    BY <1>9
  <2>2. ReadInv'
    BY <2>1, <1>3 DEF ReadInv
  <2> QED
    BY <1>2, <1>9, <2>2 DEF FullInv, RdTyped
<1>10. NoRead \in RdRec /\ Good(NoRead)
  BY DEF NoRead, RdRec
<1>11. rd[q] \in RdRec
  OBVIOUS
<1>12. CASE ReadStat(q)
  <2>1. PICK p \in Paths : /\ final[p] # None
                           /\ rd' = [rd EXCEPT ![q] =
                                  [pc |-> "stat", path |-> p, of |-> final[p],
                                   stat |-> node[final[p]].len, fd |-> None, got |-> {}]]
    BY <1>12 DEF ReadStat
  <2> DEFINE r == [pc |-> "stat", path |-> p, of |-> final[p], stat |-> node[final[p]].len,
                   fd |-> None, got |-> {}]
  <2>2. rd' = [rd EXCEPT ![q] = r]
    BY <2>1
  <2>3. final[p] \in published /\ node[final[p]].len \in Nat
    BY <2>1, <1>5 DEF NodeRec
  <2>4. Good(r)
    BY <2>3, <1>4 DEF Whole
  <2>5. r \in RdRec
    BY <2>3 DEF RdRec
  <2> HIDE DEF r, Good
  <2> QED
    BY <2>2, <2>4, <2>5
<1>13. CASE ReadOpen(q)
  <2> USE <1>13
  <2>1. CASE final[rd[q].path] = None
    <3>1. rd' = [rd EXCEPT ![q] = NoRead]
      BY <2>1 DEF ReadOpen
    <3> QED
      BY <3>1, <1>10
  <2>2. CASE final[rd[q].path] # None
    <3>1. rd' = [rd EXCEPT ![q].pc = "read", ![q].fd = final[rd[q].path]]
      BY <2>2 DEF ReadOpen
    <3>2. rd[q].pc = "stat" /\ final[rd[q].path] \in published
      BY <2>2, <1>5 DEF ReadOpen
    <3> DEFINE r == [rd[q] EXCEPT !.pc = "read", !.fd = final[rd[q].path]]
    <3>3. /\ r \in RdRec /\ r.pc = "read" /\ r.fd = final[rd[q].path]
          /\ r.path = rd[q].path /\ r.of = rd[q].of /\ r.stat = rd[q].stat
      BY <3>2, <1>11 DEF RdRec
    <3>4. rd' = [rd EXCEPT ![q] = r]
      BY <3>1
    <3> HIDE DEF r
    <3>5. Good(r)
      BY <3>2, <3>3
    <3> HIDE DEF Good
    <3> QED
      BY <3>3, <3>4, <3>5
  <2> QED
    BY <2>1, <2>2
<1>14. CASE ReadBytes(q)
  <2> DEFINE g == {u \in node[rd[q].fd].has : u <= rd[q].stat}
  <2>1. rd[q].pc = "read" /\ rd' = [rd EXCEPT ![q].pc = "ok", ![q].got = g]
    BY <1>14 DEF ReadBytes
  <2>2. rd[q].fd \in published /\ node[rd[q].fd].has \in SUBSET Units
    BY <2>1 DEF NodeRec
  <2>3. g \in SUBSET Units
    BY <2>2
  <2>4. Whole(rd[q].fd) /\ rd[q].stat = Size => g = Units
    BY <2>2, SMTT(15) DEF Whole, Units
  <2> HIDE DEF g
  <2> DEFINE r == [rd[q] EXCEPT !.pc = "ok", !.got = g]
  <2>5. /\ r \in RdRec /\ r.pc = "ok" /\ r.got = g /\ r.fd = rd[q].fd
        /\ r.path = rd[q].path /\ r.of = rd[q].of /\ r.stat = rd[q].stat
    BY <2>3, <1>11 DEF RdRec
  <2>6. rd' = [rd EXCEPT ![q] = r]
    BY <2>1
  <2> HIDE DEF r
  <2>7. Good(r)
    BY <2>1, <2>2, <2>4, <2>5, <1>4
  <2> HIDE DEF Good
  <2> QED
    BY <2>5, <2>6, <2>7
<1>15. CASE ReadDone(q)
  BY <1>15, <1>10 DEF ReadDone
<1> QED
  BY <1>12, <1>13, <1>14, <1>15

LEMMA NextFile == FullInv /\ [Next]_vars => FullInv'
<1> SUFFICES ASSUME FullInv, [Next]_vars PROVE FullInv'
  OBVIOUS
<1> USE FileAssumption
<1>1. FileInv
  BY DEF FullInv
<1> USE <1>1
<1>2. ASSUME NEW c \in Calls, Submit(c) PROVE FullInv'
  BY <1>2, SubmitFile, ReadKept DEF Submit
<1>3. ASSUME NEW c \in Calls, Return(c) PROVE FullInv'
  <2>1. call' = [call EXCEPT ![c] = "back"] /\ UNCHANGED <<load, job, tmp, final, node, rd, published, mixed, cut>>
    BY <1>3 DEF Return
  <2>2. call' \in [Calls -> {"new", "wait", "back"}]
        /\ \A j \in Jobs : call'[CallOf[j]] = "new" => call[CallOf[j]] = "new"
    BY <2>1 DEF FileInv, Typed
  <2> QED
    BY <2>1, <2>2, QuietFile, ReadKept DEF FileInv, Typed
<1>4. ASSUME Crash PROVE FullInv'
  <2>1. FileInv' /\ \A q \in Readers : rd'[q] = NoRead
    BY <1>4, CrashFile DEF Crash
  <2>2. RdTyped'
    BY <1>4 DEF Crash, RdTyped, NoRead, RdRec
  <2>3. ReadInv'
    BY SMTT(15), <2>1 DEF ReadInv, NoRead
  <2> QED
    BY <2>1, <2>2, <2>3 DEF FullInv
<1>5. ASSUME NEW j \in Jobs, Step(j) PROVE FullInv'
  <2>1. FileInv' /\ Keeps
    BY <1>5, TakeFile, OpenFile, WriteFile, SyncFile, TruncFile, RenameFile DEF Step
  <2>2. rd' = rd
    BY <1>5 DEF Step, Take, Open, Write, Sync, Trunc, Rename
  <2> QED
    BY <2>1, <2>2, ReadKept
<1>6. ASSUME NEW j \in Jobs, Fails(j) PROVE FullInv'
  BY <1>6, FailsFile, ReadKept DEF Fails
<1>7. ASSUME NEW j \in Jobs, LateWrite(j) PROVE FullInv'
  BY <1>7, LateWriteFile, ReadKept DEF LateWrite
<1>8. ASSUME NEW p \in Paths, Delete(p) PROVE FullInv'
  <2>1. /\ UNCHANGED <<load, call, job, tmp, node, rd, published, mixed, cut>>
        /\ final' = [final EXCEPT ![p] = None]
    BY <1>8 DEF Delete
  <2>2. final' \in [Paths -> published \cup {None}]
    BY <2>1 DEF FileInv, Typed
  <2> QED
    BY <2>1, <2>2, QuietFile, ReadKept DEF FileInv, Typed
<1>9. CASE UNCHANGED vars
  BY <1>9, QuietFile, ReadKept DEF vars, FileInv, Typed
<1> QED
  BY <1>2, <1>3, <1>4, <1>5, <1>6, <1>7, <1>8, <1>9, ReaderFile DEF Next

LEMMA FilesInductive == Spec => []FullInv
<1>1. Init => FullInv
  <2> SUFFICES ASSUME Init PROVE FullInv
    OBVIOUS
  <2>1. RdTyped /\ ReadInv
    BY FileAssumption DEF Init, RdTyped, ReadInv, NoRead, RdRec
  <2> QED
    BY <2>1, InitFile DEF FullInv
<1> QED
  BY <1>1, NextFile, PTL DEF Spec

(* A file that got its final name by the rename of one of the executors'     *)
(* write paths is complete, whatever fails, comes short or crashes, unless   *)
(* two jobs shared its .tmp file or an io_uring path that does not compare   *)
(* lengths was given a short completion.                                     *)
THEOREM FilesWhole == Spec => []PublishedWhole
<1>1. FullInv => PublishedWhole
  BY DEF FullInv, FileInv
<1> QED
  BY <1>1, FilesInductive, PTL

(* read_aligned_impl, which takes the length and the bytes in two steps,     *)
(* returns a complete file under the same conditions.                        *)
THEOREM ReadsWhole == Spec => []ReadWhole
<1>1. FullInv => ReadWhole
  BY DEF FullInv, ReadInv, ReadWhole, Excused
<1> QED
  BY <1>1, FilesInductive, PTL

-----------------------------------------------------------------------------
(* Where a buffered vectored write goes on. *)

(* A nonempty set of naturals has a least element. *)
LEMMA LeastNat ==
    ASSUME NEW T, T \subseteq Nat, T # {}
    PROVE  \E k \in T : \A l \in T : k <= l
<1> DEFINE R == OpToRel(<, Nat)
<1>1. IsWellFoundedOn(R, Nat)
  BY NatLessThanWellFounded
<1> HIDE DEF R
<1>2. PICK k \in T : \A l \in T : ~(<<l, k>> \in R)
  BY <1>1, WFMin
<1>3. ASSUME NEW l \in T PROVE k <= l
  <2>1. <<l, k>> \in Nat \X Nat /\ <<l, k>>[1] = l /\ <<l, k>>[2] = k
    OBVIOUS
  <2>2. ~(l < k)
    BY <1>2, <2>1 DEF R, OpToRel
  <2> QED
    BY SMTT(15), <2>2
<1> QED
  BY <1>3

(* The bytes in the first b segments. *)
Prefix(b) == IF b = 0 THEN 0 ELSE Ends[b]

LEMMA Prefixes ==
    /\ Len(Ends) \in Nat \ {0} /\ DOMAIN Ends = 1 .. Len(Ends)
    /\ \A b \in 0 .. Len(Ends) : Prefix(b) \in Nat
    /\ Prefix(Len(Ends)) = Size
    /\ \A a, b \in 0 .. Len(Ends) : a <= b => Prefix(a) <= Prefix(b)
<1>1. Len(Ends) \in Nat \ {0} /\ DOMAIN Ends = 1 .. Len(Ends)
  BY SMTT(15), EndsAssumption
<1> USE <1>1
<1>2. \A b \in 1 .. Len(Ends) : Ends[b] \in Nat
  BY SMTT(15), EndsAssumption
<1>3. \A b \in 0 .. Len(Ends) : Prefix(b) \in Nat
  BY SMTT(15), <1>2 DEF Prefix
<1>4. ASSUME NEW a \in 0 .. Len(Ends), NEW b \in 0 .. Len(Ends), a <= b
      PROVE  Prefix(a) <= Prefix(b)
  BY SMTT(15), <1>2, <1>4, EndsAssumption DEF Prefix
<1> QED
  BY <1>3, <1>4, EndsAssumption DEF Prefix

LEMMA LenSumPrefix ==
    ASSUME NEW a \in 1 .. Len(Ends), NEW b \in a .. Len(Ends)
    PROVE  /\ LenSum(a, a) = Prefix(a) - Prefix(a - 1)
           /\ LenSum(a + 1, b) = Prefix(b) - Prefix(a)
           /\ LenSum(1, a - 1) = Prefix(a - 1)
BY SMTT(15), Prefixes DEF LenSum, Prefix

(* A position inside a segment, with `done` bytes before it. *)
At(seg, off, done) ==
    /\ seg \in 1 .. Len(Ends) /\ off \in 0 .. Prefix(seg) - Prefix(seg - 1)
    /\ Prefix(seg - 1) + off = done

(* The position after n more bytes, unless that was the last of them. *)
LEMMA ResumeAt ==
    ASSUME NEW seg, NEW off, NEW done \in Nat, NEW n \in Nat,
           At(seg, off, done), done + n < Size
    PROVE  LET r == Resume(seg, off, n) IN At(r[1], r[2], done + n)
<1> DEFINE last == Len(Ends)
           avail == LenSum(seg, seg) - off
           rest == n - avail
           ends == {k \in seg + 1 .. last + 1 : k = last + 1 \/ rest < LenSum(seg + 1, k)}
           next == CHOOSE k \in ends : \A l \in ends : k <= l
<1>1. /\ last \in Nat \ {0} /\ seg \in 1 .. last /\ off \in Nat /\ Prefix(last) = Size
      /\ Prefix(seg) \in Nat /\ Prefix(seg - 1) \in Nat
      /\ off <= Prefix(seg) - Prefix(seg - 1) /\ Prefix(seg - 1) + off = done
  BY SMTT(15), Prefixes DEF At
<1>2. LenSum(seg, seg) = Prefix(seg) - Prefix(seg - 1)
  BY SMTT(15), <1>1, LenSumPrefix
<1>3. avail = Prefix(seg) - done /\ rest = done + n - Prefix(seg)
  BY SMTT(15), <1>1, <1>2
<1>4. \A k \in seg .. last : LenSum(seg + 1, k) = Prefix(k) - Prefix(seg) /\ Prefix(k) \in Nat
  BY SMTT(15), <1>1, LenSumPrefix, Prefixes
<1> HIDE DEF avail, rest
<1>5. \A k \in seg + 1 .. last : k \in ends <=> done + n < Prefix(k)
  <2> SUFFICES ASSUME NEW k \in seg + 1 .. last
               PROVE  k \in ends <=> done + n < Prefix(k)
    OBVIOUS
  <2>1. k \in seg .. last /\ k \in seg + 1 .. last + 1 /\ k # last + 1
    BY SMTT(15), <1>1
  <2>2. LenSum(seg + 1, k) = Prefix(k) - Prefix(seg) /\ Prefix(k) \in Nat
    BY <1>4, <2>1
  <2>3. rest < LenSum(seg + 1, k) <=> done + n < Prefix(k)
    BY SMTT(40), <1>1, <1>3, <2>2
  <2> QED
    BY <2>1, <2>3
<1>6. CASE n < avail
  <2>1. Resume(seg, off, n) = <<seg, off + n>>
    BY <1>6 DEF Resume, avail
  <2>2. off + n \in 0 .. Prefix(seg) - Prefix(seg - 1) /\ Prefix(seg - 1) + (off + n) = done + n
    <3>1. \A lo, hi, o, d \in Nat : lo + o = d /\ n < hi - d
              => o + n \in 0 .. hi - lo /\ lo + (o + n) = d + n
      BY SMTT(15)
    <3> QED
      BY SMTT(40), <1>1, <1>3, <1>6, <3>1
  <2> QED
    BY SMTT(15), <1>1, <2>1, <2>2 DEF At
<1>7. CASE ~(n < avail)
  <2>1. Prefix(seg) <= done + n
    BY SMTT(15), <1>1, <1>3, <1>7
  <2>2. seg \in Nat /\ seg < last /\ last \in seg + 1 .. last
    BY SMTT(15), <1>1, <2>1
  <2>3. last \in ends
    BY <1>1, <1>5, <2>2
  <2>4. ends \subseteq Nat
    BY SMTT(15), <1>1
  <2>5. PICK m : m = next
    OBVIOUS
  <2>6. m \in ends /\ \A l \in ends : m <= l
    <3> HIDE DEF ends
    <3>1. \E k \in ends : \A l \in ends : k <= l
      BY <2>3, <2>4, LeastNat
    <3> QED
      BY <3>1, <2>5
  <2>7. m \in seg + 1 .. last + 1 /\ m <= last
    BY <2>3, <2>6
  <2>8. m \in seg + 1 .. last /\ m - 1 \in seg .. last /\ m \in Int
    BY SMTT(15), <1>1, <2>7
  <2>9. done + n < Prefix(m)
    <3> HIDE DEF ends
    <3> QED
      BY <1>5, <2>6, <2>8
  <2>10. /\ Prefix(m) \in Nat /\ Prefix(m - 1) \in Nat
         /\ LenSum(seg + 1, m - 1) = Prefix(m - 1) - Prefix(seg)
    BY SMTT(15), <1>1, <1>4, <2>8
  <2>11. Prefix(m - 1) <= done + n
    <3> HIDE DEF ends
    <3>1. CASE m - 1 = seg
      BY <2>1, <3>1
    <3>2. CASE m - 1 # seg
      <4>1. m - 1 \in seg + 1 .. last /\ ~(m <= m - 1)
        BY SMTT(15), <2>2, <2>8, <3>2
      <4>2. m - 1 \notin ends
        BY <2>6, <4>1
      <4> QED
        BY SMTT(15), <1>5, <2>10, <4>1, <4>2
    <3> QED
      BY <3>1, <3>2
  <2>12. Resume(seg, off, n) = <<m, IF m <= last THEN rest - LenSum(seg + 1, m - 1) ELSE 0>>
    BY SMTT(15), <1>7, <2>5 DEF Resume, avail, rest
  <2> HIDE DEF next, ends
  <2>13. rest - LenSum(seg + 1, m - 1) = done + n - Prefix(m - 1)
    <3>1. \A x, y, z \in Nat : (x - y) - (z - y) = x - z
      BY SMTT(15)
    <3>2. done + n \in Nat /\ Prefix(seg) \in Nat /\ Prefix(m - 1) \in Nat
      BY SMTT(15), <1>1, <2>10
    <3>3. (done + n - Prefix(seg)) - (Prefix(m - 1) - Prefix(seg)) = done + n - Prefix(m - 1)
      BY SMTT(15), <3>1, <3>2
    <3> QED
      BY <1>3, <2>10, <3>3
  <2>14. Resume(seg, off, n) = <<m, done + n - Prefix(m - 1)>>
    BY <2>7, <2>12, <2>13
  <2>15. /\ m \in 1 .. last /\ done + n - Prefix(m - 1) \in 0 .. Prefix(m) - Prefix(m - 1)
         /\ Prefix(m - 1) + (done + n - Prefix(m - 1)) = done + n
    <3>1. \A x, y, z \in Nat : z <= x /\ x < y => x - z \in 0 .. y - z /\ z + (x - z) = x
      BY SMTT(15)
    <3>2. done + n \in Nat /\ m \in 1 .. last
      BY SMTT(15), <1>1, <2>8
    <3> QED
      BY SMTT(15), <2>9, <2>10, <2>11, <3>1, <3>2
  <2> QED
    BY SMTT(15), <2>14, <2>15 DEF At
<1> QED
  BY <1>6, <1>7

PosInv ==
    /\ pos = [j \in Jobs |-> pos[j]]
    /\ \A j \in Jobs : ~Started(j) => pos[j] = <<1, 0>>
    /\ \A j \in Jobs : job[j].pc = "write" /\ job[j].kind = "vecBuffered" =>
           job[j].done < Size /\ At(pos[j][1], pos[j][2], job[j].done)

(* A step in which no job gets to write, and none that does goes on. *)
LEMMA PosKept ==
    ASSUME PosInv, pos' = pos,
           \A j \in Jobs : Started(j) => Started(j)',
           \A j \in Jobs : job'[j].pc = "write" => job'[j] = job[j]
    PROVE  PosInv'
BY DEF PosInv, At, Prefix

LEMMA PosWrite ==
    ASSUME FileInv, PosInv, NEW j \in Jobs, Write(j)
    PROVE  PosInv'
<1> USE FileAssumption
<1> DEFINE done == job[j].done
<1>1. PICK n \in 0 .. Size - job[j].done :
        /\ job[j].pc = "write"
        /\ pos' = IF job[j].kind = "vecBuffered"
                  THEN [pos EXCEPT ![j] = Resume(@[1], @[2], n)] ELSE pos
        /\ IF job[j].done + n = Size \/ V(j).loop \/ ~V(j).checked
           THEN job' = [job EXCEPT
                        ![j].done = IF V(j).loop THEN @ + n ELSE Size,
                        ![j].pc = IF job[j].done + n # Size /\ V(j).loop THEN "write"
                                  ELSE IF Syncs(j) THEN "sync"
                                  ELSE IF Padded(j) THEN "trunc" ELSE "rename"]
           ELSE Goes(j, "err")
  BY DEF Write
<1> USE <1>1
<1>2. /\ job \in [Jobs -> JobRec]
      /\ done \in Nat /\ n \in Nat /\ done + n \in 0 .. Size
  BY SMTT(15) DEF FileInv, Typed, JobRec
<1> USE <1>2
<1>3. \A k \in Jobs \ {j} : job'[k] = job[k] /\ pos'[k] = pos[k]
  <2>1. \A k \in Jobs \ {j} : job'[k] = job[k]
    BY DEF Goes
  <2>2. \A k \in Jobs \ {j} : pos'[k] = pos[k]
    BY DEF PosInv
  <2> QED
    BY <2>1, <2>2
<1>4. pos' = [k \in Jobs |-> pos'[k]]
  BY DEF PosInv
<1>5. Started(j)'
  BY SMTT(15) DEF Goes, Started, JobRec
<1>6. job'[j].kind = job[j].kind
  BY SMTT(15) DEF Goes, JobRec
<1>7. ASSUME job'[j].pc = "write", job'[j].kind = "vecBuffered"
      PROVE  job'[j].done < Size /\ At(pos'[j][1], pos'[j][2], job'[j].done)
  <2> USE <1>7
  <2>1. done + n # Size /\ job'[j].done = done + n
    BY SMTT(15) DEF Goes, JobRec
  <2>2. done + n < Size
    BY SMTT(15), <2>1
  <2>3. At(pos[j][1], pos[j][2], done)
    BY <1>6 DEF PosInv
  <2>4. pos'[j] = Resume(pos[j][1], pos[j][2], n)
    BY <1>6 DEF PosInv
  <2>5. At(pos'[j][1], pos'[j][2], done + n)
    BY <2>2, <2>3, <2>4, ResumeAt
  <2> QED
    BY <2>1, <2>2, <2>5
<1>8. \A k \in Jobs : ~Started(k)' => pos'[k] = <<1, 0>>
  BY <1>3, <1>5 DEF PosInv, Started
<1>9. \A k \in Jobs : job'[k].pc = "write" /\ job'[k].kind = "vecBuffered" =>
          job'[k].done < Size /\ At(pos'[k][1], pos'[k][2], job'[k].done)
  BY <1>3, <1>7 DEF PosInv
<1> QED
  BY <1>4, <1>8, <1>9 DEF PosInv, At, Prefix

LEMMA PosOpen ==
    ASSUME FileInv, PosInv, NEW j \in Jobs, Open(j)
    PROVE  PosInv'
<1>1. ~Started(j) /\ pos' = pos /\ Started(j)'
  BY SMTT(15) DEF Open, Started, FileInv, Typed
<1> USE <1>1
<1>2. /\ \A k \in Jobs \ {j} : job'[k] = job[k]
      /\ job'[j].done = job[j].done
  BY SMTT(15) DEF Open, FileInv, Typed
<1> USE <1>2
<1>3. pos'[j] = <<1, 0>> /\ job'[j].done = 0
  BY DEF PosInv, FileInv, Unsubmitted
<1>4. At(1, 0, 0) /\ 0 < Size
  BY SMTT(15), Prefixes, FileAssumption DEF At, Prefix
<1>5. \A k \in Jobs : job'[k].pc = "write" /\ job'[k].kind = "vecBuffered" =>
          job'[k].done < Size /\ At(pos'[k][1], pos'[k][2], job'[k].done)
  BY SMTT(15), <1>3, <1>4 DEF PosInv
<1>6. \A k \in Jobs : ~Started(k)' => pos'[k] = <<1, 0>>
  BY DEF PosInv, Started
<1> QED
  BY <1>5, <1>6 DEF PosInv, At, Prefix

LEMMA PosStep == FullInv /\ PosInv /\ [Next]_vars => PosInv'
<1> SUFFICES ASSUME FullInv, PosInv, [Next]_vars PROVE PosInv'
  OBVIOUS
<1> USE FileAssumption
<1>1. FileInv
  BY DEF FullInv
<1> USE <1>1
<1>2. job \in [Jobs -> JobRec]
  BY DEF FileInv, Typed
<1> USE <1>2
<1>3. ASSUME NEW j \in Jobs, NEW to \in Pcs \ {"new", "queued", "write"}, Goes(j, to),
             to = "open" => ~Started(j), pos' = pos
      PROVE  PosInv'
  <2>1. (\A k \in Jobs \ {j} : job'[k] = job[k]) /\ job'[j].pc = to
    BY SMTT(15), <1>3 DEF Goes
  <2> QED
    BY <1>3, <2>1, PosKept DEF Started
<1> USE <1>3
<1>4. ASSUME pos' = pos, job' = job PROVE PosInv'
  BY <1>4, PosKept DEF Started
<1> USE <1>4
<1>5. ASSUME NEW c \in Calls, Submit(c) PROVE PosInv'
  <2>1. \A j \in Jobs : \/ job'[j] = job[j]
                        \/ job[j].pc = "new" /\ job'[j].pc = "queued"
    BY SMTT(15), <1>5 DEF Submit, FileInv, Unsubmitted
  <2> QED
    BY <1>5, <2>1, PosKept DEF Submit, Started
<1>6. ASSUME Crash PROVE PosInv'
  <2>1. \A j \in Jobs : job'[j] = job[j] \/ job'[j].pc = "err"
    BY SMTT(15), <1>6 DEF Crash
  <2> QED
    BY <1>6, <2>1, PosKept DEF Crash, Started
<1>7. ASSUME NEW j \in Jobs, Step(j) PROVE PosInv'
  <2>1. CASE Take(j)
    BY <2>1 DEF Take, Goes, Started, Pcs
  <2>2. CASE Sync(j)
    BY <2>2 DEF Sync, Pcs
  <2>3. CASE Trunc(j)
    BY <2>3 DEF Trunc, Pcs
  <2>4. CASE Rename(j)
    BY <2>4 DEF Rename, Pcs
  <2> QED
    BY <1>7, <2>1, <2>2, <2>3, <2>4, PosOpen, PosWrite DEF Step
<1>8. ASSUME NEW j \in Jobs, Fails(j) PROVE PosInv'
  BY <1>8 DEF Fails, Pcs
<1>9. ASSUME NEW j \in Jobs, LateWrite(j) PROVE PosInv'
  BY <1>9 DEF LateWrite, Pcs
<1>10. ASSUME NEW c \in Calls, Return(c) PROVE PosInv'
  BY <1>10 DEF Return
<1>11. ASSUME NEW p \in Paths, Delete(p) PROVE PosInv'
  BY <1>11 DEF Delete
<1>12. ASSUME NEW q \in Readers, ReadStat(q) \/ ReadOpen(q) \/ ReadBytes(q) \/ ReadDone(q)
       PROVE  PosInv'
  BY <1>12 DEF ReadStat, ReadOpen, ReadBytes, ReadDone
<1>13. CASE UNCHANGED vars
  BY <1>13 DEF vars
<1> QED
  BY <1>5, <1>6, <1>7, <1>8, <1>9, <1>10, <1>11, <1>12, <1>13 DEF Next

(* write_vec_impl_buffered, whatever short writes it is given and however    *)
(* the segments are cut, empty ones included, goes on inside a segment and   *)
(* at the first byte that is not written.                                    *)
THEOREM ResumesExactly == Spec => []ResumeExact
<1>1. Init => PosInv
  BY SMTT(15) DEF Init, PosInv, NewJob, Started
<1>2. PosInv => ResumeExact
  <2> SUFFICES ASSUME PosInv, NEW j \in Jobs,
                      job[j].kind = "vecBuffered", job[j].pc = "write"
               PROVE  /\ pos[j][1] \in DOMAIN Ends
                      /\ pos[j][2] \in 0 .. LenSum(pos[j][1], pos[j][1])
                      /\ LenSum(1, pos[j][1] - 1) + pos[j][2] = job[j].done
    BY DEF ResumeExact
  <2>1. At(pos[j][1], pos[j][2], job[j].done)
    BY DEF PosInv
  <2> QED
    BY SMTT(15), <2>1, Prefixes, LenSumPrefix DEF At
<1> QED
  BY <1>1, <1>2, PosStep, FilesInductive, PTL DEF Spec
=============================================================================
