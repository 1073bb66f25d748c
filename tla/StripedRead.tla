---------------------------- MODULE StripedRead -----------------------------
(* GETs of the key whose PUTs StripedPut describes, at the grain of one read *)
(* of one file.  The paths differ in who reads, in what order the bytes are  *)
(* handed on, what is verified, and which errors make the reader drop the    *)
(* object's metadata:                                                        *)
(*   "get"     get_with_meta, get_chunks_with_meta, get_batch: all stripes,  *)
(*             then the checks, then the answer;                             *)
(*   "ptr"     get_into_ptr: the same into one buffer, lengths checked;      *)
(*   "placed"  read_chunks_by_placement: each stripe from its own node;      *)
(*   "stream"  the get_stream pipeline: ReadAhead stripes at a time, sent in *)
(*             order;                                                        *)
(*   "rdma"    get_into_ptr_stream_with_meta: subranges in any order;        *)
(*   "subset"  read_striped_subset_into_ptr_stream: one node's stripes.      *)
EXTENDS StripedPut

CONSTANTS
    Readers,    \* GET handlers that can be active at once
    ReadAhead   \* READ_AHEAD of get_stream

(* A configuration's load includes its GETs: readers and kinds. *)
ASSUME StripedReadAssumption ==
    /\ ReadAhead \in Nat \ {0}
    /\ \A c \in Configs :
        /\ c.readers \subseteq Readers
        /\ c.kinds \subseteq {"get", "ptr", "placed", "stream", "rdma", "subset"}

VARIABLES
    r,        \* GET handlers
    shaken    \* history: generations dropped after an I/O error of an intact file

vars == <<putVars, r, shaken>>

NoRead == [pc |-> "idle", kind |-> "none", at |-> "none", desc |-> 0, gen |-> 0,
           want |-> {}, res |-> [rd \in {} |-> "none"], sent |-> {}, out |-> "none"]

-----------------------------------------------------------------------------
(* The reads of a request. *)

Subranged == {"rdma", "subset"}

(* The units of the executor's work: a whole stripe, or its subranges of     *)
(* rdma_stream_chunk_size (one unit of length here).                         *)
ReadsOf(kind, g, ss) ==
    IF kind \in Subranged
    THEN UNION {{<<s, i>> : i \in 1 .. obj[g].lens[s + 1]} : s \in ss}
    ELSE {<<s, 1>> : s \in ss}

(* The stripes a request of this kind to this node is about. *)
Share(kind, g, n) ==
    IF kind = "subset" THEN {s \in StripesOf(g) : NodeOf(g, s) = n} ELSE StripesOf(g)

Remote(g, n) == \E s \in StripesOf(g) : NodeOf(g, s) # n

(* Which path serves which object: a stripe on another node sends get and    *)
(* get_stream through the placement; the single-endpoint RDMA GET refuses    *)
(* such an object, and a subset needs a striped one.                         *)
Serves(kind, g, n) ==
    CASE kind = "placed" -> obj[g].mode \in {"streamed", "bytes"} /\ Remote(g, n)
      [] kind = "subset" -> obj[g].mode # "single" /\ Share(kind, g, n) # {}
      [] kind = "stream" -> obj[g].mode # "single" /\ ~Remote(g, n)
      [] kind = "rdma" -> obj[g].mode = "striped" /\ ~Remote(g, n)
      [] kind = "ptr" -> obj[g].mode \in {"striped", "single"} /\ ~Remote(g, n)
      [] OTHER -> ~Remote(g, n)

(* What one read of the file finds: only the last subrange of a short file   *)
(* is short.                                                                 *)
Content(kind, g, rd) ==
    LET s == rd[1] IN
    IF file[g][s] = "short" /\ kind \in Subranged /\ rd[2] < obj[g].lens[s + 1]
    THEN "good" ELSE file[g][s]

(* The node that reads a stripe, and whether it checks the checksum.         *)
(* A single file carries none and is not verified.                           *)
Reader(q, s) == IF r[q].kind = "placed" THEN NodeOf(r[q].gen, s) ELSE r[q].at
Verifies(q, s) == obj[r[q].gen].mode # "single" /\ conf.verify[Reader(q, s)]

(* Mutant: the checksum is not compared. *)
VerdictUnverified(q, s) ==
    LET found == {r[q].res[rd] : rd \in {x \in DOMAIN r[q].res : x[1] = s}} IN
    IF "err" \in found THEN "error" ELSE IF "none" \in found THEN "missing" ELSE "ok"

(* The outcome of one stripe, given what its reads found.  "missing" is the  *)
(* NotFound error (no file, no checksum, a mismatch), "error" an Internal    *)
(* one; the coordinator takes any error of another node as Unavailable.      *)
Verdict(q, s) ==
    LET g == r[q].gen
        found == {r[q].res[rd] : rd \in {x \in DOMAIN r[q].res : x[1] = s}}
        kind == r[q].kind
        unverified == Verifies(q, s) /\ (~HasSum(g, s) \/ found # {"good"})
        tooShort == "short" \in found /\ kind = "ptr" /\ obj[g].mode # "single"
    IN
    IF \/ "err" \in found
       \/ kind = "placed" /\ "short" \in found
       \/ Reader(q, s) # r[q].at /\ ("none" \in found \/ unverified)
    THEN "error"
    ELSE IF "none" \in found \/ tooShort \/ unverified THEN "missing" ELSE "ok"

ReadsOn(q, s) == {rd \in r[q].want : rd[1] = s}
Complete(q, s) == ReadsOn(q, s) \subseteq DOMAIN r[q].res
AllRead(q) == DOMAIN r[q].res = r[q].want
Handled(q) == {e.rd : e \in r[q].sent}

-----------------------------------------------------------------------------
(* Metadata. *)

(* Mutant: the metadata goes whatever generation it has by now. *)
DropAny(g) ==
    IF meta # 0 THEN meta' = 0 /\ expired' = FALSE /\ UNCHANGED retired
    ELSE UNCHANGED life

(* delete_metadata_if_current, delete_block_if_matches: the metadata goes    *)
(* if it is still this generation's; the files are not queued.               *)
DropMatching(g) ==
    IF meta = g THEN meta' = 0 /\ expired' = FALSE /\ UNCHANGED retired
    ELSE UNCHANGED life

(* metadata_get_live, purge_if_expired: an expired object is retired. *)
Live == meta # 0 /\ ~expired
PurgeExpired == IF meta # 0 /\ expired THEN Retire ELSE UNCHANGED life

files == <<conf, counter, obj, task, file, h, ghosts>>

-----------------------------------------------------------------------------
(* Handlers. *)

(* lookup_object: the client keeps a descriptor of the current generation. *)
Lookup(q) ==
    /\ r[q].pc = "idle" /\ r[q].desc = 0 /\ meta # 0 /\ q \in conf.readers
    /\ PurgeExpired
    /\ r' = IF Live THEN [r EXCEPT ![q].desc = meta] ELSE r
    /\ UNCHANGED <<files, faults, shaken>>

(* The metadata is read once, and the descriptor checked against it. *)
GetBegin(q) ==
    /\ r[q].pc = "idle" /\ meta # 0 /\ q \in conf.readers
    /\ IF ~Live \/ (r[q].desc # 0 /\ r[q].desc # meta)
       THEN r' = [r EXCEPT ![q].pc = "done", ![q].out = "miss"] /\ PurgeExpired
       ELSE /\ \E kind \in conf.kinds, n \in Nodes :
                /\ Serves(kind, meta, n)
                /\ r' = [r EXCEPT ![q].pc = "read", ![q].kind = kind, ![q].at = n,
                                  ![q].gen = meta,
                                  ![q].want = ReadsOf(kind, meta, Share(kind, meta, n))]
            /\ UNCHANGED life
    /\ UNCHANGED <<files, faults, shaken>>

(* The pipeline of get_stream keeps ReadAhead stripes going; the others read *)
(* everything at once.                                                       *)
Started(q, rd) == r[q].kind = "stream" => rd[1] < Cardinality(r[q].sent) + ReadAhead

(* One read, by this node's executor or by read_placement_chunk of the node  *)
(* that owns the stripe, which first looks the object up again.              *)
ReadOne(q, rd) ==
    LET g == r[q].gen
        remote == Reader(q, rd[1]) # r[q].at
        stale == remote /\ ~(Live /\ meta = g)
    IN
    /\ r[q].pc = "read" /\ rd \in r[q].want \ DOMAIN r[q].res /\ Started(q, rd)
    /\ \E c \in {"err", Content(r[q].kind, g, rd)} :
        /\ IF c = "err" /\ ~stale THEN Fault("read") ELSE UNCHANGED faults
        /\ stale => c = "err"
        /\ r' = [r EXCEPT ![q].res = [x \in DOMAIN @ \cup {rd} |-> IF x = rd THEN c ELSE @[x]]]
    /\ IF stale THEN PurgeExpired ELSE UNCHANGED life
    /\ UNCHANGED <<files, shaken>>

(* What is handed over: a piece of the object and what it holds, with its    *)
(* place in the reply, or 0 when it carries its own offset.                  *)
Sends(q, rds, pos) == {[rd |-> rd, c |-> r[q].res[rd], pos |-> pos] : rd \in rds}
Fails(rd) == {[rd |-> rd, c |-> "fail", pos |-> 0]}

(* Every stripe has been read; the first bad one in index order decides. *)
Answer(q, drops) ==
    LET g == r[q].gen IN
    /\ r[q].pc = "read" /\ AllRead(q)
    /\ \E bad \in {{s \in StripesOf(g) : Verdict(q, s) # "ok"}} :
        IF bad = {}
        THEN /\ r' = [r EXCEPT ![q].pc = "done", ![q].out = "ok",
                  ![q].sent = UNION {Sends(q, {<<s, 1>>}, s) : s \in StripesOf(g)}]
             /\ UNCHANGED life
        ELSE \E first \in {s \in bad : \A t \in bad : s <= t} :
             /\ r' = [r EXCEPT ![q].pc = "done",
                  ![q].out = IF Verdict(q, first) = "missing" THEN "miss" ELSE "error"]
             /\ IF Verdict(q, first) = "missing" /\ drops THEN DropMatching(g) ELSE UNCHANGED life
    /\ UNCHANGED <<files, faults, shaken>>

GetChunks(q) == r[q].kind = "get" /\ Answer(q, TRUE)
GetIntoPtr(q) == r[q].kind = "ptr" /\ Answer(q, TRUE)
ReadChunksByPlacement(q) == r[q].kind = "placed" /\ Answer(q, FALSE)

(* "stream": the next stripe in order, or the error that ends the stream. *)
StreamSend(q) ==
    LET s == Cardinality(r[q].sent) IN
    /\ r[q].pc = "read" /\ r[q].kind = "stream" /\ s \in StripesOf(r[q].gen)
    /\ Complete(q, s)
    /\ r' = IF Verdict(q, s) = "ok" THEN [r EXCEPT ![q].sent = @ \cup Sends(q, ReadsOn(q, s), s)]
            ELSE [r EXCEPT ![q].pc = "done", ![q].out = "error"]
    /\ UNCHANGED <<files, life, faults, shaken>>

(* Integrity on: a stripe is handed on when all its subranges are there and  *)
(* its checksum matches; otherwise one error event stands for it.            *)
StripeEvent(q, s) ==
    LET ok == Verdict(q, s) = "ok" IN
    /\ r[q].pc = "read" /\ Verifies(q, s)
    /\ ReadsOn(q, s) # {} /\ Complete(q, s) /\ Handled(q) \cap ReadsOn(q, s) = {}
    /\ r' = [r EXCEPT ![q].sent = @ \cup (IF ok THEN Sends(q, ReadsOn(q, s), 0) ELSE Fails(<<s, 1>>))]
    /\ UNCHANGED <<files, faults>>

(* The whole-object stream drops the metadata whatever the error was. *)
ObjectStripe(q, s) ==
    /\ r[q].kind = "rdma" /\ StripeEvent(q, s)
    /\ IF Verdict(q, s) # "ok" THEN DropMatching(r[q].gen) ELSE UNCHANGED life
    /\ shaken' = IF Verdict(q, s) = "error" THEN shaken \cup {r[q].gen} ELSE shaken
SubsetStripe(q, s) ==
    r[q].kind = "subset" /\ StripeEvent(q, s) /\ UNCHANGED <<life, shaken>>

(* Integrity off: every subrange is handed on as it was read. *)
SubrangeEvent(q, rd) ==
    /\ r[q].pc = "read" /\ ~Verifies(q, rd[1])
    /\ rd \in DOMAIN r[q].res \ Handled(q)
    /\ r' = [r EXCEPT ![q].sent = @ \cup (IF r[q].res[rd] \in {"none", "err"} THEN Fails(rd)
                                           ELSE Sends(q, {rd}, 0))]
    /\ UNCHANGED <<files, faults, shaken>>

(* Only a missing file makes the whole-object stream drop the metadata. *)
ObjectSubrange(q, rd) ==
    /\ r[q].kind = "rdma" /\ SubrangeEvent(q, rd)
    /\ IF r[q].res[rd] = "none" THEN DropMatching(r[q].gen) ELSE UNCHANGED life
SubsetSubrange(q, rd) == r[q].kind = "subset" /\ SubrangeEvent(q, rd) /\ UNCHANGED life

(* The stream or the event channel has been drained. *)
GetDrained(q) ==
    /\ r[q].pc = "read" /\ r[q].kind \notin {"get", "ptr", "placed"}
    /\ {rd[1] : rd \in Handled(q)} = {rd[1] : rd \in r[q].want}
    /\ AllRead(q)
    /\ \A rd \in r[q].want : rd \in Handled(q) \/ Verifies(q, rd[1])
    /\ r' = [r EXCEPT ![q].pc = "done",
                      ![q].out = IF \E e \in r[q].sent : e.c = "fail"
                                 THEN "error" ELSE "ok"]
    /\ UNCHANGED <<files, life, faults, shaken>>

GetForget(q) ==
    /\ r[q].pc = "done"
    /\ r' = [r EXCEPT ![q] = NoRead]
    /\ UNCHANGED <<putVars, shaken>>

GetStep(q) ==
    \/ \E rd \in r[q].want : ReadOne(q, rd) \/ ObjectSubrange(q, rd) \/ SubsetSubrange(q, rd)
    \/ \E s \in Stripes : ObjectStripe(q, s) \/ SubsetStripe(q, s)
    \/ GetChunks(q) \/ GetIntoPtr(q) \/ ReadChunksByPlacement(q)
    \/ StreamSend(q) \/ GetDrained(q)

ReadInit == Init /\ r = [q \in Readers |-> NoRead] /\ shaken = {}

Next ==
    \/ PutNext /\ UNCHANGED <<r, shaken>>
    \/ \E q \in Readers : Lookup(q) \/ GetBegin(q) \/ GetStep(q) \/ GetForget(q)

Spec == ReadInit /\ [][Next]_vars

(* Threads run: while a PUT handler or a stripe write can go on, one of them *)
(* does, and the same for the GETs.  A client goes on sending its body.      *)
(* Nobody need start a request, and no fault need happen.                    *)
PutProgress ==
    /\ \/ \E p \in Putters : PutStep(p)
       \/ \E g \in Gens, s \in Stripes : StripeWrite(g, s)
    /\ UNCHANGED <<r, shaken>>
GetProgress == \E q \in Readers : GetStep(q)

FairSpec == Spec /\ WF_vars(PutProgress) /\ WF_vars(GetProgress)

-----------------------------------------------------------------------------
(* Properties of GET. *)

(* What a client is given.  A GET that succeeds has handed over every byte   *)
(* of one generation (the descriptor's, if it had one), in order unless each *)
(* piece carries its offset.  A piece the reading node verifies is good even *)
(* when the rest of the GET fails, and one it does not verify is bad only if *)
(* the device damaged that generation.                                       *)
Delivered ==
    \A q \in Readers :
        /\ r[q].out = "ok" =>
            /\ Handled(q) = r[q].want /\ r[q].desc \in {0, r[q].gen}
            /\ r[q].kind \notin Subranged => \A e \in r[q].sent : e.pos = e.rd[1]
        /\ \A e \in r[q].sent :
            e.c \in {"good", "fail"} \/ (r[q].gen \in hurt /\ ~Verifies(q, e.rd[1]))

Spoilt(g) ==
    \E s \in StripesOf(g) :
        file[g][s] # "good" \/ (~HasSum(g, s) /\ \E n \in Nodes : conf.verify[n])

(* A reader drops metadata (the one way it leaves without being retired)     *)
(* only of the generation it read and only if that generation cannot be      *)
(* served: never a newer one, never an intact one, except that the           *)
(* verifying stream drops on an I/O error too.                               *)
KeepsIntact ==
    [][meta # 0 /\ meta' = 0 /\ meta \notin retired' => Spoilt(meta) \/ meta \in shaken']_vars

(* Every PUT and every GET ends: back-pressure, the drain of the stripe      *)
(* writes, the clean-up and the hand-over of stripes all make progress,      *)
(* whatever fails.                                                           *)
RequestsEnd ==
    /\ \A p \in Putters : h[p].pc # "idle" ~> h[p].pc = "idle"
    /\ \A q \in Readers : r[q].pc = "read" ~> r[q].pc # "read"
=============================================================================
