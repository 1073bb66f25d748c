------------------------- MODULE ObjectStoreProofs -------------------------
(* TLAPS proofs about ObjectStore, for every set of nodes, mounts, handlers  *)
(* and GC workers, every bound and every kind of PUT: who is in charge of a  *)
(* generation's files, that the current one can be read, and, where the      *)
(* nodes see the same files, that what has left the key is tracked until it  *)
(* is collected.                                                             *)
EXTENDS ObjectStore, TLAPS

(* Time limits of the provers, for a busy machine. *)
USE ZenonT(10), SMTT(15)

PutPcs == {"drop", "prepare", "write", "commit", "rerun", "rollback"}
OwnerPcs == {"write", "commit", "rerun", "rollback"}
GenPcs == OwnerPcs \cup {"purge", "read", "heal"}
BusyPcs == {"delete", "complete", "erase", "unlease", "store", "requeue"}

(* What a program counter says of the record it is in: a PUT knows its kind  *)
(* and node, one that has prepared and a read know their generation, and a   *)
(* GC worker past GcNext knows its task.                                     *)
Shape ==
    /\ \A p \in Handlers : h[p].pc \in PutPcs => h[p].kind \in Kinds /\ h[p].at \in Nodes
    /\ \A p \in Handlers : h[p].pc \in GenPcs => h[p].gen \in Gens
    /\ \A n \in Nodes : w[n].pc \in BusyPcs => w[n].task \in Gens

TypeInv == TypeOK /\ Shape

(* The files of any layout are files of the cluster. *)
LEMMA FilesOfType ==
    ASSUME NEW k, NEW m \in Mounts PROVE FilesOf(k, m) \in SUBSET Files
BY SMTT(15), ConstantsAssumption DEF FilesOf, Files, Parts

(* An idle handler is well typed. *)
LEMMA NoHandlerType == NoHandler \in HandlerState
BY DEF NoHandler, HandlerState

(* An idle GC worker is well typed. *)
LEMMA NoWorkType == NoWork \in WorkerState
BY DEF NoWork, WorkerState

(* The empty store is well typed. *)
LEMMA InitTypeInv == Init => TypeInv
<1> SUFFICES ASSUME Init PROVE TypeInv
  OBVIOUS
<1>1. h \in [Handlers -> HandlerState] /\ w \in [Nodes -> WorkerState]
  BY NoHandlerType, NoWorkType DEF Init
<1>2. Shape
  BY DEF Init, Shape, NoHandler, NoWork, PutPcs, OwnerPcs, GenPcs, BusyPcs
<1>3. expired \in BOOLEAN
  BY DEF Init
<1> QED
  BY SMTT(15), <1>1, <1>2, <1>3, ConstantsAssumption DEF Init, TypeInv, TypeOK

(* Redis scripts keep the types of what they change. *)
LEMMA ReplaceBlockType ==
    ASSUME TypeOK, NEW g \in Gens, ReplaceBlock(g)
    PROVE  /\ meta' \in Gens \cup {0} /\ expired' \in BOOLEAN /\ payload' \in SUBSET Gens
           /\ due' \in [Gens -> {"no", "wait", "ripe"}]
           /\ inflight' \in [Gens -> {"no", "leased", "lapsed"}]
           /\ published' \in SUBSET Gens
<1>1. meta \in Gens \cup {0} /\ meta' \in Gens \cup {0}
  BY DEF TypeOK, ReplaceBlock
<1>2. expired' \in BOOLEAN
  BY DEF TypeOK, ReplaceBlock
<1>3. published' \in SUBSET Gens
  BY DEF TypeOK, ReplaceBlock
<1>4. /\ payload' \in SUBSET Gens
      /\ due' \in [Gens -> {"no", "wait", "ripe"}]
      /\ inflight' \in [Gens -> {"no", "leased", "lapsed"}]
  <2>1. CASE meta = 0
    BY <2>1 DEF TypeOK, ReplaceBlock
  <2>2. CASE meta # 0
    <3>1. EnqueueGc(meta) /\ meta \in Gens
      BY <1>1, <2>2 DEF ReplaceBlock
    <3> QED
      BY <3>1 DEF TypeOK, EnqueueGc
  <2> QED
    BY <2>1, <2>2
<1> QED
  BY <1>1, <1>2, <1>3, <1>4

(* A fault is counted within its bound. *)
LEMMA FaultType == ASSUME TypeOK, Fault PROVE faults' \in 0 .. MaxFaults
BY SMTT(15), ConstantsAssumption DEF TypeOK, Fault

(* put_block_if_absent changes the metadata only. *)
LEMMA PutBlockIfAbsentType ==
    ASSUME TypeOK, NEW g \in Gens, PutBlockIfAbsent(g)
    PROVE  /\ meta' \in Gens \cup {0} /\ expired' \in BOOLEAN /\ payload' \in SUBSET Gens
           /\ due' \in [Gens -> {"no", "wait", "ripe"}]
           /\ inflight' \in [Gens -> {"no", "leased", "lapsed"}]
           /\ published' \in SUBSET Gens
BY DEF TypeOK, PutBlockIfAbsent

(* Retiring, with or without a comparison, queues a task of the right type. *)
LEMMA RetireBlockType ==
    ASSUME TypeOK, NEW g, RetireBlockIfMatches(g) \/ RetireBlock
    PROVE  /\ meta' \in Gens \cup {0} /\ expired' \in BOOLEAN /\ payload' \in SUBSET Gens
           /\ due' \in [Gens -> {"no", "wait", "ripe"}]
           /\ inflight' \in [Gens -> {"no", "leased", "lapsed"}]
BY DEF TypeOK, RetireBlockIfMatches, RetireBlock, EnqueueGc

(* A handler's record is replaced; a handler moves on, or returns. *)
LEMMA UpdateType ==
    ASSUME TypeInv, NEW p \in Handlers, NEW r \in HandlerState,
           h' = [h EXCEPT ![p] = r],
           r.pc \in PutPcs => r.kind \in Kinds /\ r.at \in Nodes,
           r.pc \in GenPcs => r.gen \in Gens
    PROVE  /\ h' \in [Handlers -> HandlerState]
           /\ \A q \in Handlers : h'[q].pc \in PutPcs => h'[q].kind \in Kinds /\ h'[q].at \in Nodes
           /\ \A q \in Handlers : h'[q].pc \in GenPcs => h'[q].gen \in Gens
BY DEF TypeInv, TypeOK, Shape

(* A handler that moves on within its request keeps its record. *)
LEMMA GotoType ==
    ASSUME TypeInv, NEW p \in Handlers, NEW l, Goto(p, l),
           l \in {"rerun", "rollback", "read", "heal"},
           h[p].pc \in GenPcs,
           l \in PutPcs => h[p].pc \in OwnerPcs
    PROVE  /\ h' \in [Handlers -> HandlerState]
           /\ \A q \in Handlers : h'[q].pc \in PutPcs => h'[q].kind \in Kinds /\ h'[q].at \in Nodes
           /\ \A q \in Handlers : h'[q].pc \in GenPcs => h'[q].gen \in Gens
<1> DEFINE r == [h[p] EXCEPT !.pc = l]
<1>1. h[p] \in HandlerState
  BY DEF TypeInv, TypeOK
<1>2. /\ r \in HandlerState /\ r.pc = l
      /\ r.gen = h[p].gen /\ r.kind = h[p].kind /\ r.at = h[p].at
  BY <1>1 DEF HandlerState
<1>3. h' = [h EXCEPT ![p] = r]
  BY DEF Goto
<1>4. h[p].gen \in Gens /\ (l \in PutPcs => h[p].kind \in Kinds /\ h[p].at \in Nodes)
  BY DEF TypeInv, Shape, PutPcs, OwnerPcs
<1> HIDE DEF r
<1> QED
  BY <1>2, <1>3, <1>4, UpdateType

(* A handler that returns is idle again. *)
LEMMA ReturnType ==
    ASSUME TypeInv, NEW p \in Handlers, Return(p)
    PROVE  /\ h' \in [Handlers -> HandlerState]
           /\ \A q \in Handlers : h'[q].pc \in PutPcs => h'[q].kind \in Kinds /\ h'[q].at \in Nodes
           /\ \A q \in Handlers : h'[q].pc \in GenPcs => h'[q].gen \in Gens
BY NoHandlerType DEF TypeInv, TypeOK, Shape, Return, NoHandler, PutPcs, OwnerPcs, GenPcs

(* A worker that is done with a task goes to its next one, or idle. *)
LEMMA NextTaskType ==
    ASSUME TypeInv, NEW n \in Nodes, NextTask(n)
    PROVE  /\ w' \in [Nodes -> WorkerState]
           /\ \A m \in Nodes : w'[m].pc \in BusyPcs => w'[m].task \in Gens
BY DEF TypeInv, TypeOK, Shape, NextTask, WorkerState, BusyPcs

(* A step that changes its handler, and files at most, is well typed when    *)
(* the handler and the files are.                                            *)
LEMMA HandlerOnlyType ==
    ASSUME TypeInv, UNCHANGED <<redisVars, layout, home, w, ghostVars>>,
           files' \in [Gens -> SUBSET Files], faults' \in 0 .. MaxFaults,
           h' \in [Handlers -> HandlerState],
           \A q \in Handlers : h'[q].pc \in PutPcs => h'[q].kind \in Kinds /\ h'[q].at \in Nodes,
           \A q \in Handlers : h'[q].pc \in GenPcs => h'[q].gen \in Gens
    PROVE  TypeInv'
<1>1. TypeOK'
  BY DEF TypeInv, TypeOK, redisVars, ghostVars
<1>2. Shape'
  BY DEF TypeInv, Shape
<1> QED
  BY <1>1, <1>2 DEF TypeInv

(* Every step of a request handler preserves the type invariant. *)
LEMMA HandlerTypeStep ==
    ASSUME TypeInv, NEW p \in Handlers, Request(p) \/ HandlerStep(p) \/ HandlerFault(p)
    PROVE  TypeInv'
<1>0. h[p] \in HandlerState
  BY DEF TypeInv, TypeOK
<1> USE <1>0
<1> USE DEF TypeInv
<1>1. ASSUME NEW n \in Nodes, NEW k \in Kinds, NEW x \in BOOLEAN, PutBegin(p, n, k, x)
      PROVE  TypeInv'
  <2> DEFINE l == IF x /\ meta # 0 THEN "drop" ELSE "prepare"
             m == IF x THEN meta ELSE 0
             r == [NoHandler EXCEPT !.pc = l, !.gen = m, !.at = n, !.kind = k, !.ifAbsent = x]
  <2>1. l \in {"drop", "prepare"} /\ m \in Gens \cup {0}
    BY DEF TypeOK
  <2>2. h' = [h EXCEPT ![p] = r]
    BY <1>1, Zenon DEF PutBegin
  <2> HIDE DEF l, m
  <2>3. r \in HandlerState
    BY ZenonT(40), <2>1, NoHandlerType DEF HandlerState
  <2>4. r.pc \notin GenPcs /\ r.kind \in Kinds /\ r.at \in Nodes
    BY <2>1 DEF NoHandler, OwnerPcs, GenPcs
  <2> HIDE DEF r
  <2>5. UNCHANGED <<redisVars, diskVars, w, ghostVars, faults>>
    BY <1>1 DEF PutBegin
  <2>6. files' \in [Gens -> SUBSET Files] /\ faults' \in 0 .. MaxFaults
    BY <2>5 DEF TypeOK, diskVars
  <2>7. UNCHANGED <<redisVars, layout, home, w, ghostVars>>
    BY <2>5 DEF diskVars
  <2> QED
    BY <2>2, <2>3, <2>4, <2>6, <2>7, UpdateType, HandlerOnlyType
<1>2. ASSUME NEW n \in Gateways, NEW k \in ReadKinds, ReadBegin(p, n, k)
      PROVE  TypeInv'
  <2> USE <1>2
  <2> DEFINE l == IF expired THEN "purge" ELSE "read"
             r == [NoHandler EXCEPT !.pc = l, !.at = n, !.kind = k, !.gen = meta]
  <2>1. l \in {"purge", "read"} /\ meta \in Gens /\ n \in Nodes
    BY ConstantsAssumption DEF TypeOK, ReadBegin
  <2>2. h' = [h EXCEPT ![p] = r]
    BY DEF ReadBegin
  <2> HIDE DEF l
  <2>3. r \in HandlerState
    BY <2>1, NoHandlerType DEF HandlerState
  <2>4. r.pc \notin PutPcs /\ r.gen \in Gens
    BY <2>1 DEF NoHandler, PutPcs
  <2> HIDE DEF r
  <2>5. UNCHANGED <<redisVars, diskVars, w, ghostVars, faults>>
    BY DEF ReadBegin
  <2>6. files' \in [Gens -> SUBSET Files] /\ faults' \in 0 .. MaxFaults
    BY <2>5 DEF TypeOK, diskVars
  <2>7. UNCHANGED <<redisVars, layout, home, w, ghostVars>>
    BY <2>5 DEF diskVars
  <2> QED
    BY <2>2, <2>3, <2>4, <2>6, <2>7, UpdateType, HandlerOnlyType
<1>3. CASE PutDropExpired(p)
  <2> USE <1>3
  <2> DEFINE r == [h[p] EXCEPT !.pc = "prepare", !.gen = 0]
  <2>1. h[p].kind \in Kinds /\ h[p].at \in Nodes
    BY DEF PutDropExpired, Shape, PutPcs
  <2>2. r \in HandlerState /\ r.pc = "prepare" /\ r.kind = h[p].kind /\ r.at = h[p].at
    BY DEF HandlerState
  <2>3. h' = [h EXCEPT ![p] = r]
    BY DEF PutDropExpired
  <2> HIDE DEF r
  <2> QED
    BY SMTT(15), <2>1, <2>2, <2>3, UpdateType, RetireBlockType DEF TypeOK, Shape, PutDropExpired, OwnerPcs,
       GenPcs, diskVars, ghostVars
<1>4. CASE PutPrepare(p)
  <2> USE <1>4
  <2>1. FilesOf(h[p].kind, MountOf[h[p].at]) \in SUBSET Files /\ MountOf[h[p].at] \in Mounts
    BY FilesOfType, ConstantsAssumption DEF PutPrepare, Shape, PutPcs
  <2>2. PICK g \in Gens :
           /\ counter' = g
           /\ layout' = [layout EXCEPT ![g] = h[p].kind]
           /\ home' = [home EXCEPT ![g] = MountOf[h[p].at]]
           /\ h' = [h EXCEPT ![p] = [h[p] EXCEPT !.pc = "write", !.gen = g,
                                       !.todo = FilesOf(h[p].kind, MountOf[h[p].at])]]
    BY DEF PutPrepare
  <2> USE <2>2
  <2> DEFINE r == [h[p] EXCEPT !.pc = "write", !.gen = g,
                                !.todo = FilesOf(h[p].kind, MountOf[h[p].at])]
  <2>3. h[p].kind \in Kinds /\ h[p].at \in Nodes
    BY DEF PutPrepare, Shape, PutPcs
  <2>4. r \in HandlerState /\ r.gen = g /\ r.kind = h[p].kind /\ r.at = h[p].at
    BY <2>1 DEF HandlerState
  <2>5. h' = [h EXCEPT ![p] = r]
    OBVIOUS
  <2>6. UNCHANGED <<meta, expired, due, inflight, payload, files, w, ghostVars, faults>>
    BY DEF PutPrepare
  <2> HIDE DEF r
  <2> QED
    <3>1. counter' \in 0 .. MaxGen
      BY SMTT(15), ConstantsAssumption DEF Gens
    <3>2. layout' \in [Gens -> Kinds \cup {"none"}] /\ home' \in [Gens -> Mounts \cup {"none"}]
      BY <2>1, <2>3 DEF TypeOK
    <3>3. h' \in [Handlers -> HandlerState] /\ Shape'
      BY <2>3, <2>4, <2>5, <2>6, UpdateType DEF Shape
    <3> QED
      BY <2>6, <3>1, <3>2, <3>3 DEF TypeOK, ghostVars
<1>5. ASSUME NEW f \in Files, PutWrite(p, f)
      PROVE  TypeInv'
  <2> USE <1>5
  <2> DEFINE r == [h[p] EXCEPT !.todo = h[p].todo \ {f},
                                !.pc = IF h[p].todo = {f} THEN "commit" ELSE "write"]
  <2>1. h[p].kind \in Kinds /\ h[p].at \in Nodes /\ h[p].gen \in Gens
    BY DEF PutWrite, Shape, PutPcs, OwnerPcs, GenPcs
  <2>2. r \in HandlerState /\ r.gen = h[p].gen /\ r.kind = h[p].kind /\ r.at = h[p].at
    BY DEF HandlerState
  <2>3. h' = [h EXCEPT ![p] = r]
    BY DEF PutWrite
  <2> HIDE DEF r
  <2>4. files' \in [Gens -> SUBSET Files]
    BY <2>1 DEF TypeOK, PutWrite
  <2> QED
    <3>1. UNCHANGED <<redisVars, layout, home, w, ghostVars>> /\ faults' \in 0 .. MaxFaults
      BY DEF PutWrite, TypeOK
    <3> QED
      BY <2>1, <2>2, <2>3, <2>4, <3>1, UpdateType, HandlerOnlyType
<1>6. CASE PutWriteFails(p)
  <2>1. faults' \in 0 .. MaxFaults /\ Return(p)
    BY <1>6, FaultType DEF PutWriteFails
  <2>2. files' \in [Gens -> SUBSET Files] /\ UNCHANGED <<redisVars, layout, home, w, ghostVars>>
    BY <1>6 DEF PutWriteFails, TypeOK, diskVars
  <2> QED
    BY <2>1, <2>2, ReturnType, HandlerOnlyType
<1>7. CASE PutCommit(p)
  <2> USE <1>7
  <2>1. h[p].gen \in Gens
    BY DEF PutCommit, Shape, OwnerPcs, GenPcs
  <2> USE <2>1
  <2>2. CASE ReplaceBlock(h[p].gen) /\ Return(p)
    BY <2>2, ReturnType, ReplaceBlockType DEF TypeOK, Shape, PutCommit, diskVars
  <2>3. CASE PutBlockIfAbsent(h[p].gen) /\ Return(p)
    BY <2>3, ReturnType, PutBlockIfAbsentType DEF TypeOK, Shape, PutCommit, diskVars
  <2>4. CASE Goto(p, "rollback") /\ UNCHANGED <<meta, expired, due, inflight, payload, published>>
    BY <2>4, GotoType DEF TypeOK, Shape, PutCommit, PutPcs, OwnerPcs, GenPcs, diskVars
  <2> QED
    BY <2>2, <2>3, <2>4 DEF PutCommit, Publish
<1>8. CASE PutCommitReplyLost(p)
  <2> USE <1>8
  <2>1. h[p].gen \in Gens
    BY DEF PutCommitReplyLost, Shape, OwnerPcs, GenPcs
  <2>2. ReplaceBlock(h[p].gen) \/ PutBlockIfAbsent(h[p].gen)
    BY DEF PutCommitReplyLost
  <2> QED
    <3>1. /\ meta' \in Gens \cup {0} /\ expired' \in BOOLEAN /\ payload' \in SUBSET Gens
          /\ due' \in [Gens -> {"no", "wait", "ripe"}]
          /\ inflight' \in [Gens -> {"no", "leased", "lapsed"}]
          /\ published' \in SUBSET Gens
      BY <2>1, <2>2, ReplaceBlockType, PutBlockIfAbsentType
    <3>2. doubted' \in SUBSET Gens
      BY <2>1 DEF PutCommitReplyLost, TypeOK
    <3>3. h' \in [Handlers -> HandlerState] /\ Shape'
      BY GotoType DEF PutCommitReplyLost, Shape, PutPcs, OwnerPcs, GenPcs
    <3>4. faults' \in 0 .. MaxFaults
      BY FaultType DEF PutCommitReplyLost
    <3> QED
      BY <3>1, <3>2, <3>3, <3>4 DEF TypeOK, PutCommitReplyLost, diskVars
<1>9. CASE PutCommitFails(p)
  <2> USE <1>9
  <2>1. faults' \in 0 .. MaxFaults
    BY FaultType DEF PutCommitFails
  <2>2. files' \in [Gens -> SUBSET Files] /\ UNCHANGED <<redisVars, layout, home, w, ghostVars>>
    BY DEF PutCommitFails, TypeOK, diskVars
  <2>3. CASE Return(p)
    BY <2>1, <2>2, <2>3, ReturnType, HandlerOnlyType
  <2>4. CASE Goto(p, "rollback")
    <3>1. h[p].pc \in GenPcs /\ h[p].pc \in OwnerPcs
      BY DEF PutCommitFails, OwnerPcs, GenPcs
    <3> QED
      BY <2>1, <2>2, <2>4, <3>1, GotoType, HandlerOnlyType
  <2> QED
    BY <2>3, <2>4 DEF PutCommitFails
<1>10. CASE PutRollback(p)
  <2> USE <1>10
  <2>1. PICK kept \in SUBSET files[h[p].gen] :
           /\ kept = {} \/ faults < MaxFaults
           /\ files' = [files EXCEPT ![h[p].gen] = kept]
           /\ faults' = IF kept = {} THEN faults ELSE faults + 1
    BY DEF PutRollback
  <2>2. h[p].gen \in Gens
    BY DEF PutRollback, Shape, OwnerPcs, GenPcs
  <2>3. files' \in [Gens -> SUBSET Files]
    BY <2>1, <2>2 DEF TypeOK
  <2>4. faults' \in 0 .. MaxFaults
    <3>1. faults \in 0 .. MaxFaults
      BY DEF TypeOK
    <3> QED
      BY SMTT(15), <2>1, <3>1, ConstantsAssumption
  <2>5. Return(p) /\ UNCHANGED <<redisVars, layout, home, w, ghostVars>>
    BY DEF PutRollback
  <2> QED
    BY <2>3, <2>4, <2>5, ReturnType, HandlerOnlyType
<1>11. CASE ReadPurge(p)
  BY <1>11, ReturnType, GotoType, RetireBlockType
     DEF TypeOK, Shape, ReadPurge, PutPcs, OwnerPcs, GenPcs, diskVars, ghostVars
<1>12. CASE ReadPlacement(p) \/ ReadLocal(p)
  BY <1>12, ReturnType, GotoType
     DEF TypeOK, Shape, ReadPlacement, ReadLocal, PutPcs, OwnerPcs, GenPcs, redisVars, diskVars,
         ghostVars
<1>13. CASE ReadHeal(p)
  <2> USE <1>13
  <2>1. h[p].gen \in Gens
    BY DEF ReadHeal, Shape, GenPcs
  <2>2. expired' \in BOOLEAN
    <3>1. expired \in BOOLEAN
      BY DEF TypeOK
    <3>2. expired' = FALSE \/ expired' = expired
      BY DEF ReadHeal, DeleteBlockIfMatches
    <3> QED
      BY <3>1, <3>2
  <2>3. meta' \in Gens \cup {0} /\ healed' \in SUBSET Gens
    BY <2>1 DEF ReadHeal, DeleteBlockIfMatches, TypeOK
  <2>4. UNCHANGED <<counter, due, inflight, payload, diskVars, w, published, doubted, cut, faults>>
    BY DEF ReadHeal
  <2>5. h' \in [Handlers -> HandlerState] /\ Shape'
    BY <2>4, ReturnType DEF ReadHeal, Shape
  <2> QED
    BY <2>2, <2>3, <2>4, <2>5 DEF TypeOK, diskVars
<1> QED
  BY <1>1, <1>2, <1>3, <1>4, <1>5, <1>6, <1>7, <1>8, <1>9, <1>10, <1>11, <1>12, <1>13
     DEF Request, HandlerStep, HandlerFault

(* A worker that moves on within its task keeps it. *)
LEMMA WorkerUpdateType ==
    ASSUME TypeInv, NEW n \in Nodes, NEW l \in BusyPcs,
           w[n].pc \in BusyPcs, w' = [w EXCEPT ![n].pc = l]
    PROVE  /\ w' \in [Nodes -> WorkerState]
           /\ \A m \in Nodes : w'[m].pc \in BusyPcs => w'[m].task \in Gens
<1> DEFINE r == [w[n] EXCEPT !.pc = l]
<1>1. w \in [Nodes -> WorkerState] /\ w[n] \in WorkerState
  BY DEF TypeInv, TypeOK
<1>2. r \in WorkerState /\ r.task = w[n].task
  BY <1>1 DEF WorkerState, BusyPcs
<1>3. w' = [w EXCEPT ![n] = r]
  OBVIOUS
<1> HIDE DEF r
<1> QED
  BY SMTT(15), <1>1, <1>2, <1>3 DEF TypeInv, Shape

(* A failed call of a GC worker that changes its record only. *)
LEMMA WorkerFaultType ==
    ASSUME TypeInv, Fault, UNCHANGED <<redisVars, diskVars, h, ghostVars>>,
           w' \in [Nodes -> WorkerState],
           \A m \in Nodes : w'[m].pc \in BusyPcs => w'[m].task \in Gens
    PROVE  TypeInv'
<1>1. faults' \in 0 .. MaxFaults
  BY FaultType DEF TypeInv
<1>2. TypeOK'
  BY <1>1 DEF TypeInv, TypeOK, redisVars, diskVars, ghostVars
<1>3. Shape'
  BY DEF TypeInv, Shape
<1> QED
  BY <1>2, <1>3 DEF TypeInv

(* Every step of a GC worker, and a crash, preserve the type invariant. *)
LEMMA GcTypeStep ==
    ASSUME TypeInv, NEW n \in Nodes, GcStep(n) \/ GcFault(n) \/ Crash(n)
    PROVE  TypeInv'
<1> USE DEF TypeInv
<1>1. CASE GcClaim(n)
  <2> USE <1>1
  <2>1. due' \in [Gens -> {"no", "wait", "ripe"}]
    BY SMTT(15) DEF GcClaim, TypeOK
  <2>2. inflight' \in [Gens -> {"no", "leased", "lapsed"}]
    BY SMTT(15) DEF GcClaim, TypeOK
  <2>3. PICK S : \/ w' = w
                 \/ w' = [w EXCEPT ![n] = [NoWork EXCEPT !.pc = "next", !.batch = S \cap payload]]
    BY DEF GcClaim
  <2>4. w' \in [Nodes -> WorkerState] /\ \A m \in Nodes : w'[m].pc \in BusyPcs => w'[m].task \in Gens
    <3>1. CASE w' = w
      BY <3>1 DEF TypeOK, Shape
    <3>2. CASE w' = [w EXCEPT ![n] = [NoWork EXCEPT !.pc = "next", !.batch = S \cap payload]]
      <4> DEFINE r == [NoWork EXCEPT !.pc = "next", !.batch = S \cap payload]
      <4>1. r \in WorkerState /\ r.pc \notin BusyPcs
        BY DEF NoWork, WorkerState, BusyPcs, TypeOK
      <4>2. w' = [w EXCEPT ![n] = r]
        BY <3>2
      <4> HIDE DEF r
      <4> QED
        BY <4>1, <4>2 DEF TypeOK, Shape
    <3> QED
      BY <2>3, <3>1, <3>2
  <2> QED
    BY <2>1, <2>2, <2>4 DEF GcClaim, TypeOK, Shape, diskVars, ghostVars
<1>2. CASE GcNext(n)
  <2>1. PICK t \in w[n].batch :
          w' = [w EXCEPT ![n] = [pc |-> IF meta = t THEN "unlease" ELSE "delete",
                                 batch |-> w[n].batch \ {t}, task |-> t]]
    BY <1>2 DEF GcNext
  <2>2. w[n].batch \in SUBSET Gens
    BY DEF TypeOK, WorkerState
  <2>3. w' \in [Nodes -> WorkerState] /\ \A m \in Nodes : w'[m].pc \in BusyPcs => w'[m].task \in Gens
    BY <2>1, <2>2 DEF TypeOK, Shape, WorkerState, BusyPcs
  <2> QED
    BY <1>2, <2>3 DEF GcNext, TypeOK, Shape, redisVars, diskVars, ghostVars
<1>13. CASE GcNextFails(n)
  <2>1. PICK t \in w[n].batch :
          w' = [w EXCEPT ![n] = [pc |-> "unlease", batch |-> w[n].batch \ {t}, task |-> t]]
    BY <1>13 DEF GcNextFails
  <2>2. w[n].batch \in SUBSET Gens
    BY DEF TypeOK, WorkerState
  <2>3. /\ w' \in [Nodes -> WorkerState]
        /\ \A m \in Nodes : w'[m].pc \in BusyPcs => w'[m].task \in Gens
    BY <2>1, <2>2 DEF TypeOK, Shape, WorkerState, BusyPcs
  <2> QED
    BY <1>13, <2>3, WorkerFaultType DEF GcNextFails
<1>3. CASE GcDelete(n)
  BY <1>3, WorkerUpdateType DEF GcDelete, TypeOK, Shape, BusyPcs, redisVars, ghostVars
<1>4. CASE GcDeleteFails(n)
  <2> USE <1>4
  <2>1. files' \in [Gens -> SUBSET Files]
    <3>1. PICK gone : files' = [files EXCEPT ![w[n].task] = files[w[n].task] \ gone]
      BY DEF GcDeleteFails
    <3>2. files \in [Gens -> SUBSET Files] /\ w[n].task \in Gens
      BY DEF GcDeleteFails, TypeOK, Shape, BusyPcs
    <3> QED
      BY <3>1, <3>2
  <2>2. w' \in [Nodes -> WorkerState] /\ \A m \in Nodes : w'[m].pc \in BusyPcs => w'[m].task \in Gens
    BY WorkerUpdateType DEF GcDeleteFails, BusyPcs
  <2> QED
    <3>1. faults' \in 0 .. MaxFaults
      BY FaultType DEF GcDeleteFails
    <3> QED
      BY <2>1, <2>2, <3>1 DEF GcDeleteFails, TypeOK, Shape, redisVars, ghostVars
<1>5. CASE GcComplete(n)
  BY <1>5, WorkerUpdateType DEF GcComplete, TypeOK, Shape, BusyPcs, diskVars, ghostVars
<1>6. CASE GcErase(n)
  BY <1>6, NextTaskType DEF GcErase, TypeOK, Shape, diskVars, ghostVars
<1>7. CASE GcCompleteFails(n)
  <2> USE <1>7
  <2>1. w[n].pc \in BusyPcs /\ "unlease" \in BusyPcs
    BY DEF GcCompleteFails, BusyPcs
  <2>2. w' \in [Nodes -> WorkerState] /\ \A m \in Nodes : w'[m].pc \in BusyPcs => w'[m].task \in Gens
    BY <2>1, WorkerUpdateType DEF GcCompleteFails
  <2> QED
    BY <2>2, WorkerFaultType DEF GcCompleteFails
<1>8. CASE GcUnlease(n)
  BY <1>8, WorkerUpdateType DEF GcUnlease, TypeOK, Shape, BusyPcs, diskVars, ghostVars
<1>9. CASE GcStore(n)
  BY <1>9, WorkerUpdateType DEF GcStore, TypeOK, Shape, BusyPcs, diskVars, ghostVars
<1>10. CASE GcRequeue(n)
  BY <1>10, NextTaskType DEF GcRequeue, TypeOK, Shape, diskVars, ghostVars
<1>11. CASE GcRescheduleFails(n)
  <2> USE <1>11
  <2>1. faults' \in 0 .. MaxFaults
    BY DEF GcRescheduleFails, TypeOK
  <2>2. cut' \in SUBSET Gens
    BY DEF GcRescheduleFails, Rescheduling, TypeOK, Shape, BusyPcs
  <2>3. w' \in [Nodes -> WorkerState] /\ Shape'
    BY NextTaskType DEF GcRescheduleFails, TypeOK, Shape, BusyPcs, redisVars, diskVars
  <2> QED
    BY <2>1, <2>2, <2>3 DEF GcRescheduleFails, TypeOK, redisVars, diskVars
<1>12. CASE Crash(n)
  <2> USE <1>12
  <2>1. h' \in [Handlers -> HandlerState] /\ w' \in [Nodes -> WorkerState]
    BY NoHandlerType, NoWorkType DEF Crash, TypeOK
  <2>2. cut' \in SUBSET Gens
    <3>1. cut \in SUBSET Gens /\ (Rescheduling(n) => w[n].task \in Gens)
      BY DEF Rescheduling, TypeOK, Shape, BusyPcs
    <3> QED
      BY <3>1 DEF Crash
  <2>3. Shape'
    BY DEF Crash, Shape, TypeOK, NoHandler, NoWork, PutPcs, OwnerPcs, GenPcs, BusyPcs
  <2> QED
    <3>1. faults' \in 0 .. MaxFaults
      BY FaultType DEF Crash
    <3> QED
      BY <2>1, <2>2, <2>3, <3>1 DEF Crash, TypeOK, redisVars, diskVars
<1> QED
  BY <1>1, <1>2, <1>3, <1>4, <1>5, <1>6, <1>7, <1>8, <1>9, <1>10, <1>11, <1>12, <1>13
     DEF GcStep, GcFault

(* The type invariant is inductive. *)
LEMMA TypeStep == TypeInv /\ [Next]_vars => TypeInv'
<1> SUFFICES ASSUME TypeInv, [Next]_vars PROVE TypeInv'
  OBVIOUS
<1> USE DEF TypeInv
<1>1. CASE Delete
  BY <1>1, RetireBlockType DEF Delete, TypeOK, Shape, diskVars, ghostVars
<1>2. CASE TtlPasses
  BY <1>2 DEF TtlPasses, TypeOK, Shape, diskVars, ghostVars
<1>3. ASSUME NEW g \in Gens, Clock(g) PROVE TypeInv'
  BY <1>3 DEF Clock, GraceEnds, LeaseLapses, TypeOK, Shape, diskVars, ghostVars
<1>4. CASE UNCHANGED vars
  BY <1>4 DEF vars, TypeOK, Shape, redisVars, diskVars, ghostVars
<1> QED
  BY <1>1, <1>2, <1>3, <1>4, HandlerTypeStep, GcTypeStep, ConstantsAssumption DEF Next

(* Every reachable state is well typed: no handler, GC worker or Redis       *)
(* script ever leaves the store with a value outside its range.              *)
THEOREM TypeCorrect == Spec => []TypeOK
<1>1. Spec => []TypeInv
  BY InitTypeInv, TypeStep, PTL DEF Spec
<1> QED
  BY <1>1, PTL DEF TypeInv

-----------------------------------------------------------------------------
(* Committed metadata is always backed by all its files (CurrentReadable),   *)
(* from the ownership invariant of ObjectStore: a generation passes from its *)
(* PUT to the key and from the key to the collector, and only the one in     *)
(* charge of it removes files.                                               *)

(* The store starts with no generation at all. *)
LEMMA InitOwnership == Init => OwnershipInv
BY SMTT(15), ConstantsAssumption
   DEF Init, OwnershipInv, CounterAhead, OneOwner, DoubtAfterCommit, OwnedUnpublished,
       WritesKept, CurrentUntouched, Owns, Touched, NoHandler, NoWork

(* Steps that publish nothing: handlers only give up generations or turn to  *)
(* rolling them back, the collector takes over at most the generation that   *)
(* is being retired, and files go only from a generation the collector has,  *)
(* or one that its PUT is giving up.                                         *)
LEMMA Frame ==
    ASSUME TypeInv, OwnershipInv,
           counter' = counter, layout' = layout, home' = home, doubted' = doubted,
           meta' \in {0, meta},
           \A g \in Gens : Touched(g)' => Touched(g) \/ (g = meta /\ meta' = 0),
           \A q \in Handlers :
              \/ h'[q] = h[q]
              \/ ~Owns(q)'
              \/ Owns(q) /\ h'[q].pc = "rollback" /\ h'[q].gen = h[q].gen,
           \A g \in Gens :
              \/ files[g] \subseteq files'[g]
              \/ Touched(g)
              \/ \E q \in Handlers : Owns(q) /\ ~Owns(q)' /\ h[q].gen = g
    PROVE  OwnershipInv'
<1> USE DEF OwnershipInv, TypeInv
<1>0. \A q \in Handlers : Owns(q)' => Owns(q) /\ h'[q].gen = h[q].gen /\ h[q].gen \in Gens
  <2> SUFFICES ASSUME NEW q \in Handlers, Owns(q)'
               PROVE  Owns(q) /\ h'[q].gen = h[q].gen /\ h[q].gen \in Gens
    OBVIOUS
  <2>1. Owns(q) /\ h'[q].gen = h[q].gen
    BY DEF Owns
  <2> QED
    BY <2>1 DEF Owns, Shape, OwnerPcs, GenPcs
<1> USE <1>0
<1>1. CounterAhead'
  <2>1. meta' <= counter'
    BY SMTT(15), ConstantsAssumption DEF CounterAhead, TypeOK
  <2>2. \A g \in Gens : Touched(g)' => g <= counter'
    BY DEF CounterAhead
  <2> QED
    BY <2>1, <2>2 DEF CounterAhead
<1>2. OneOwner'
  BY DEF OneOwner
<1>3. DoubtAfterCommit'
  BY DEF DoubtAfterCommit, Owns
<1>4. OwnedUnpublished'
  BY SMTT(15) DEF OwnedUnpublished, Gens
<1>5. WritesKept'
  <2> SUFFICES ASSUME NEW p \in Handlers, h'[p].pc \in {"write", "commit"}
               PROVE  h'[p] = h[p] /\ files[h[p].gen] \subseteq files'[h[p].gen]
    BY ZenonT(30) DEF WritesKept, FilesComplete
  <2>1. h'[p] = h[p] /\ Owns(p) /\ Owns(p)' /\ h[p].gen \in Gens
    BY DEF Owns
  <2>2. ~Touched(h[p].gen)
    BY <2>1 DEF DoubtAfterCommit, OwnedUnpublished
  <2> QED
    BY SMTT(15), <2>1, <2>2 DEF OneOwner
<1>6. CurrentUntouched'
  <2> SUFFICES ASSUME meta' # 0, meta' \notin doubted'
               PROVE  FilesComplete(meta)' /\ ~Touched(meta)'
    BY DEF CurrentUntouched
  <2>1. meta' = meta /\ meta \in Gens /\ ~Touched(meta) /\ FilesComplete(meta)
    BY DEF CurrentUntouched, TypeOK
  <2>2. files[meta] \subseteq files'[meta]
    BY <2>1 DEF OwnedUnpublished
  <2> QED
    BY <2>1, <2>2 DEF FilesComplete, Touched
<1> QED
  BY <1>1, <1>2, <1>3, <1>4, <1>5, <1>6

(* The step that makes a generation g current, by the handler p that owns    *)
(* it: the generation it displaces may pass to the collector, and g is in    *)
(* doubt afterwards if the reply was lost.                                   *)
LEMMA PublishOwnership ==
    ASSUME TypeInv, OwnershipInv, NEW p \in Handlers,
           h[p].pc \in {"commit", "rerun"},
           UNCHANGED <<counter, layout, home, files>>,
           meta' = h[p].gen,
           doubted \subseteq doubted', doubted' \subseteq doubted \cup {h[p].gen},
           \A g \in Gens : Touched(g)' => Touched(g) \/ g = meta,
           \A q \in Handlers \ {p} : h'[q] = h[q],
           \/ ~Owns(p)'
           \/ h'[p].pc = "rerun" /\ h'[p].gen = h[p].gen /\ h[p].gen \in doubted'
    PROVE  OwnershipInv'
<1> USE DEF OwnershipInv, TypeInv
<1>0. Owns(p) /\ h[p].gen \in Gens
  BY DEF Owns, Shape, OwnerPcs, GenPcs
<1> USE <1>0
<1>1. \A q \in Handlers : Owns(q)' => Owns(q) /\ h'[q].gen = h[q].gen
  BY DEF Owns
<1> USE <1>1
<1>2. \A q \in Handlers : Owns(q) => h[q].gen \in Gens
  BY DEF Owns, Shape, OwnerPcs, GenPcs
<1>3. \A q \in Handlers \ {p} : Owns(q) => h[q].gen # h[p].gen
  BY DEF OneOwner
<1>4. CounterAhead'
  BY DEF CounterAhead
<1>5. OneOwner'
  BY DEF OneOwner
<1>6. DoubtAfterCommit'
  BY <1>3 DEF DoubtAfterCommit, Owns
<1>7. OwnedUnpublished'
  <2> SUFFICES ASSUME NEW q \in Handlers, Owns(q)', h'[q].gen \notin doubted'
               PROVE  h'[q].gen # meta' /\ ~Touched(h[q].gen)'
    BY DEF OwnedUnpublished, Touched
  <2>1. q # p
    OBVIOUS
  <2>2. Owns(q) /\ h'[q].gen = h[q].gen /\ h[q].gen \in Gens /\ h[q].gen \notin doubted
    BY <1>2
  <2> QED
    BY <1>3, <2>1, <2>2 DEF OwnedUnpublished
<1>8. WritesKept'
  BY SMTT(15) DEF WritesKept, FilesComplete, Owns
<1>9. CurrentUntouched'
  <2>1. PICK g \in Gens : g = h[p].gen
    OBVIOUS
  <2> USE <2>1
  <2> SUFFICES ASSUME g \notin doubted'
               PROVE  FilesComplete(g)' /\ ~Touched(g)'
    BY DEF CurrentUntouched, Touched, FilesComplete
  <2>2. h[p].pc = "commit" /\ g \notin doubted
    BY DEF DoubtAfterCommit
  <2>3. FilesComplete(g) /\ ~Touched(g) /\ g # meta
    BY <2>2 DEF WritesKept, OwnedUnpublished
  <2> QED
    BY <2>3 DEF FilesComplete
<1> QED
  BY <1>4, <1>5, <1>6, <1>7, <1>8, <1>9

(* Preparing takes a generation no one has used: the counter was ahead of    *)
(* all of them.                                                              *)
LEMMA PrepareOwnership ==
    ASSUME TypeInv, OwnershipInv, NEW p \in Handlers, PutPrepare(p)
    PROVE  OwnershipInv'
<1> USE DEF OwnershipInv, TypeInv
<1>1. PICK g \in Gens :
         /\ g = counter + 1
         /\ counter' = g
         /\ layout' = [layout EXCEPT ![g] = h[p].kind]
         /\ home' = [home EXCEPT ![g] = MountOf[h[p].at]]
         /\ h' = [h EXCEPT ![p] = [h[p] EXCEPT !.pc = "write", !.gen = g,
                                     !.todo = FilesOf(h[p].kind, MountOf[h[p].at])]]
  <2> DEFINE c == NextGeneration
  <2>1. meta \in Int /\ counter \in Int /\ meta <= counter
    BY SMTT(15) DEF CounterAhead, TypeOK, Gens
  <2>2. c = counter + 1
    BY SMTT(15), <2>1 DEF NextGeneration
  <2>3. /\ c \in Gens
        /\ counter' = c
        /\ layout' = [layout EXCEPT ![c] = h[p].kind]
        /\ home' = [home EXCEPT ![c] = MountOf[h[p].at]]
        /\ h' = [h EXCEPT ![p] = [h[p] EXCEPT !.pc = "write", !.gen = c,
                                    !.todo = FilesOf(h[p].kind, MountOf[h[p].at])]]
    BY DEF PutPrepare
  <2> HIDE DEF c
  <2> QED
    BY <2>2, <2>3
<1>2. UNCHANGED <<meta, payload, files, w, doubted>>
  BY DEF PutPrepare, ghostVars
<1>3. /\ h'[p].pc = "write" /\ h'[p].gen = g /\ h'[p].kind = h[p].kind /\ h'[p].at = h[p].at
      /\ h'[p].todo = FilesOf(h[p].kind, MountOf[h[p].at])
  BY SMTT(15), <1>1 DEF TypeOK, HandlerState
<1>4. \A q \in Handlers \ {p} : h'[q] = h[q]
  BY <1>1 DEF TypeOK
<1>5. \A x \in Gens : Touched(x)' <=> Touched(x)
  BY <1>2 DEF Touched
<1>6. counter \in Nat /\ g \in Nat /\ g > counter
  BY SMTT(15), <1>1 DEF TypeOK, Gens
<1>7. \A q \in Handlers : Owns(q) => h[q].gen \in Gens /\ h[q].gen # g
  BY SMTT(15), <1>6 DEF Owns, Shape, OwnerPcs, GenPcs, CounterAhead
<1>8. g # meta /\ ~Touched(g) /\ g \notin doubted
  BY SMTT(15), <1>6 DEF CounterAhead
<1>9. CounterAhead'
  <2>1. \A x \in Gens : x <= counter => x <= counter'
    BY SMTT(15), <1>1, <1>6 DEF Gens
  <2>2. meta' <= counter'
    BY SMTT(15), <1>1, <1>2, <1>6 DEF CounterAhead, TypeOK, Gens
  <2>3. \A q \in Handlers : Owns(q)' => h'[q].gen <= counter'
    BY SMTT(15), <1>1, <1>3, <1>4, <1>6, <1>7, <2>1 DEF CounterAhead, Owns
  <2> QED
    BY <1>2, <1>5, <2>1, <2>2, <2>3 DEF CounterAhead, TypeOK
<1>10. OneOwner'
  BY SMTT(15), <1>3, <1>4, <1>7 DEF OneOwner, Owns
<1>11. DoubtAfterCommit'
  BY <1>2, <1>3, <1>4, <1>8 DEF DoubtAfterCommit
<1>12. OwnedUnpublished'
  BY ZenonT(40), <1>2, <1>3, <1>4, <1>8 DEF OwnedUnpublished, Owns, Touched
<1>13. WritesKept'
  <2>1. \A x \in Gens \ {g} : FilesComplete(x) => FilesComplete(x)'
    BY <1>1, <1>2 DEF FilesComplete, TypeOK
  <2>2. layout'[g] = h[p].kind /\ home'[g] = MountOf[h[p].at]
    BY <1>1 DEF TypeOK
  <2>3. \A x \in Gens \ {g} : layout'[x] = layout[x] /\ home'[x] = home[x]
    BY <1>1 DEF TypeOK
  <2>4. ASSUME NEW q \in Handlers \ {p}, h[q].pc \in {"write", "commit"}
        PROVE  h'[q] = h[q] /\ h[q].gen \in Gens \ {g}
    BY <1>4, <1>7, <2>4 DEF Owns
  <2> QED
    <3>1. ASSUME NEW q \in Handlers \ {p}
          PROVE  /\ h'[q].pc = "write" =>
                      /\ layout'[h'[q].gen] = h'[q].kind
                      /\ home'[h'[q].gen] = MountOf[h'[q].at]
                      /\ FilesOf(h'[q].kind, MountOf[h'[q].at]) \ h'[q].todo \subseteq files'[h'[q].gen]
                 /\ h'[q].pc = "commit" => FilesComplete(h[q].gen)'
      BY SMTT(15), <1>2, <1>4, <2>1, <2>3, <2>4 DEF WritesKept
    <3> QED
      BY SMTT(15), <1>3, <2>2, <3>1 DEF WritesKept
<1>14. CurrentUntouched'
  <2>1. \A x \in Gens \ {g} : layout'[x] = layout[x] /\ home'[x] = home[x]
    BY <1>1 DEF TypeOK
  <2> QED
    BY <1>2, <1>8, <2>1 DEF CurrentUntouched, FilesComplete, Touched, TypeOK
<1> QED
  BY <1>9, <1>10, <1>11, <1>12, <1>13, <1>14, Zenon

(* A written file is one fewer to do; the last one completes the generation. *)
LEMMA WriteOwnership ==
    ASSUME TypeInv, OwnershipInv, NEW p \in Handlers, NEW f \in Files, PutWrite(p, f)
    PROVE  OwnershipInv'
<1> USE DEF OwnershipInv, TypeInv
<1> DEFINE r == [h[p] EXCEPT !.todo = h[p].todo \ {f},
                             !.pc = IF h[p].todo = {f} THEN "commit" ELSE "write"]
<1>1. h[p] \in HandlerState /\ h[p].pc = "write" /\ h[p].gen \in Gens /\ f \in h[p].todo
  BY DEF PutWrite, TypeOK, Shape, OwnerPcs, GenPcs
<1> USE <1>1
<1>2. /\ r.gen = h[p].gen /\ r.kind = h[p].kind /\ r.at = h[p].at
      /\ r.todo = h[p].todo \ {f}
      /\ r.pc = IF h[p].todo = {f} THEN "commit" ELSE "write"
  BY DEF HandlerState
<1> USE <1>2
<1>3. h' = [h EXCEPT ![p] = r]
  BY DEF PutWrite
<1> HIDE DEF r
<1>4. h'[p] = r /\ \A q \in Handlers \ {p} : h'[q] = h[q]
  BY <1>3 DEF TypeOK
<1> USE <1>4
<1>5. /\ UNCHANGED <<meta, counter, payload, layout, home, w, doubted>>
      /\ files' = [files EXCEPT ![h[p].gen] = @ \cup {f}]
  BY DEF PutWrite, redisVars, ghostVars
<1> USE <1>5
<1>6. \A x \in Gens : files[x] \subseteq files'[x]
  BY DEF TypeOK
<1>7. files'[h[p].gen] = files[h[p].gen] \cup {f}
  BY DEF TypeOK
<1>8. \A q \in Handlers : (Owns(q)' <=> Owns(q)) /\ h'[q].gen = h[q].gen
                          /\ (Owns(q) => h[q].gen \in Gens)
  BY DEF Owns, Shape, OwnerPcs, GenPcs
<1> USE <1>8
<1>9. \A x \in Gens : Touched(x)' <=> Touched(x)
  BY DEF Touched
<1>10. CounterAhead'
  BY <1>9 DEF CounterAhead
<1>11. OneOwner'
  BY DEF OneOwner
<1>12. DoubtAfterCommit'
  BY DEF DoubtAfterCommit
<1>13. OwnedUnpublished'
  BY SMTT(15) DEF OwnedUnpublished, Touched
<1>14. WritesKept'
  <2>1. ASSUME NEW q \in Handlers \ {p}
        PROVE  /\ h'[q].pc = "write" =>
                     /\ layout'[h'[q].gen] = h'[q].kind
                     /\ home'[h'[q].gen] = MountOf[h'[q].at]
                     /\ FilesOf(h'[q].kind, MountOf[h'[q].at]) \ h'[q].todo
                          \subseteq files'[h'[q].gen]
               /\ h'[q].pc = "commit" =>
                     FilesOf(layout'[h'[q].gen], home'[h'[q].gen]) \subseteq files'[h'[q].gen]
    <3>1. h'[q] = h[q] /\ layout' = layout /\ home' = home
      OBVIOUS
    <3>2. ASSUME h[q].pc \in {"write", "commit"}
          PROVE  files[h[q].gen] \subseteq files'[h[q].gen]
      BY <1>6, <3>2 DEF Owns
    <3>3. /\ h[q].pc = "write" =>
               /\ layout[h[q].gen] = h[q].kind
               /\ home[h[q].gen] = MountOf[h[q].at]
               /\ FilesOf(h[q].kind, MountOf[h[q].at]) \ h[q].todo \subseteq files[h[q].gen]
          /\ h[q].pc = "commit" =>
               FilesOf(layout[h[q].gen], home[h[q].gen]) \subseteq files[h[q].gen]
      BY DEF WritesKept, FilesComplete
    <3> QED
      BY <3>1, <3>2, <3>3
  <2>2. /\ layout'[r.gen] = r.kind /\ home'[r.gen] = MountOf[r.at]
        /\ FilesOf(r.kind, MountOf[r.at]) \ r.todo \subseteq files'[r.gen]
    BY Zenon, <1>7 DEF WritesKept
  <2>3. r.pc = "commit" => r.todo = {}
    OBVIOUS
  <2>4. r.pc = "commit" => FilesOf(layout'[r.gen], home'[r.gen]) \subseteq files'[r.gen]
    BY <2>2, <2>3
  <2>5. ASSUME NEW q \in Handlers
        PROVE  /\ h'[q].pc = "write" =>
                     /\ layout'[h'[q].gen] = h'[q].kind
                     /\ home'[h'[q].gen] = MountOf[h'[q].at]
                     /\ FilesOf(h'[q].kind, MountOf[h'[q].at]) \ h'[q].todo
                          \subseteq files'[h'[q].gen]
               /\ h'[q].pc = "commit" =>
                     FilesOf(layout'[h'[q].gen], home'[h'[q].gen]) \subseteq files'[h'[q].gen]
    <3>1. CASE q = p
      BY <2>2, <2>4, <3>1
    <3>2. CASE q # p
      BY <2>1, <3>2
    <3> QED
      BY <3>1, <3>2
  <2> QED
    BY <2>5 DEF WritesKept, FilesComplete
<1>15. CurrentUntouched'
  BY <1>6 DEF CurrentUntouched, FilesComplete, Touched, TypeOK
<1> QED
  BY <1>10, <1>11, <1>12, <1>13, <1>14, <1>15

(* Handlers that move without touching Redis or the files. *)
LEMMA HandlerFrame ==
    ASSUME TypeInv, OwnershipInv, NEW p \in Handlers,
           UNCHANGED <<counter, diskVars, w, doubted>>,
           meta' \in {0, meta}, payload' \subseteq payload \cup {meta},
           meta' = 0 \/ payload' = payload,
           \A q \in Handlers \ {p} : h'[q] = h[q],
           \/ ~Owns(p)'
           \/ Owns(p) /\ h'[p].pc = "rollback" /\ h'[p].gen = h[p].gen
    PROVE  OwnershipInv'
<1>1. \A g \in Gens : Touched(g)' => Touched(g) \/ (g = meta /\ meta' = 0)
  BY DEF Touched
<1> QED
  BY <1>1, Frame DEF diskVars

(* Every step of a request handler keeps the ownership invariant. *)
LEMMA HandlerOwnership ==
    ASSUME TypeInv, OwnershipInv, NEW p \in Handlers,
           Request(p) \/ HandlerStep(p) \/ HandlerFault(p)
    PROVE  OwnershipInv'
<1>h. h \in [Handlers -> HandlerState]
  BY DEF TypeInv, TypeOK
<1> USE <1>h
<1>r. ASSUME Return(p) PROVE ~Owns(p)' /\ \A q \in Handlers \ {p} : h'[q] = h[q]
  BY <1>r DEF Return, Owns, NoHandler
<1> USE <1>r
<1>g. ASSUME NEW l, Goto(p, l)
      PROVE  /\ \A q \in Handlers \ {p} : h'[q] = h[q]
             /\ h'[p].pc = l /\ h'[p].gen = h[p].gen
  BY SMTT(15), <1>g DEF Goto, HandlerState
<1> USE <1>g
<1>m. ASSUME NEW g, RetireBlockIfMatches(g)
      PROVE  /\ meta' \in {0, meta} /\ payload' \subseteq payload \cup {meta}
             /\ meta' = 0 \/ payload' = payload
  BY <1>m DEF RetireBlockIfMatches, RetireBlock, EnqueueGc
<1>1. ASSUME NEW n \in Nodes, NEW k \in Kinds, NEW x \in BOOLEAN, PutBegin(p, n, k, x)
      PROVE  OwnershipInv'
  <2>1. ~Owns(p)' /\ \A q \in Handlers \ {p} : h'[q] = h[q]
    BY <1>1 DEF PutBegin, NoHandler, Owns
  <2> QED
    BY <1>1, <2>1, HandlerFrame DEF PutBegin, redisVars, ghostVars
<1>2. ASSUME NEW n \in Gateways, NEW k \in ReadKinds, ReadBegin(p, n, k)
      PROVE  OwnershipInv'
  <2>1. ~Owns(p)' /\ \A q \in Handlers \ {p} : h'[q] = h[q]
    BY <1>2 DEF ReadBegin, NoHandler, Owns
  <2> QED
    BY <1>2, <2>1, HandlerFrame DEF ReadBegin, redisVars, ghostVars
<1>3. CASE PutDropExpired(p)
  <2>1. ~Owns(p)' /\ \A q \in Handlers \ {p} : h'[q] = h[q]
    BY SMTT(15), <1>3 DEF PutDropExpired, HandlerState, Owns
  <2> QED
    BY <1>3, <1>m, <2>1, HandlerFrame DEF PutDropExpired, ghostVars
<1>4. CASE PutWriteFails(p)
  BY <1>4, HandlerFrame DEF PutWriteFails, redisVars, ghostVars
<1>5. CASE PutCommit(p)
  <2>0. /\ h[p].pc \in {"commit", "rerun"} /\ Owns(p)
        /\ UNCHANGED <<counter, layout, home, files, diskVars, w, doubted>>
    BY <1>5 DEF PutCommit, Owns, diskVars
  <2> USE <2>0
  <2>1. CASE ReplaceBlock(h[p].gen) /\ Return(p)
    <3>1. /\ meta' = h[p].gen
          /\ \A g \in Gens : Touched(g)' => Touched(g) \/ g = meta
      BY <2>1 DEF ReplaceBlock, EnqueueGc, Touched
    <3> QED
      BY <2>1, <3>1, PublishOwnership
  <2>2. CASE PutBlockIfAbsent(h[p].gen) /\ Return(p)
    <3>1. meta' = h[p].gen /\ \A g \in Gens : Touched(g)' => Touched(g)
      BY <2>2 DEF PutBlockIfAbsent, Touched
    <3> QED
      BY <2>2, <3>1, PublishOwnership
  <2>3. CASE Goto(p, "rollback") /\ UNCHANGED <<meta, expired, due, inflight, payload, published>>
    BY <2>3, HandlerFrame
  <2> QED
    BY <1>5, <2>1, <2>2, <2>3 DEF PutCommit, Publish
<1>6. CASE PutCommitReplyLost(p)
  <2>0. /\ h[p].pc = "commit" /\ Goto(p, "rerun") /\ doubted' = doubted \cup {h[p].gen}
        /\ UNCHANGED <<counter, layout, home, files, w>>
        /\ ReplaceBlock(h[p].gen) \/ PutBlockIfAbsent(h[p].gen)
    BY <1>6 DEF PutCommitReplyLost, diskVars
  <2> USE <2>0
  <2>1. /\ meta' = h[p].gen
        /\ \A g \in Gens : Touched(g)' => Touched(g) \/ g = meta
    <3>1. CASE ReplaceBlock(h[p].gen)
      BY <3>1 DEF ReplaceBlock, EnqueueGc, Touched
    <3>2. CASE PutBlockIfAbsent(h[p].gen)
      BY <3>2 DEF PutBlockIfAbsent, Touched
    <3> QED
      BY <3>1, <3>2
  <2> QED
    BY <2>1, PublishOwnership
<1>7. CASE PutCommitFails(p)
  BY <1>7, HandlerFrame DEF PutCommitFails, Owns, redisVars, ghostVars
<1>8. CASE PutRollback(p)
  <2>1. Owns(p) /\ UNCHANGED <<counter, layout, home, w, doubted, meta, payload>> /\ Return(p)
    BY <1>8 DEF PutRollback, Owns, redisVars, ghostVars
  <2>2. \A g \in Gens : files[g] \subseteq files'[g] \/ h[p].gen = g
    BY SMTT(15), <1>8 DEF PutRollback, TypeInv, TypeOK
  <2>3. \A g \in Gens : Touched(g)' => Touched(g)
    BY <2>1 DEF Touched
  <2> QED
    BY <2>1, <2>2, <2>3, Frame
<1>9. CASE ReadPurge(p)
  <2>1. ~Owns(p)' /\ \A q \in Handlers \ {p} : h'[q] = h[q]
    <3>1. (Goto(p, "read") \/ Return(p)) /\ ~Owns(p)
      BY <1>9 DEF ReadPurge, Owns
    <3> QED
      BY SMTT(15), <3>1 DEF Owns
  <2> QED
    BY <1>9, <1>m, <2>1, HandlerFrame DEF ReadPurge, ghostVars
<1>10. CASE ReadPlacement(p) \/ ReadLocal(p)
  <2>1. ~Owns(p)' /\ \A q \in Handlers \ {p} : h'[q] = h[q]
    <3>1. (Goto(p, "heal") \/ Return(p)) /\ ~Owns(p)
      BY <1>10 DEF ReadPlacement, ReadLocal, Owns
    <3> QED
      BY SMTT(15), <3>1 DEF Owns
  <2> QED
    BY <1>10, <2>1, HandlerFrame DEF ReadPlacement, ReadLocal, redisVars, ghostVars
<1>11. CASE ReadHeal(p)
  BY <1>11, HandlerFrame DEF ReadHeal, DeleteBlockIfMatches
<1> QED
  BY <1>1, <1>2, <1>3, <1>4, <1>5, <1>6, <1>7, <1>8, <1>9, <1>10, <1>11,
     PrepareOwnership, WriteOwnership
     DEF Request, HandlerStep, HandlerFault

(* Steps of the collector that leave the metadata alone: it takes over no    *)
(* generation it did not have, and removes files of those only.              *)
LEMMA GcFrame ==
    ASSUME TypeInv, OwnershipInv,
           UNCHANGED <<meta, counter, layout, home, h, doubted>>,
           \A g \in Gens : Touched(g)' => Touched(g),
           \A g \in Gens : files[g] \subseteq files'[g] \/ Touched(g)
    PROVE  OwnershipInv'
BY Frame

(* Every step of a GC worker, and a crash, keep the ownership invariant. *)
LEMMA GcOwnership ==
    ASSUME TypeInv, OwnershipInv, NEW n \in Nodes, GcStep(n) \/ GcFault(n) \/ Crash(n)
    PROVE  OwnershipInv'
<1>w. w \in [Nodes -> WorkerState] /\ payload \in SUBSET Gens /\ files \in [Gens -> SUBSET Files]
  BY DEF TypeInv, TypeOK
<1> USE <1>w
<1>p. ASSUME NEW l, w' = [w EXCEPT ![n].pc = l]
      PROVE  \A m \in Nodes : w'[m].batch = w[m].batch /\ w'[m].task = w[m].task
  BY <1>p DEF WorkerState
<1>n. ASSUME NextTask(n)
      PROVE  \A m \in Nodes : w'[m].batch = w[m].batch /\ w'[m].task \in {0, w[m].task}
  BY <1>n DEF NextTask, WorkerState
<1>t. Touched(w[n].task)
  BY DEF Touched
<1>1. CASE GcClaim(n)
  <2>1. \A m \in Nodes : w'[m].batch \subseteq w[m].batch \cup payload /\ w'[m].task \in {0, w[m].task}
    <3>1. PICK S : \/ w' = w
                   \/ w' = [w EXCEPT ![n] = [NoWork EXCEPT !.pc = "next", !.batch = S \cap payload]]
      BY <1>1 DEF GcClaim
    <3>2. CASE w' = w
      BY <3>2
    <3>3. CASE w' = [w EXCEPT ![n] = [NoWork EXCEPT !.pc = "next", !.batch = S \cap payload]]
      <4> DEFINE r == [NoWork EXCEPT !.pc = "next", !.batch = S \cap payload]
      <4>1. r.batch = S \cap payload /\ r.task = 0
        BY DEF NoWork
      <4>2. w' = [w EXCEPT ![n] = r]
        BY <3>3
      <4> HIDE DEF r
      <4> QED
        BY <4>1, <4>2
    <3> QED
      BY <3>1, <3>2, <3>3
  <2>2. UNCHANGED <<meta, counter, payload, files, layout, home, h, doubted>>
    BY <1>1 DEF GcClaim, diskVars, ghostVars
  <2> USE <2>2
  <2>3. \A g \in Gens : Touched(g)' => Touched(g)
    BY SMTT(15), <2>1 DEF Touched, Gens
  <2>4. \A g \in Gens : files[g] \subseteq files'[g]
    OBVIOUS
  <2> QED
    BY <2>3, <2>4, GcFrame
<1>2. CASE GcNext(n) \/ GcNextFails(n)
  <2>1. \A m \in Nodes : w'[m].batch \subseteq w[m].batch /\ w'[m].task \in {w[m].task} \cup w[m].batch
    BY SMTT(15), <1>2 DEF GcNext, GcNextFails
  <2>2. UNCHANGED <<meta, counter, payload, files, layout, home, h, doubted>>
    BY <1>2 DEF GcNext, GcNextFails, redisVars, diskVars, ghostVars
  <2>3. \A g \in Gens : Touched(g)' => Touched(g)
    BY <2>1, <2>2 DEF Touched
  <2> QED
    BY <2>2, <2>3, GcFrame
<1>3. CASE GcDelete(n) \/ GcDeleteFails(n)
  <2> USE <1>3
  <2>1. UNCHANGED <<meta, counter, payload, layout, home, h, doubted>>
    BY DEF GcDelete, GcDeleteFails, redisVars, ghostVars
  <2>2. \A g \in Gens : Touched(g)' => Touched(g)
    BY <1>p, <2>1 DEF GcDelete, GcDeleteFails, Touched
  <2>3. \A g \in Gens : files[g] \subseteq files'[g] \/ g = w[n].task
    BY DEF GcDelete, GcDeleteFails
  <2> QED
    BY <1>t, <2>1, <2>2, <2>3, GcFrame
<1>4. CASE GcComplete(n) \/ GcCompleteFails(n) \/ GcUnlease(n) \/ GcStore(n)
  <2> USE <1>4
  <2>1. UNCHANGED <<meta, counter, files, layout, home, h, doubted>>
    BY DEF GcComplete, GcCompleteFails, GcUnlease, GcStore, redisVars, diskVars, ghostVars
  <2>2. payload' \subseteq payload \cup {w[n].task}
    BY DEF GcComplete, GcCompleteFails, GcUnlease, GcStore, redisVars
  <2>3. \A m \in Nodes : w'[m].batch = w[m].batch /\ w'[m].task = w[m].task
    BY <1>p DEF GcComplete, GcCompleteFails, GcUnlease, GcStore
  <2>4. \A g \in Gens : Touched(g)' => Touched(g)
    BY <2>2, <2>3 DEF Touched
  <2> QED
    BY <2>1, <2>4, GcFrame
<1>5. CASE GcErase(n) \/ GcRequeue(n) \/ GcRescheduleFails(n)
  <2>1. UNCHANGED <<meta, counter, files, layout, home, h, doubted>>
    <3>1. CASE GcErase(n) \/ GcRequeue(n)
      BY <3>1 DEF GcErase, GcRequeue, diskVars, ghostVars
    <3>2. CASE GcRescheduleFails(n)
      BY <3>2 DEF GcRescheduleFails, redisVars, diskVars
    <3> QED
      BY <1>5, <3>1, <3>2
  <2>2. payload' \subseteq payload /\ NextTask(n)
    BY <1>5 DEF GcErase, GcRequeue, GcRescheduleFails, redisVars
  <2>3. \A g \in Gens : Touched(g)' => Touched(g)
    <3>1. \A m \in Nodes : w'[m].batch = w[m].batch /\ w'[m].task \in {0, w[m].task}
      BY <2>2, <1>n
    <3>2. 0 \notin Gens
      BY SMTT(15) DEF Gens
    <3> QED
      BY <2>2, <3>1, <3>2 DEF Touched
  <2>4. \A g \in Gens : files[g] \subseteq files'[g]
    BY <2>1
  <2> QED
    BY <2>1, <2>3, <2>4, GcFrame
<1>6. CASE Crash(n)
  <2> USE <1>6
  <2>1. UNCHANGED <<meta, counter, payload, files, layout, home, doubted>>
    BY DEF Crash, redisVars, diskVars
  <2>2. \A q \in Handlers : h'[q] = h[q] \/ ~Owns(q)'
    BY DEF Crash, Owns, NoHandler
  <2>3. \A m \in Nodes : w'[m] = w[m] \/ (w'[m].batch = {} /\ w'[m].task = 0)
    BY DEF Crash, NoWork
  <2>4. \A g \in Gens : Touched(g)' => Touched(g)
    BY SMTT(15), <2>1, <2>3 DEF Touched, Gens
  <2> QED
    BY <2>1, <2>2, <2>4, Frame
<1> QED
  BY <1>1, <1>2, <1>3, <1>4, <1>5, <1>6 DEF GcStep, GcFault

(* The ownership invariant is inductive. *)
LEMMA OwnershipStep == TypeInv /\ OwnershipInv /\ [Next]_vars => OwnershipInv'
<1> SUFFICES ASSUME TypeInv, OwnershipInv, [Next]_vars PROVE OwnershipInv'
  OBVIOUS
<1>1. CASE Delete
  <2>1. UNCHANGED <<counter, files, layout, home, h, w, doubted>>
    BY <1>1 DEF Delete, diskVars, ghostVars
  <2>2. meta' = 0 /\ payload' = payload \cup {meta}
    BY <1>1 DEF Delete, RetireBlock, EnqueueGc
  <2>3. \A g \in Gens : Touched(g)' => Touched(g) \/ (g = meta /\ meta' = 0)
    BY <2>1, <2>2 DEF Touched
  <2> QED
    BY <2>1, <2>2, <2>3, Frame
<1>2. CASE TtlPasses \/ (\E g \in Gens : Clock(g)) \/ UNCHANGED vars
  <2>1. UNCHANGED <<meta, counter, payload, files, layout, home, h, w, doubted>>
    BY <1>2 DEF TtlPasses, Clock, GraceEnds, LeaseLapses, vars, redisVars, diskVars, ghostVars
  <2>2. \A g \in Gens : Touched(g)' => Touched(g)
    BY <2>1 DEF Touched
  <2> QED
    BY <2>1, <2>2, GcFrame
<1> QED
  BY <1>1, <1>2, HandlerOwnership, GcOwnership, ConstantsAssumption DEF Next

(* A generation's files are removed only by the one actor in charge of it:   *)
(* the PUT that prepared it, then the collector once it is retired; the      *)
(* counter stays ahead of every generation in use.                           *)
THEOREM OneActorInCharge == Spec => []OwnershipInv
<1>1. Spec => [](TypeInv /\ OwnershipInv)
  BY InitTypeInv, TypeStep, InitOwnership, OwnershipStep, PTL DEF Spec
<1> QED
  BY <1>1, PTL

(* Committed metadata is always backed by all of its files, in a cluster of  *)
(* any size, with any number of handlers, GC workers, crashes and faults;    *)
(* only a generation whose commit reply Redis lost is excepted.              *)
THEOREM CommittedReadable == Spec => []CurrentReadable
<1>1. OwnershipInv => CurrentReadable
  BY DEF OwnershipInv, CurrentUntouched, CurrentReadable
<1> QED
  BY <1>1, OneActorInCharge, PTL

-----------------------------------------------------------------------------
(* What becomes of a generation that is no longer current, and of metadata   *)
(* that leaves the key.  First the bookkeeping, whatever the mounts.         *)

(* The generations that have been current: none is ahead of the counter, the *)
(* current one is among them, a PUT that has not committed holds none of     *)
(* them, and a handler that found one keeps to it.                           *)
History ==
    /\ \A g \in published : g <= counter
    /\ meta # 0 => meta \in published
    /\ \A p \in Handlers : h[p].pc \in {"write", "commit"} => h[p].gen \notin published
    /\ \A p \in Handlers : h[p].pc \in {"drop", "purge", "read", "heal"} => h[p].gen \in published

(* Files are where their generation's layout puts them. *)
Placed(g) ==
    /\ g <= counter /\ layout[g] \in Kinds
    /\ \E m \in Nodes : home[g] = MountOf[m]
    /\ files[g] \subseteq FilesOf(layout[g], home[g])
FilesPlaced ==
    /\ \A g \in Gens : files[g] # {} => Placed(g)
    /\ \A p \in Handlers : h[p].pc = "write" =>
           h[p].todo \subseteq FilesOf(h[p].kind, MountOf[h[p].at])

(* A generation about to be purged has expired, or was published twice. *)
PurgeJustified ==
    \A p \in Handlers : h[p].pc \in {"drop", "purge"} /\ h[p].gen = meta =>
        expired \/ meta \in doubted

HistoryInv == History /\ FilesPlaced /\ PurgeJustified

(* The files a GC worker has dealt with are gone, and the task it is about   *)
(* to queue again can be read back.                                          *)
TaskDone ==
    /\ \A n \in Nodes : w[n].pc \in {"complete", "erase"} => files[w[n].task] = {}
    /\ \A n \in Nodes : w[n].pc = "requeue" => w[n].task \in payload \/ files[w[n].task] = {}

(* A read that is about to drop metadata as stale has found a file missing. *)
HealBroken == \A p \in Handlers : h[p].pc = "heal" => ~FilesComplete(h[p].gen)
ReadersPlaced == \A p \in Handlers : h[p].pc \in {"purge", "read"} => h[p].at \in Nodes
HealInv == HealBroken /\ ReadersPlaced

(* The collector's view of a generation's files is that of the node that     *)
(* wrote them: the nodes share their mounts, or only spread objects are put. *)
CollectorSees ==
    \A k \in Kinds, m, n \in Nodes : FilesOf(k, MountOf[m]) = FilesOf(k, MountOf[n])

(* So is the readers' view, where they look at their own file systems. *)
ReadersSee ==
    \/ \A m, n \in Nodes : MountOf[m] = MountOf[n]
    \/ Kinds \subseteq SpreadKinds /\ "exists" \notin ReadKinds

-----------------------------------------------------------------------------
(* HistoryInv is inductive. *)

LEMMA InitHistory == Init => HistoryInv
<1> SUFFICES ASSUME Init PROVE HistoryInv
  OBVIOUS
<1>1. \A p \in Handlers : h[p].pc = "idle"
  BY DEF Init, NoHandler
<1>2. \A g \in Gens : files[g] = {}
  BY DEF Init
<1> QED
  BY <1>1, <1>2 DEF Init, HistoryInv, History, FilesPlaced, PurgeJustified

(* Steps that publish, prepare and write nothing. *)
LEMMA HistoryFrame ==
    ASSUME TypeInv, HistoryInv,
           UNCHANGED <<counter, layout, home, published, doubted>>,
           meta' \in {0, meta}, meta' = meta /\ expired => expired',
           \A g \in Gens : files'[g] \subseteq files[g],
           \A q \in Handlers :
              \/ h'[q] = h[q]
              \/ h'[q].pc \in {"idle", "prepare", "rerun", "rollback"}
              \/ /\ h'[q].pc \in {"read", "heal"} /\ h[q].pc \in {"purge", "read"}
                 /\ h'[q].gen = h[q].gen
              \/ /\ h'[q].pc \in {"drop", "purge", "read"} /\ h'[q].gen = meta
                 /\ meta # 0 /\ meta' = meta /\ (h'[q].pc # "read" => expired)
    PROVE  HistoryInv'
<1> USE DEF HistoryInv
<1>1. History'
  BY DEF History
<1>2. FilesPlaced'
  <2>1. ASSUME NEW g \in Gens, files'[g] # {} PROVE Placed(g)'
    <3>1. Placed(g) /\ files'[g] \subseteq files[g]
      BY <2>1 DEF FilesPlaced
    <3> QED
      BY <3>1 DEF Placed
  <2>2. ASSUME NEW q \in Handlers, h'[q].pc = "write"
        PROVE  h'[q].todo \subseteq FilesOf(h'[q].kind, MountOf[h'[q].at])
    BY <2>2 DEF FilesPlaced
  <2> QED
    BY <2>1, <2>2 DEF FilesPlaced
<1>3. PurgeJustified'
  <2> SUFFICES ASSUME NEW q \in Handlers, h'[q].pc \in {"drop", "purge"}, h'[q].gen = meta'
               PROVE  expired' \/ meta' \in doubted'
    BY DEF PurgeJustified
  <2>1. CASE h'[q] = h[q]
    <3>1. h[q].gen \in published
      BY <2>1 DEF History
    <3>2. h[q].gen # 0
      BY SMTT(15), <3>1 DEF TypeInv, TypeOK, Gens
    <3> QED
      BY <2>1, <3>2 DEF PurgeJustified
  <2>2. CASE h'[q] # h[q]
    BY <2>2
  <2> QED
    BY <2>1, <2>2
<1> QED
  BY <1>1, <1>2, <1>3

(* The handler p makes its generation current. *)
LEMMA HistoryPublish ==
    ASSUME TypeInv, OwnershipInv, HistoryInv, NEW p \in Handlers,
           h[p].pc \in {"commit", "rerun"},
           UNCHANGED <<counter, layout, home, files>>,
           meta' = h[p].gen, published' = published \cup {h[p].gen},
           doubted \subseteq doubted', meta = h[p].gen => expired' = expired,
           \A q \in Handlers \ {p} : h'[q] = h[q],
           h'[p].pc \in {"idle", "rerun"}
    PROVE  HistoryInv'
<1> USE DEF HistoryInv, OwnershipInv
<1>1. Owns(p) /\ h[p].gen <= counter
  BY DEF Owns, CounterAhead
<1>2. \A q \in Handlers \ {p} : Owns(q) => h[q].gen # h[p].gen
  BY <1>1 DEF OneOwner
<1>3. History'
  <2>1. \A g \in published' : g <= counter'
    BY <1>1 DEF History
  <2>2. \A q \in Handlers : h'[q].pc \in {"write", "commit"} => h'[q].gen \notin published'
    BY <1>2 DEF History, Owns
  <2>3. \A q \in Handlers : h'[q].pc \in {"drop", "purge", "read", "heal"} => h'[q].gen \in published'
    BY DEF History
  <2> QED
    BY <2>1, <2>2, <2>3 DEF History
<1>4. FilesPlaced'
  BY DEF FilesPlaced, Placed
<1>5. PurgeJustified'
  <2> SUFFICES ASSUME NEW q \in Handlers, h'[q].pc \in {"drop", "purge"}, h'[q].gen = meta'
               PROVE  expired' \/ meta' \in doubted'
    BY DEF PurgeJustified
  <2>1. h'[q] = h[q] /\ h[q].gen = h[p].gen /\ h[q].gen \in published
    BY DEF History
  <2>2. h[p].pc = "rerun"
    BY <2>1 DEF History
  <2> QED
    BY <2>1, <2>2 DEF DoubtAfterCommit
<1> QED
  BY <1>3, <1>4, <1>5

LEMMA HistoryPrepare ==
    ASSUME TypeInv, OwnershipInv, HistoryInv, NEW p \in Handlers, PutPrepare(p)
    PROVE  HistoryInv'
<1> USE DEF HistoryInv
<1>1. PICK g \in Gens :
         /\ g = counter + 1
         /\ counter' = g
         /\ layout' = [layout EXCEPT ![g] = h[p].kind]
         /\ home' = [home EXCEPT ![g] = MountOf[h[p].at]]
         /\ h' = [h EXCEPT ![p] = [h[p] EXCEPT !.pc = "write", !.gen = g,
                                     !.todo = FilesOf(h[p].kind, MountOf[h[p].at])]]
  <2> DEFINE c == NextGeneration
  <2>1. meta \in Int /\ counter \in Int /\ meta <= counter
    BY SMTT(15) DEF OwnershipInv, CounterAhead, TypeInv, TypeOK, Gens
  <2>2. c = counter + 1
    BY SMTT(15), <2>1 DEF NextGeneration
  <2>3. /\ c \in Gens
        /\ counter' = c
        /\ layout' = [layout EXCEPT ![c] = h[p].kind]
        /\ home' = [home EXCEPT ![c] = MountOf[h[p].at]]
        /\ h' = [h EXCEPT ![p] = [h[p] EXCEPT !.pc = "write", !.gen = c,
                                    !.todo = FilesOf(h[p].kind, MountOf[h[p].at])]]
    BY DEF PutPrepare
  <2> HIDE DEF c
  <2> QED
    BY <2>2, <2>3
<1> USE <1>1
<1>2. UNCHANGED <<meta, expired, files, published, doubted>>
  BY DEF PutPrepare, ghostVars
<1> USE <1>2
<1>3. /\ h'[p].pc = "write" /\ h'[p].gen = g /\ h'[p].kind = h[p].kind /\ h'[p].at = h[p].at
      /\ h'[p].todo = FilesOf(h[p].kind, MountOf[h[p].at])
  BY SMTT(15) DEF TypeInv, TypeOK, HandlerState
<1> USE <1>3
<1>4. \A q \in Handlers \ {p} : h'[q] = h[q]
  BY DEF TypeInv, TypeOK
<1> USE <1>4
<1>5. /\ \A x \in published : x \in Gens
      /\ \A x \in Gens : x <= counter => x <= counter' /\ x # g
  BY SMTT(15) DEF TypeInv, TypeOK, Gens
<1> USE <1>5
<1>6. g \notin published /\ files[g] = {}
  BY DEF History, FilesPlaced, Placed
<1>7. History'
  BY SMTT(15), <1>6 DEF History
<1>8. \A x \in Gens \ {g} : layout'[x] = layout[x] /\ home'[x] = home[x]
  BY DEF TypeInv, TypeOK
<1>9. FilesPlaced'
  <2>1. ASSUME NEW x \in Gens, files'[x] # {} PROVE Placed(x)'
    <3>1. x # g /\ Placed(x)
      BY <2>1, <1>6 DEF FilesPlaced
    <3> QED
      BY <3>1, <1>8 DEF Placed
  <2>2. ASSUME NEW q \in Handlers, h'[q].pc = "write"
        PROVE  h'[q].todo \subseteq FilesOf(h'[q].kind, MountOf[h'[q].at])
    BY SMTT(15), <2>2 DEF FilesPlaced
  <2> QED
    BY <2>1, <2>2 DEF FilesPlaced
<1>10. PurgeJustified'
  BY DEF PurgeJustified
<1> QED
  BY <1>7, <1>9, <1>10

LEMMA HistoryWrite ==
    ASSUME TypeInv, OwnershipInv, HistoryInv, NEW p \in Handlers, NEW f \in Files, PutWrite(p, f)
    PROVE  HistoryInv'
<1> USE DEF HistoryInv
<1> DEFINE r == [h[p] EXCEPT !.todo = h[p].todo \ {f},
                             !.pc = IF h[p].todo = {f} THEN "commit" ELSE "write"]
<1>0. /\ h[p] \in HandlerState /\ h[p].pc = "write" /\ h[p].gen \in Gens /\ f \in h[p].todo
      /\ h[p].kind \in Kinds /\ h[p].at \in Nodes
  BY DEF PutWrite, TypeInv, TypeOK, Shape, OwnerPcs, GenPcs, PutPcs
<1>1. PICK g \in Gens : /\ h[p] \in HandlerState /\ h[p].pc = "write" /\ h[p].gen = g
                       /\ f \in h[p].todo /\ h[p].kind \in Kinds /\ h[p].at \in Nodes
  BY <1>0
<1> USE <1>1
<1>2. /\ r.gen = g /\ r.kind = h[p].kind /\ r.at = h[p].at
      /\ r.todo = h[p].todo \ {f} /\ r.pc \in {"commit", "write"}
  BY DEF HandlerState
<1> USE <1>2
<1>3. h' = [h EXCEPT ![p] = r]
  BY DEF PutWrite
<1> HIDE DEF r
<1>4. h'[p] = r /\ \A q \in Handlers \ {p} : h'[q] = h[q]
  BY <1>3 DEF TypeInv, TypeOK
<1> USE <1>4
<1>5. UNCHANGED <<meta, expired, counter, layout, home, published, doubted>>
  BY DEF PutWrite, redisVars, ghostVars
<1> USE <1>5
<1>6. /\ files'[g] = files[g] \cup {f}
      /\ \A x \in Gens \ {g} : files'[x] = files[x]
  BY DEF PutWrite, TypeInv, TypeOK
<1>7. History'
  BY DEF History
<1>8. Placed(g)'
  <2>1. g <= counter /\ layout[g] = h[p].kind /\ home[g] = MountOf[h[p].at]
    BY DEF OwnershipInv, CounterAhead, WritesKept, Owns
  <2>2. files[g] \subseteq FilesOf(layout[g], home[g])
    BY DEF FilesPlaced, Placed
  <2>3. f \in FilesOf(layout[g], home[g])
    BY <2>1 DEF FilesPlaced
  <2> QED
    BY <1>6, <2>1, <2>2, <2>3 DEF Placed
<1>9. FilesPlaced'
  <2>1. ASSUME NEW x \in Gens, files'[x] # {} PROVE Placed(x)'
    BY <2>1, <1>6, <1>8 DEF FilesPlaced, Placed
  <2>2. ASSUME NEW q \in Handlers, h'[q].pc = "write"
        PROVE  h'[q].todo \subseteq FilesOf(h'[q].kind, MountOf[h'[q].at])
    BY <2>2 DEF FilesPlaced
  <2> QED
    BY <2>1, <2>2 DEF FilesPlaced
<1>10. PurgeJustified'
  BY DEF PurgeJustified
<1> QED
  BY <1>7, <1>9, <1>10

(* A handler that moves without touching the files. *)
LEMMA HistoryMove ==
    ASSUME TypeInv, HistoryInv, NEW p \in Handlers,
           UNCHANGED <<counter, files, layout, home, published, doubted>>,
           meta' \in {0, meta}, meta' = meta /\ expired => expired',
           \A q \in Handlers \ {p} : h'[q] = h[q],
           \/ h'[p].pc \in {"idle", "prepare", "rerun", "rollback"}
           \/ /\ h'[p].pc \in {"read", "heal"} /\ h[p].pc \in {"purge", "read"}
              /\ h'[p].gen = h[p].gen
           \/ /\ h'[p].pc \in {"drop", "purge", "read"} /\ h'[p].gen = meta
              /\ meta # 0 /\ meta' = meta /\ (h'[p].pc # "read" => expired)
    PROVE  HistoryInv'
BY HistoryFrame

LEMMA HandlerHistory ==
    ASSUME TypeInv, OwnershipInv, HistoryInv, NEW p \in Handlers,
           Request(p) \/ HandlerStep(p) \/ HandlerFault(p)
    PROVE  HistoryInv'
<1>h. h \in [Handlers -> HandlerState]
  BY DEF TypeInv, TypeOK
<1> USE <1>h
<1>r. ASSUME Return(p) PROVE h'[p].pc = "idle" /\ \A q \in Handlers \ {p} : h'[q] = h[q]
  BY <1>r DEF Return, NoHandler
<1> USE <1>r
<1>g. ASSUME NEW l, Goto(p, l)
      PROVE  /\ \A q \in Handlers \ {p} : h'[q] = h[q]
             /\ h'[p].pc = l /\ h'[p].gen = h[p].gen
  BY SMTT(15), <1>g DEF Goto, HandlerState
<1> USE <1>g
<1>m. ASSUME NEW g, RetireBlockIfMatches(g)
      PROVE  meta' \in {0, meta} /\ (meta' = meta /\ expired => expired')
  BY <1>m DEF RetireBlockIfMatches, RetireBlock
<1>1. ASSUME NEW n \in Nodes, NEW k \in Kinds, NEW x \in BOOLEAN, PutBegin(p, n, k, x)
      PROVE  HistoryInv'
  <2>1. /\ \A q \in Handlers \ {p} : h'[q] = h[q]
        /\ h'[p].pc = "prepare" \/ (h'[p].pc = "drop" /\ h'[p].gen = meta /\ meta # 0 /\ expired)
    BY <1>1 DEF PutBegin, NoHandler
  <2> QED
    BY <1>1, <2>1, HistoryMove DEF PutBegin, redisVars, diskVars, ghostVars
<1>2. ASSUME NEW n \in Gateways, NEW k \in ReadKinds, ReadBegin(p, n, k)
      PROVE  HistoryInv'
  <2>1. /\ \A q \in Handlers \ {p} : h'[q] = h[q]
        /\ h'[p].pc = (IF expired THEN "purge" ELSE "read") /\ h'[p].gen = meta /\ meta # 0
    BY <1>2 DEF ReadBegin, NoHandler
  <2> QED
    BY SMTT(15), <1>2, <2>1, HistoryMove DEF ReadBegin, redisVars, diskVars, ghostVars
<1>3. CASE PutDropExpired(p)
  <2>1. h'[p].pc = "prepare" /\ \A q \in Handlers \ {p} : h'[q] = h[q]
    BY SMTT(15), <1>3 DEF PutDropExpired, HandlerState
  <2> QED
    BY <1>3, <1>m, <2>1, HistoryMove DEF PutDropExpired, diskVars, ghostVars
<1>4. CASE PutWriteFails(p)
  BY <1>4, HistoryMove DEF PutWriteFails, redisVars, diskVars, ghostVars
<1>5. CASE PutCommit(p)
  <2>0. /\ h[p].pc \in {"commit", "rerun"}
        /\ UNCHANGED <<counter, layout, home, files, doubted>>
    BY <1>5 DEF PutCommit, diskVars
  <2> USE <2>0
  <2>1. CASE ReplaceBlock(h[p].gen) /\ Return(p)
    BY <2>1, HistoryPublish DEF ReplaceBlock
  <2>2. CASE PutBlockIfAbsent(h[p].gen) /\ Return(p)
    <3>1. h[p].gen # 0
      BY SMTT(15) DEF TypeInv, Shape, GenPcs, OwnerPcs, Gens
    <3> QED
      BY <2>2, <3>1, HistoryPublish DEF PutBlockIfAbsent
  <2>3. CASE Goto(p, "rollback") /\ UNCHANGED <<meta, expired, due, inflight, payload, published>>
    BY <2>3, HistoryMove
  <2> QED
    BY <1>5, <2>1, <2>2, <2>3 DEF PutCommit, Publish
<1>6. CASE PutCommitReplyLost(p)
  <2>0. /\ h[p].pc = "commit" /\ Goto(p, "rerun") /\ doubted \subseteq doubted'
        /\ UNCHANGED <<counter, layout, home, files>>
        /\ ReplaceBlock(h[p].gen) \/ PutBlockIfAbsent(h[p].gen)
    BY <1>6 DEF PutCommitReplyLost, diskVars
  <2> USE <2>0
  <2>1. h[p].gen # 0
    BY SMTT(15) DEF TypeInv, Shape, GenPcs, OwnerPcs, Gens
  <2>2. /\ meta' = h[p].gen /\ published' = published \cup {h[p].gen}
        /\ meta = h[p].gen => expired' = expired
    BY <2>1 DEF ReplaceBlock, PutBlockIfAbsent
  <2> QED
    BY <2>2, HistoryPublish
<1>7. CASE PutCommitFails(p)
  BY <1>7, HistoryMove DEF PutCommitFails, redisVars, diskVars, ghostVars
<1>8. CASE PutRollback(p)
  <2>1. UNCHANGED <<meta, expired, counter, layout, home, published, doubted>> /\ Return(p)
    BY <1>8 DEF PutRollback, redisVars, ghostVars
  <2>2. \A g \in Gens : files'[g] \subseteq files[g]
    BY SMTT(15), <1>8 DEF PutRollback, TypeInv, TypeOK
  <2> QED
    BY <2>1, <2>2, HistoryFrame
<1>9. CASE ReadPurge(p)
  <2> USE <1>9
  <2>1. h[p].pc = "purge" /\ (Goto(p, "read") \/ Return(p))
    BY DEF ReadPurge
  <2>2. UNCHANGED <<counter, files, layout, home, published, doubted>>
    BY DEF ReadPurge, diskVars, ghostVars
  <2>3. meta' \in {0, meta} /\ (meta' = meta /\ expired => expired')
    BY <1>m DEF ReadPurge
  <2>4. CASE Goto(p, "read")
    BY <2>1, <2>2, <2>3, <2>4, HistoryMove
  <2>5. CASE Return(p)
    BY <2>2, <2>3, <2>5, HistoryMove
  <2> QED
    BY <2>1, <2>4, <2>5
<1>10. CASE ReadPlacement(p) \/ ReadLocal(p)
  <2>1. h[p].pc = "read" /\ (Goto(p, "heal") \/ Return(p))
    BY <1>10 DEF ReadPlacement, ReadLocal
  <2>2. UNCHANGED <<meta, expired, counter, files, layout, home, published, doubted>>
    BY <1>10 DEF ReadPlacement, ReadLocal, redisVars, diskVars, ghostVars
  <2>3. CASE Goto(p, "heal")
    BY <2>1, <2>2, <2>3, HistoryMove
  <2>4. CASE Return(p)
    BY <2>2, <2>4, HistoryMove
  <2> QED
    BY <2>1, <2>3, <2>4
<1>11. CASE ReadHeal(p)
  <2> USE <1>11
  <2>1. h[p].gen # 0
    BY SMTT(15) DEF ReadHeal, TypeInv, Shape, GenPcs, Gens
  <2>2. meta' \in {0, meta} /\ (meta' = meta /\ expired => expired')
    BY <2>1 DEF ReadHeal, DeleteBlockIfMatches
  <2> QED
    BY <2>2, HistoryMove DEF ReadHeal, diskVars
<1> QED
  BY <1>1, <1>2, <1>3, <1>4, <1>5, <1>6, <1>7, <1>8, <1>9, <1>10, <1>11,
     HistoryPrepare, HistoryWrite
     DEF Request, HandlerStep, HandlerFault

(* The collector only removes files. *)
LEMMA CollectorRemoves ==
    ASSUME TypeInv, NEW n \in Nodes, GcStep(n) \/ GcFault(n)
    PROVE  \A g \in Gens : files'[g] \subseteq files[g]
<1>1. CASE GcDelete(n) \/ GcDeleteFails(n)
  BY SMTT(15), <1>1 DEF GcDelete, GcDeleteFails, TypeInv, TypeOK
<1>2. CASE ~(GcDelete(n) \/ GcDeleteFails(n))
  BY <1>2
     DEF GcStep, GcFault, GcClaim, GcNext, GcNextFails, GcComplete, GcCompleteFails,
         GcErase, GcUnlease, GcStore, GcRequeue, GcRescheduleFails, diskVars
<1> QED
  BY <1>1, <1>2

LEMMA HistoryStep == TypeInv /\ OwnershipInv /\ HistoryInv /\ [Next]_vars => HistoryInv'
<1> SUFFICES ASSUME TypeInv, OwnershipInv, HistoryInv, [Next]_vars PROVE HistoryInv'
  OBVIOUS
<1>1. CASE Delete
  BY <1>1, HistoryFrame DEF Delete, RetireBlock, diskVars, ghostVars
<1>2. CASE TtlPasses \/ (\E g \in Gens : Clock(g)) \/ UNCHANGED vars
  <2>1. /\ UNCHANGED <<meta, counter, files, layout, home, h, published, doubted>>
        /\ expired => expired'
    BY SMTT(15), <1>2 DEF TtlPasses, Clock, GraceEnds, LeaseLapses, vars, redisVars, diskVars, ghostVars
  <2> QED
    BY <2>1, HistoryFrame
<1>3. ASSUME NEW n \in Nodes, GcStep(n) \/ GcFault(n) PROVE HistoryInv'
  <2>1. UNCHANGED <<meta, expired, counter, layout, home, h, published, doubted>>
    BY <1>3 DEF GcStep, GcFault, GcClaim, GcNext, GcNextFails, GcDelete, GcDeleteFails,
                GcComplete, GcCompleteFails, GcErase, GcUnlease, GcStore, GcRequeue,
                GcRescheduleFails, redisVars, diskVars, ghostVars
  <2>2. \A g \in Gens : files'[g] \subseteq files[g]
    BY <1>3, CollectorRemoves
  <2> QED
    BY <2>1, <2>2, HistoryFrame
<1>4. ASSUME NEW n \in Nodes, Crash(n) PROVE HistoryInv'
  <2>1. \A q \in Handlers : h'[q] = h[q] \/ h'[q].pc = "idle"
    BY <1>4 DEF Crash, NoHandler
  <2> QED
    BY <1>4, <2>1, HistoryFrame DEF Crash, redisVars, diskVars
<1> QED
  BY <1>1, <1>2, <1>3, <1>4, HandlerHistory, ConstantsAssumption DEF Next

-----------------------------------------------------------------------------
(* Retired generations are known to the collector. *)

TrackedInv == TaskDone /\ RetiredTracked

LEMMA InitTracked == Init => TrackedInv
BY SMTT(15) DEF Init, TrackedInv, TaskDone, RetiredTracked, Superseded, NoWork

(* Steps of handlers and of the clock: the queue loses no entry, and what    *)
(* stops being current is queued or dropped as stale.                        *)
LEMMA TrackedFrame ==
    ASSUME TypeInv, HistoryInv, TrackedInv,
           w' = w, cut' = cut, healed \subseteq healed', payload \subseteq payload',
           \A g \in Gens : due[g] # "no" => due'[g] # "no",
           \A g \in Gens : inflight[g] # "no" => inflight'[g] # "no",
           \A g \in published' : g \in published \/ g = meta',
           \A g \in Gens : files'[g] \subseteq files[g] \/ ~(g \in published' \/ Touched(g)),
           meta' = meta \/ meta = 0 \/ meta \in healed'
                        \/ (meta \in payload' /\ due'[meta] # "no")
    PROVE  TrackedInv'
<1> USE DEF TrackedInv
<1>1. ASSUME NEW n \in Nodes, w[n].pc \in BusyPcs
      PROVE  files'[w[n].task] \subseteq files[w[n].task]
  BY <1>1 DEF TypeInv, Shape, Touched
<1>2. TaskDone'
  BY <1>1 DEF TaskDone, BusyPcs
<1>3. ASSUME NEW g \in Gens, Superseded(g)'
      PROVE  Queued(g)' \/ Reappearing(g)' \/ g \in cut'
  <2>1. g \in published /\ g # meta' /\ files[g] # {} /\ g \notin healed
    BY <1>3 DEF Superseded
  <2>2. CASE g = meta
    BY SMTT(15), <1>3, <2>1, <2>2 DEF Superseded, Queued, Gens
  <2>3. CASE g # meta
    <3>1. Queued(g) \/ Reappearing(g) \/ g \in cut
      BY <2>1, <2>3 DEF RetiredTracked, Superseded
    <3>2. Queued(g) => Queued(g)'
      BY DEF Queued
    <3>3. Reappearing(g) => Reappearing(g)'
      BY DEF Reappearing, Rescheduling
    <3> QED
      BY <3>1, <3>2, <3>3
  <2> QED
    BY <2>2, <2>3
<1> QED
  BY <1>2, <1>3 DEF RetiredTracked

(* What the Redis scripts do to the queue. *)
LEMMA ScriptQueues ==
    ASSUME TypeInv, NEW g,
           ReplaceBlock(g) \/ PutBlockIfAbsent(g) \/ RetireBlock \/ RetireBlockIfMatches(g)
    PROVE  /\ payload \subseteq payload'
           /\ \A x \in Gens : due[x] # "no" => due'[x] # "no"
           /\ inflight' = inflight
           /\ meta' = meta \/ meta = 0 \/ (meta \in payload' /\ due'[meta] = "wait")
<1>1. due \in [Gens -> {"no", "wait", "ripe"}] /\ (meta # 0 => meta \in Gens)
  BY DEF TypeInv, TypeOK
<1>2. ASSUME meta # 0, EnqueueGc(meta)
      PROVE  /\ payload \subseteq payload' /\ inflight' = inflight
             /\ \A x \in Gens : due[x] # "no" => due'[x] # "no"
             /\ meta \in payload' /\ due'[meta] = "wait"
  BY <1>1, <1>2 DEF EnqueueGc
<1> USE <1>2
<1>3. CASE ReplaceBlock(g)
  BY <1>3 DEF ReplaceBlock
<1>4. CASE PutBlockIfAbsent(g)
  BY <1>4 DEF PutBlockIfAbsent
<1>5. CASE RetireBlock
  BY <1>5 DEF RetireBlock
<1>6. CASE RetireBlockIfMatches(g)
  BY <1>6 DEF RetireBlockIfMatches, RetireBlock
<1> QED
  BY <1>3, <1>4, <1>5, <1>6

LEMMA HandlerTracked ==
    ASSUME TypeInv, OwnershipInv, HistoryInv, TrackedInv, NEW p \in Handlers,
           Request(p) \/ HandlerStep(p) \/ HandlerFault(p)
    PROVE  TrackedInv'
<1>f. files \in [Gens -> SUBSET Files]
  BY DEF TypeInv, TypeOK
<1>1. ASSUME UNCHANGED <<meta, due, inflight, payload, files, w, published, healed, cut>>
      PROVE  TrackedInv'
  BY <1>1, TrackedFrame
<1> USE <1>1
<1>2. ASSUME NEW n \in Nodes, NEW k \in Kinds, NEW x \in BOOLEAN, PutBegin(p, n, k, x)
      PROVE  TrackedInv'
  BY <1>2 DEF PutBegin, redisVars, diskVars, ghostVars
<1>3. ASSUME NEW n \in Gateways, NEW k \in ReadKinds, ReadBegin(p, n, k)
      PROVE  TrackedInv'
  BY <1>3 DEF ReadBegin, redisVars, diskVars, ghostVars
<1>4. CASE PutWriteFails(p) \/ PutCommitFails(p) \/ ReadPlacement(p) \/ ReadLocal(p)
  BY <1>4 DEF PutWriteFails, PutCommitFails, ReadPlacement, ReadLocal, redisVars, diskVars,
     ghostVars
<1>5. CASE PutPrepare(p)
  BY <1>5 DEF PutPrepare, ghostVars
<1>6. CASE PutDropExpired(p) \/ ReadPurge(p)
  <2>1. /\ UNCHANGED <<files, w, published, healed, cut>>
        /\ RetireBlockIfMatches(h[p].gen)
    BY <1>6 DEF PutDropExpired, ReadPurge, diskVars, ghostVars
  <2>2. /\ payload \subseteq payload'
        /\ \A x \in Gens : due[x] # "no" => due'[x] # "no"
        /\ inflight' = inflight
        /\ meta' = meta \/ meta = 0 \/ (meta \in payload' /\ due'[meta] = "wait")
    BY <2>1, ScriptQueues
  <2> QED
    BY <2>1, <2>2, TrackedFrame
<1>7. CASE PutCommit(p) \/ PutCommitReplyLost(p)
  <2>1. UNCHANGED <<files, w, healed, cut>>
    BY <1>7 DEF PutCommit, PutCommitReplyLost, diskVars
  <2>2. \/ ReplaceBlock(h[p].gen) \/ PutBlockIfAbsent(h[p].gen)
        \/ UNCHANGED <<meta, expired, due, inflight, payload, published>>
    BY <1>7 DEF PutCommit, PutCommitReplyLost, Publish
  <2>3. CASE ReplaceBlock(h[p].gen) \/ PutBlockIfAbsent(h[p].gen)
    <3>1. /\ payload \subseteq payload'
          /\ \A x \in Gens : due[x] # "no" => due'[x] # "no"
          /\ inflight' = inflight
          /\ meta' = meta \/ meta = 0 \/ (meta \in payload' /\ due'[meta] = "wait")
      BY <2>3, ScriptQueues
    <3>2. \A g \in published' : g \in published \/ g = meta'
      BY <2>3 DEF ReplaceBlock, PutBlockIfAbsent
    <3> QED
      BY <2>1, <3>1, <3>2, TrackedFrame
  <2>4. CASE UNCHANGED <<meta, expired, due, inflight, payload, published>>
    BY <2>1, <2>4
  <2> QED
    BY <2>2, <2>3, <2>4
<1>8. CASE PutRollback(p)
  <2>1. UNCHANGED <<meta, due, inflight, payload, w, published, healed, cut>>
    BY <1>8 DEF PutRollback, redisVars, ghostVars
  <2>2. \A g \in Gens : files'[g] \subseteq files[g]
    BY <1>8, <1>f DEF PutRollback
  <2> QED
    BY <2>1, <2>2, TrackedFrame
<1>9. ASSUME NEW x \in Files, PutWrite(p, x) PROVE TrackedInv'
  <2> USE <1>9
  <2>1. UNCHANGED <<meta, due, inflight, payload, w, published, healed, cut>>
    BY DEF PutWrite, redisVars, ghostVars
  <2>2. h[p].pc = "write" /\ h[p].gen \notin published /\ ~Touched(h[p].gen)
    BY DEF PutWrite, HistoryInv, History, OwnershipInv, DoubtAfterCommit, OwnedUnpublished, Owns
  <2>3. \A g \in Gens : g # h[p].gen => files'[g] = files[g]
    BY <1>f DEF PutWrite
  <2> QED
    BY <2>1, <2>2, <2>3, TrackedFrame
<1>10. CASE ReadHeal(p)
  <2>1. UNCHANGED <<due, inflight, payload, files, w, published, cut>>
    BY <1>10 DEF ReadHeal, diskVars
  <2>2. healed \subseteq healed' /\ (meta' = meta \/ meta \in healed')
    BY <1>10 DEF ReadHeal, DeleteBlockIfMatches
  <2> QED
    BY <2>1, <2>2, TrackedFrame
<1> QED
  BY <1>2, <1>3, <1>4, <1>5, <1>6, <1>7, <1>8, <1>9, <1>10
     DEF Request, HandlerStep, HandlerFault

(* Steps of the collector: what it forgets has no files left. *)
LEMMA CollectorFrame ==
    ASSUME TrackedInv, meta' = meta, published' = published, healed' = healed,
           \A g \in Gens : files'[g] \subseteq files[g],
           TaskDone',
           \A g \in Gens : files'[g] # {} /\ (Queued(g) \/ Reappearing(g) \/ g \in cut)
                              => (Queued(g) \/ Reappearing(g) \/ g \in cut)'
    PROVE  TrackedInv'
<1> SUFFICES ASSUME NEW g \in Gens, Superseded(g)'
             PROVE  (Queued(g) \/ Reappearing(g) \/ g \in cut)'
  BY DEF TrackedInv, RetiredTracked
<1>1. Superseded(g) /\ files'[g] # {}
  BY DEF Superseded
<1> QED
  BY <1>1 DEF TrackedInv, RetiredTracked

(* Steps that only move workers on; none leaves the middle of a reschedule   *)
(* unless it is recorded.                                                    *)
LEMMA WorkersMove ==
    ASSUME TypeInv, TrackedInv, NEW n \in Nodes,
           UNCHANGED <<meta, due, inflight, payload, files, published, healed>>,
           cut \subseteq cut',
           \A m \in Nodes \ {n} : w'[m] = w[m],
           w'[n].pc \notin {"complete", "erase", "store", "requeue"},
           Rescheduling(n) => w[n].task \in cut'
    PROVE  TrackedInv'
<1>1. TaskDone'
  BY DEF TrackedInv, TaskDone
<1>2. \A g \in Gens : Queued(g)' <=> Queued(g)
  BY DEF Queued
<1>3. ASSUME NEW g \in Gens, Reappearing(g) PROVE Reappearing(g)' \/ g \in cut'
  <2>1. PICK m \in Nodes : Rescheduling(m) /\ w[m].task = g
    BY <1>3 DEF Reappearing
  <2> QED
    BY <2>1 DEF Reappearing, Rescheduling
<1> QED
  BY <1>1, <1>2, <1>3, CollectorFrame

(* A collector that deletes what it takes for the files of its task leaves   *)
(* none of them.                                                             *)
LEMMA DeletesAll ==
    ASSUME TypeInv, FilesPlaced, CollectorSees, NEW n \in Nodes, NEW g \in Gens
    PROVE  files[g] \ PlacementFromMeta(n, g) = {}
<1>1. CASE files[g] # {}
  <2>1. PICK m \in Nodes : /\ layout[g] \in Kinds
                           /\ files[g] \subseteq FilesOf(layout[g], MountOf[m])
    BY <1>1 DEF FilesPlaced, Placed
  <2>2. FilesOf(layout[g], MountOf[m]) = FilesOf(layout[g], MountOf[n])
    BY <2>1 DEF CollectorSees
  <2> QED
    BY <2>1, <2>2 DEF PlacementFromMeta
<1> QED
  BY <1>1

LEMMA CollectorTracked ==
    ASSUME TypeInv, HistoryInv, TrackedInv, CollectorSees,
           NEW n \in Nodes, GcStep(n) \/ GcFault(n) \/ Crash(n)
    PROVE  TrackedInv'
<1>w. /\ w \in [Nodes -> WorkerState] /\ payload \in SUBSET Gens
      /\ files \in [Gens -> SUBSET Files] /\ due \in [Gens -> {"no", "wait", "ripe"}]
      /\ inflight \in [Gens -> {"no", "leased", "lapsed"}]
  BY DEF TypeInv, TypeOK
<1>t. w[n].pc \in BusyPcs => w[n].task \in Gens
  BY DEF TypeInv, Shape
<1>p. ASSUME NEW l, w' = [w EXCEPT ![n].pc = l]
      PROVE  /\ \A m \in Nodes \ {n} : w'[m] = w[m]
             /\ w'[n].pc = l /\ w'[n].task = w[n].task
  BY <1>p, <1>w DEF WorkerState
<1>n. ASSUME NextTask(n)
      PROVE  /\ \A m \in Nodes \ {n} : w'[m] = w[m]
             /\ w'[n].pc \in {"idle", "next"}
  BY <1>n, <1>w DEF NextTask
<1>1. CASE GcClaim(n)
  <2>1. /\ UNCHANGED <<meta, payload, files, published, healed, cut>>
        /\ \E S \in SUBSET Gens :
              /\ due' = [g \in Gens |-> IF g \in S THEN "no"
                                        ELSE IF g \in Lapsed THEN "ripe" ELSE due[g]]
              /\ inflight' = [g \in Gens |-> IF g \in S \cap payload THEN "leased"
                                         ELSE IF g \in Lapsed THEN "no" ELSE inflight[g]]
    BY <1>1 DEF GcClaim, Lapsed, diskVars, ghostVars
  <2>2. /\ \A m \in Nodes : w'[m] = w[m] \/ (m = n /\ w'[m].pc = "next")
        /\ w[n].pc = "idle"
    BY SMTT(15), <1>1, <1>w DEF GcClaim, NoWork
  <2>3. TaskDone'
    BY <2>1, <2>2 DEF TrackedInv, TaskDone
  <2>4. ASSUME NEW g \in Gens, Queued(g) PROVE Queued(g)'
    BY <2>1, <2>4 DEF Queued, Lapsed
  <2>5. ASSUME NEW g \in Gens, Reappearing(g) PROVE Reappearing(g)'
    BY <2>2, <2>5 DEF Reappearing, Rescheduling
  <2> QED
    BY <2>1, <2>3, <2>4, <2>5, CollectorFrame
<1>2. CASE GcNext(n) \/ GcNextFails(n)
  <2>1. /\ UNCHANGED <<meta, due, inflight, payload, files, published, healed, cut>>
        /\ \A m \in Nodes \ {n} : w'[m] = w[m]
        /\ w'[n].pc \in {"unlease", "delete"} /\ w[n].pc = "next"
    BY SMTT(15), <1>2, <1>w DEF GcNext, GcNextFails, redisVars, diskVars, ghostVars
  <2> QED
    BY <2>1, WorkersMove DEF Rescheduling
<1>3. CASE GcDelete(n)
  <2>1. /\ UNCHANGED <<meta, due, inflight, payload, published, healed, cut>>
        /\ \A m \in Nodes \ {n} : w'[m] = w[m]
        /\ w'[n].pc = "complete" /\ w'[n].task = w[n].task
        /\ w[n].pc = "delete"
    BY <1>3, <1>p DEF GcDelete, redisVars, ghostVars
  <2>2. w[n].task \in Gens /\ files'[w[n].task] = {} /\ \A g \in Gens : files'[g] \subseteq files[g]
    BY <1>3, <1>t, <1>w, <2>1, DeletesAll DEF GcDelete, HistoryInv, BusyPcs
  <2>3. TaskDone'
    <3>1. ASSUME NEW m \in Nodes, w[m].pc \in BusyPcs PROVE files'[w[m].task] \subseteq files[w[m].task]
      BY <3>1, <2>2 DEF TypeInv, Shape
    <3>2. ASSUME NEW m \in Nodes, m # n, w[m].pc \in {"complete", "erase"}
          PROVE  files'[w[m].task] = {}
      BY <3>1, <3>2 DEF TrackedInv, TaskDone, BusyPcs
    <3>3. ASSUME NEW m \in Nodes, m # n, w[m].pc = "requeue"
          PROVE  w[m].task \in payload' \/ files'[w[m].task] = {}
      BY <2>1, <3>1, <3>3 DEF TrackedInv, TaskDone, BusyPcs
    <3>4. ASSUME NEW m \in Nodes, w'[m].pc \in {"complete", "erase"} PROVE files'[w'[m].task] = {}
      BY <2>1, <2>2, <3>2, <3>4
    <3>5. ASSUME NEW m \in Nodes, w'[m].pc = "requeue"
          PROVE  w'[m].task \in payload' \/ files'[w'[m].task] = {}
      BY <2>1, <3>3, <3>5
    <3> QED
      BY <3>4, <3>5 DEF TaskDone
  <2>4. ASSUME NEW g \in Gens PROVE (Queued(g) => Queued(g)') /\ (Reappearing(g) => Reappearing(g)')
    BY <2>1 DEF Queued, Reappearing, Rescheduling
  <2> QED
    BY <2>1, <2>2, <2>3, <2>4, CollectorFrame
<1>4. CASE GcDeleteFails(n)
  <2>1. /\ UNCHANGED <<meta, due, inflight, payload, published, healed, cut>>
        /\ \A m \in Nodes \ {n} : w'[m] = w[m]
        /\ w'[n].pc = "unlease" /\ w[n].pc = "delete"
    BY <1>4, <1>p DEF GcDeleteFails, redisVars, ghostVars
  <2>2. \A g \in Gens : files'[g] \subseteq files[g]
    BY <1>4, <1>w DEF GcDeleteFails
  <2>3. TaskDone'
    <3>1. ASSUME NEW m \in Nodes, w[m].pc \in BusyPcs PROVE files'[w[m].task] \subseteq files[w[m].task]
      BY <3>1, <2>2 DEF TypeInv, Shape
    <3> QED
      BY SMTT(15), <2>1, <3>1 DEF TrackedInv, TaskDone, BusyPcs
  <2>4. ASSUME NEW g \in Gens PROVE (Queued(g) => Queued(g)') /\ (Reappearing(g) => Reappearing(g)')
    BY <2>1 DEF Queued, Reappearing, Rescheduling
  <2> QED
    BY <2>1, <2>2, <2>3, <2>4, CollectorFrame
<1>5. CASE GcComplete(n)
  <2>1. /\ UNCHANGED <<meta, due, payload, files, published, healed, cut>>
        /\ \A m \in Nodes \ {n} : w'[m] = w[m]
        /\ w'[n].pc = "erase" /\ w'[n].task = w[n].task /\ w[n].pc = "complete"
        /\ \A g \in Gens : g # w[n].task => inflight'[g] = inflight[g]
    BY <1>5, <1>p, <1>w DEF GcComplete, diskVars, ghostVars
  <2>2. files[w[n].task] = {}
    BY <2>1 DEF TrackedInv, TaskDone
  <2>3. TaskDone'
    BY <2>1, <2>2 DEF TrackedInv, TaskDone
  <2>4. ASSUME NEW g \in Gens, files'[g] # {}
        PROVE  (Queued(g) => Queued(g)') /\ (Reappearing(g) => Reappearing(g)')
    BY <2>1, <2>2, <2>4 DEF Queued, Reappearing, Rescheduling
  <2> QED
    BY <2>1, <2>3, <2>4, CollectorFrame
<1>6. CASE GcErase(n)
  <2>1. /\ UNCHANGED <<meta, due, inflight, files, published, healed, cut>>
        /\ \A m \in Nodes \ {n} : w'[m] = w[m]
        /\ w'[n].pc \in {"idle", "next"} /\ w[n].pc = "erase"
        /\ payload' = payload \ {w[n].task}
    BY <1>6, <1>n DEF GcErase, diskVars, ghostVars
  <2>2. files[w[n].task] = {}
    BY <2>1 DEF TrackedInv, TaskDone
  <2>3. TaskDone'
    BY <2>1, <2>2 DEF TrackedInv, TaskDone
  <2>4. ASSUME NEW g \in Gens, files'[g] # {}
        PROVE  (Queued(g) => Queued(g)') /\ (Reappearing(g) => Reappearing(g)')
    BY <2>1, <2>2, <2>4 DEF Queued, Reappearing, Rescheduling
  <2> QED
    BY <2>1, <2>3, <2>4, CollectorFrame
<1>7. CASE GcCompleteFails(n)
  <2>1. /\ UNCHANGED <<meta, due, inflight, payload, files, published, healed, cut>>
        /\ \A m \in Nodes \ {n} : w'[m] = w[m]
        /\ w'[n].pc = "unlease" /\ w[n].pc \in {"complete", "erase"}
    BY <1>7, <1>p DEF GcCompleteFails, redisVars, diskVars, ghostVars
  <2> QED
    BY <2>1, WorkersMove DEF Rescheduling
<1>8. CASE GcUnlease(n)
  <2>1. /\ UNCHANGED <<meta, due, payload, files, published, healed, cut>>
        /\ \A m \in Nodes \ {n} : w'[m] = w[m]
        /\ w'[n].pc = "store" /\ w'[n].task = w[n].task /\ w[n].pc = "unlease"
        /\ \A g \in Gens : g # w[n].task => inflight'[g] = inflight[g]
    BY <1>8, <1>p, <1>w DEF GcUnlease, diskVars, ghostVars
  <2>2. TaskDone'
    BY <2>1 DEF TrackedInv, TaskDone
  <2>3. ASSUME NEW g \in Gens
        PROVE  Queued(g) \/ Reappearing(g) => Queued(g)' \/ Reappearing(g)'
    BY <2>1 DEF Queued, Reappearing, Rescheduling
  <2> QED
    BY <2>1, <2>2, <2>3, CollectorFrame
<1>9. CASE GcStore(n)
  <2>1. /\ UNCHANGED <<meta, due, inflight, files, published, healed, cut>>
        /\ \A m \in Nodes \ {n} : w'[m] = w[m]
        /\ w'[n].pc = "requeue" /\ w'[n].task = w[n].task /\ w[n].pc = "store"
        /\ payload' = payload \cup {w[n].task}
    BY <1>9, <1>p DEF GcStore, diskVars, ghostVars
  <2>2. TaskDone'
    BY <2>1 DEF TrackedInv, TaskDone
  <2>3. ASSUME NEW g \in Gens PROVE (Queued(g) => Queued(g)') /\ (Reappearing(g) => Reappearing(g)')
    BY <2>1 DEF Queued, Reappearing, Rescheduling
  <2> QED
    BY <2>1, <2>2, <2>3, CollectorFrame
<1>10. CASE GcRequeue(n)
  <2>1. /\ UNCHANGED <<meta, inflight, payload, files, published, healed, cut>>
        /\ \A m \in Nodes \ {n} : w'[m] = w[m]
        /\ w'[n].pc \in {"idle", "next"} /\ w[n].pc = "requeue"
    BY <1>10, <1>n DEF GcRequeue, diskVars, ghostVars
  <2>2. \A g \in Gens : due'[g] = IF g = w[n].task THEN "wait" ELSE due[g]
    BY <1>10, <1>w DEF GcRequeue
  <2>3. TaskDone'
    BY <2>1 DEF TrackedInv, TaskDone
  <2>4. ASSUME NEW g \in Gens, Queued(g) PROVE Queued(g)'
    BY <2>1, <2>2, <2>4 DEF Queued
  <2>5. ASSUME NEW g \in Gens, files'[g] # {}, Reappearing(g)
        PROVE  Queued(g)' \/ Reappearing(g)'
    <3>1. PICK m \in Nodes : Rescheduling(m) /\ w[m].task = g
      BY <2>5 DEF Reappearing
    <3>2. CASE m = n
      BY <3>1, <3>2, <2>1, <2>2, <2>5 DEF TrackedInv, TaskDone, Queued
    <3>3. CASE m # n
      BY <3>1, <3>3, <2>1 DEF Reappearing, Rescheduling
    <3> QED
      BY <3>2, <3>3
  <2> QED
    BY <2>1, <2>3, <2>4, <2>5, CollectorFrame
<1>11. CASE GcRescheduleFails(n)
  <2>1. /\ UNCHANGED <<meta, due, inflight, payload, files, published, healed>>
        /\ \A m \in Nodes \ {n} : w'[m] = w[m]
        /\ w'[n].pc \in {"idle", "next"}
        /\ cut \subseteq cut' /\ (Rescheduling(n) => w[n].task \in cut')
    BY <1>11, <1>n DEF GcRescheduleFails, redisVars, diskVars
  <2> QED
    BY <2>1, WorkersMove
<1>12. CASE Crash(n)
  <2>1. /\ UNCHANGED <<meta, due, inflight, payload, files, published, healed>>
        /\ \A m \in Nodes \ {n} : w'[m] = w[m]
        /\ w'[n].pc = "idle"
        /\ cut \subseteq cut' /\ (Rescheduling(n) => w[n].task \in cut')
    BY <1>12, <1>w DEF Crash, redisVars, diskVars, NoWork
  <2> QED
    BY <2>1, WorkersMove
<1> QED
  BY <1>1, <1>2, <1>3, <1>4, <1>5, <1>6, <1>7, <1>8, <1>9, <1>10, <1>11, <1>12
     DEF GcStep, GcFault

LEMMA TrackedStep ==
    CollectorSees /\ TypeInv /\ OwnershipInv /\ HistoryInv /\ TrackedInv /\ [Next]_vars
        => TrackedInv'
<1> SUFFICES ASSUME CollectorSees, TypeInv, OwnershipInv, HistoryInv, TrackedInv, [Next]_vars
             PROVE  TrackedInv'
  OBVIOUS
<1>1. CASE Delete
  <2>1. UNCHANGED <<files, w, published, healed, cut>> /\ RetireBlock
    BY <1>1 DEF Delete, diskVars, ghostVars
  <2>2. /\ payload \subseteq payload'
        /\ \A x \in Gens : due[x] # "no" => due'[x] # "no"
        /\ inflight' = inflight
        /\ meta' = meta \/ meta = 0 \/ (meta \in payload' /\ due'[meta] = "wait")
    BY <2>1, ScriptQueues
  <2> QED
    BY <2>1, <2>2, TrackedFrame
<1>2. CASE TtlPasses \/ (\E g \in Gens : Clock(g)) \/ UNCHANGED vars
  <2>1. UNCHANGED <<meta, payload, files, w, published, healed, cut>>
    BY <1>2 DEF TtlPasses, Clock, GraceEnds, LeaseLapses, vars, redisVars, diskVars, ghostVars
  <2>2. /\ \A x \in Gens : due[x] # "no" => due'[x] # "no"
        /\ \A x \in Gens : inflight[x] # "no" => inflight'[x] # "no"
    BY <1>2 DEF TtlPasses, Clock, GraceEnds, LeaseLapses, vars, redisVars, TypeInv, TypeOK
  <2> QED
    BY <2>1, <2>2, TrackedFrame
<1> QED
  BY <1>1, <1>2, HandlerTracked, CollectorTracked, ConstantsAssumption DEF Next

(* Every generation that was current, is not any more and still has files is *)
(* in the collector's queue or on its way back there, unless a read dropped  *)
(* it as stale or its reschedule was cut off between two Redis commands: no  *)
(* interleaving of overwrites, deletes, purges, collectors, lapsing leases,  *)
(* failed deletes and crashes leaks it.  The nodes' mounts must look alike   *)
(* to the collector: the metadata of a local object does not say whose disk  *)
(* it is on.                                                                 *)
THEOREM RetiredNotForgotten == CollectorSees /\ Spec => []RetiredTracked
<1> SUFFICES ASSUME CollectorSees PROVE Spec => []RetiredTracked
  OBVIOUS
<1>0. TypeInv /\ OwnershipInv /\ HistoryInv /\ TrackedInv /\ [Next]_vars => TrackedInv'
  BY TrackedStep
<1>1. Spec => [](TypeInv /\ OwnershipInv /\ HistoryInv /\ TrackedInv)
  BY <1>0, InitTypeInv, TypeStep, InitOwnership, OwnershipStep, InitHistory, HistoryStep,
     InitTracked, PTL DEF Spec
<1> QED
  BY <1>1, PTL DEF TrackedInv

-----------------------------------------------------------------------------
(* Metadata that leaves the key. *)

LEMMA InitHeal == Init => HealInv
BY SMTT(15) DEF Init, HealInv, HealBroken, ReadersPlaced, NoHandler

(* No step adds a file to a generation that has been current, or moves it:   *)
(* a read that found one missing stays right.                                *)
LEMMA HealFrame ==
    ASSUME TypeInv, HistoryInv, HealInv,
           \A g \in published : /\ layout'[g] = layout[g] /\ home'[g] = home[g]
                                /\ files'[g] \subseteq files[g],
           \A q \in Handlers :
              \/ h'[q].pc \notin {"purge", "read", "heal"}
              \/ h'[q] = h[q]
              \/ h'[q].pc \in {"purge", "read"} /\ h'[q].at \in Nodes
              \/ /\ h'[q].pc = "heal" /\ h[q].pc = "read" /\ h'[q].gen = h[q].gen
                 /\ ~FilesComplete(h[q].gen)
    PROVE  HealInv'
<1> USE DEF HealInv
<1>1. ReadersPlaced'
  BY DEF ReadersPlaced
<1>2. ASSUME NEW q \in Handlers, h'[q].pc = "heal" PROVE ~FilesComplete(h[q].gen)'
  <2>1. PICK g \in published : h'[q].gen = g /\ h[q].gen = g /\ ~FilesComplete(g)
    BY <1>2 DEF HealBroken, HistoryInv, History
  <2> QED
    BY SMTT(15), <2>1 DEF FilesComplete
<1> QED
  BY <1>1, <1>2 DEF HealBroken

(* A file missing from a node's own file systems is missing. *)
LEMMA LocallyMissing ==
    ASSUME TypeInv, HistoryInv, HealInv, ReadersSee, NEW p \in Handlers,
           h[p].pc = "read", ReadsLocally(p),
           ~(LocalView(h[p].at, h[p].gen) \subseteq files[h[p].gen])
    PROVE  ~FilesComplete(h[p].gen)
<1>1. PICK n \in Nodes, g \in Gens : n = h[p].at /\ g = h[p].gen
  BY DEF TypeInv, Shape, GenPcs, HealInv, ReadersPlaced
<1> USE <1>1
<1>2. \A m, o \in Nodes : MountOf[m] = MountOf[o]
  <2> SUFFICES ASSUME Kinds \subseteq SpreadKinds, "exists" \notin ReadKinds PROVE FALSE
    BY DEF ReadersSee
  <2>1. layout[g] \notin LocalKinds /\ h[p].kind # "exists"
    BY SMTT(15) DEF TypeInv, TypeOK, HandlerState, LocalKinds, SpreadKinds
  <2> QED
    BY <2>1 DEF ReadsLocally
<1>3. CASE files[g] = {}
  BY <1>3 DEF FilesComplete, FilesOf
<1>4. CASE files[g] # {}
  <2>1. home[g] = MountOf[n]
    BY ZenonT(40), <1>2, <1>4 DEF HistoryInv, FilesPlaced, Placed
  <2>2. LocalView(n, g) = FilesOf(layout[g], home[g])
    BY SMTT(40), <1>2, <2>1 DEF LocalView, FilesOf
  <2> QED
    BY <2>2 DEF FilesComplete
<1> QED
  BY <1>3, <1>4

LEMMA HandlerHeal ==
    ASSUME TypeInv, OwnershipInv, HistoryInv, HealInv, ReadersSee, NEW p \in Handlers,
           Request(p) \/ HandlerStep(p) \/ HandlerFault(p)
    PROVE  HealInv'
<1>h. h \in [Handlers -> HandlerState] /\ files \in [Gens -> SUBSET Files]
  BY DEF TypeInv, TypeOK
<1> USE <1>h
<1>r. ASSUME Return(p)
      PROVE  \A q \in Handlers : h'[q] = h[q] \/ h'[q].pc \notin {"purge", "read", "heal"}
  BY <1>r DEF Return, NoHandler
<1>g. ASSUME NEW l, Goto(p, l)
      PROVE  /\ h'[p].pc = l /\ h'[p].gen = h[p].gen /\ h'[p].at = h[p].at
             /\ \A q \in Handlers \ {p} : h'[q] = h[q]
  BY <1>g DEF Goto, HandlerState
<1> USE <1>g
<1>1. ASSUME UNCHANGED diskVars, Return(p) PROVE HealInv'
  BY <1>1, <1>r, HealFrame DEF diskVars
<1> USE <1>1
<1>2. ASSUME NEW n \in Nodes, NEW k \in Kinds, NEW x \in BOOLEAN, PutBegin(p, n, k, x)
      PROVE  HealInv'
  <2>1. \A q \in Handlers : h'[q] = h[q] \/ h'[q].pc \notin {"purge", "read", "heal"}
    BY <1>2 DEF PutBegin, NoHandler
  <2> QED
    BY <1>2, <2>1, HealFrame DEF PutBegin, diskVars
<1>3. ASSUME NEW n \in Gateways, NEW k \in ReadKinds, ReadBegin(p, n, k)
      PROVE  HealInv'
  <2>1. \A q \in Handlers : h'[q] = h[q] \/ (h'[q].pc \in {"purge", "read"} /\ h'[q].at \in Nodes)
    BY ZenonT(40), <1>3, ConstantsAssumption DEF ReadBegin, NoHandler
  <2> QED
    BY <1>3, <2>1, HealFrame DEF ReadBegin, diskVars
<1>4. CASE PutDropExpired(p)
  <2>1. \A q \in Handlers : h'[q] = h[q] \/ h'[q].pc \notin {"purge", "read", "heal"}
    BY SMTT(15), <1>4 DEF PutDropExpired, HandlerState
  <2> QED
    BY <1>4, <2>1, HealFrame DEF PutDropExpired, diskVars
<1>5. CASE PutPrepare(p)
  <2> USE <1>5
  <2>1. \A q \in Handlers : h'[q] = h[q] \/ h'[q].pc \notin {"purge", "read", "heal"}
    BY SMTT(15) DEF PutPrepare, HandlerState
  <2>2. PICK g \in Gens : /\ g > counter
                          /\ layout' = [layout EXCEPT ![g] = h[p].kind]
                          /\ home' = [home EXCEPT ![g] = MountOf[h[p].at]]
    <3>1. NextGeneration > counter
      <4>1. meta \in Int /\ counter \in Int
        BY SMTT(15) DEF TypeInv, TypeOK, Gens
      <4> QED
        BY SMTT(40), <4>1 DEF NextGeneration
    <3> QED
      BY <3>1 DEF PutPrepare
  <2>3. \A x \in published : x # g
    <3>1. \A x \in Gens : x > counter => ~(x <= counter)
      BY SMTT(15) DEF Gens, TypeInv, TypeOK
    <3> QED
      BY <2>2, <3>1 DEF HistoryInv, History
  <2>4. \A x \in published : layout'[x] = layout[x] /\ home'[x] = home[x]
    BY <2>2, <2>3 DEF TypeInv, TypeOK
  <2> QED
    BY <2>1, <2>4, HealFrame DEF PutPrepare
<1>6. ASSUME NEW f \in Files, PutWrite(p, f) PROVE HealInv'
  <2> USE <1>6
  <2>1. \A q \in Handlers : h'[q] = h[q] \/ h'[q].pc \notin {"purge", "read", "heal"}
    BY SMTT(15) DEF PutWrite, HandlerState
  <2>2. h[p].gen \notin published
    BY DEF PutWrite, HistoryInv, History
  <2>3. \A g \in published : files'[g] = files[g]
    BY <2>2 DEF PutWrite, TypeInv, TypeOK
  <2> QED
    BY <2>1, <2>3, HealFrame DEF PutWrite
<1>7. CASE PutCommit(p) \/ PutCommitReplyLost(p) \/ PutCommitFails(p)
  <2>1. UNCHANGED diskVars /\ (Return(p) \/ \E l \in {"rerun", "rollback"} : Goto(p, l))
    BY <1>7 DEF PutCommit, PutCommitReplyLost, PutCommitFails, Publish
  <2>2. ASSUME NEW l \in {"rerun", "rollback"}, Goto(p, l) PROVE HealInv'
    BY <2>1, <2>2, HealFrame DEF diskVars
  <2> QED
    BY <2>1, <2>2
<1>8. CASE PutRollback(p)
  <2>1. \A g \in published : files'[g] \subseteq files[g]
    BY SMTT(15), <1>8 DEF PutRollback, TypeInv, TypeOK
  <2> QED
    BY <1>8, <2>1, <1>r, HealFrame DEF PutRollback
<1>9. CASE ReadPurge(p)
  <2>1. UNCHANGED diskVars /\ h[p].pc = "purge" /\ (Return(p) \/ Goto(p, "read"))
    BY <1>9 DEF ReadPurge
  <2> USE <2>1
  <2>2. CASE Goto(p, "read")
    <3>1. h[p].at \in Nodes
      BY DEF HealInv, ReadersPlaced
    <3> QED
      BY <2>2, <3>1, HealFrame DEF diskVars
  <2> QED
    BY <2>2
<1>10. CASE ReadLocal(p)
  <2>1. CASE Return(p)
    BY <1>10, <2>1 DEF ReadLocal
  <2>2. CASE ~Return(p)
    <3>1. /\ UNCHANGED diskVars /\ h[p].pc = "read" /\ Goto(p, "heal") /\ ReadsLocally(p)
          /\ ~(LocalView(h[p].at, h[p].gen) \subseteq files[h[p].gen])
      BY <1>10, <2>2 DEF ReadLocal
    <3>2. ~FilesComplete(h[p].gen)
      BY <3>1, LocallyMissing
    <3> QED
      BY <3>1, <3>2, HealFrame DEF diskVars
  <2> QED
    BY <2>1, <2>2
<1>11. CASE PutWriteFails(p) \/ ReadPlacement(p) \/ ReadHeal(p)
  BY <1>11 DEF PutWriteFails, ReadPlacement, ReadHeal
<1> QED
  BY <1>2, <1>3, <1>4, <1>5, <1>6, <1>7, <1>8, <1>9, <1>10, <1>11
     DEF Request, HandlerStep, HandlerFault

LEMMA HealStep ==
    ReadersSee /\ TypeInv /\ OwnershipInv /\ HistoryInv /\ HealInv /\ [Next]_vars => HealInv'
<1> SUFFICES ASSUME ReadersSee, TypeInv, OwnershipInv, HistoryInv, HealInv, [Next]_vars
             PROVE  HealInv'
  OBVIOUS
<1>1. CASE Delete \/ TtlPasses \/ (\E g \in Gens : Clock(g)) \/ UNCHANGED vars
  <2>1. UNCHANGED <<files, layout, home, h>>
    BY <1>1 DEF Delete, TtlPasses, Clock, GraceEnds, LeaseLapses, vars, diskVars
  <2> QED
    BY <2>1, HealFrame
<1>2. ASSUME NEW n \in Nodes, GcStep(n) \/ GcFault(n) PROVE HealInv'
  <2>1. UNCHANGED <<layout, home, h>>
    BY <1>2 DEF GcStep, GcFault, GcClaim, GcNext, GcNextFails, GcDelete, GcDeleteFails,
                GcComplete, GcCompleteFails, GcErase, GcUnlease, GcStore, GcRequeue,
                GcRescheduleFails, diskVars
  <2>2. \A g \in Gens : files'[g] \subseteq files[g]
    BY <1>2, CollectorRemoves
  <2> QED
    BY <2>1, <2>2, HealFrame DEF TypeInv, TypeOK
<1>3. ASSUME NEW n \in Nodes, Crash(n) PROVE HealInv'
  <2>1. \A q \in Handlers : h'[q] = h[q] \/ h'[q].pc = "idle"
    BY <1>3 DEF Crash, NoHandler
  <2> QED
    BY <1>3, <2>1, HealFrame DEF Crash, diskVars
<1> QED
  BY <1>1, <1>2, <1>3, HandlerHeal, ConstantsAssumption DEF Next

(* The steps that change what is under the key. *)
LEMMA KeyChanges ==
    ASSUME TypeInv, HistoryInv, [Next]_vars, meta # 0, meta' # meta
    PROVE  \/ Delete
           \/ \E p \in Handlers :
                 \/ PutDropExpired(p) \/ ReadPurge(p) \/ ReadHeal(p)
                 \/ PutCommit(p) \/ PutCommitReplyLost(p)
<1>1. ASSUME NEW p \in Handlers, Request(p) PROVE FALSE
  BY <1>1 DEF Request, PutBegin, ReadBegin, redisVars
<1>2. ASSUME NEW p \in Handlers,
             \/ PutPrepare(p) \/ (\E f \in Files : PutWrite(p, f)) \/ PutRollback(p)
             \/ ReadPlacement(p) \/ ReadLocal(p) \/ PutWriteFails(p) \/ PutCommitFails(p)
      PROVE  FALSE
  BY <1>2 DEF PutPrepare, PutWrite, PutRollback, ReadPlacement, ReadLocal, PutWriteFails,
              PutCommitFails, redisVars
<1>3. ASSUME NEW n \in Nodes, GcStep(n) \/ GcFault(n) \/ Crash(n) PROVE FALSE
  BY <1>3 DEF GcStep, GcFault, GcClaim, GcNext, GcNextFails, GcDelete, GcDeleteFails,
              GcComplete, GcCompleteFails, GcErase, GcUnlease, GcStore, GcRequeue,
              GcRescheduleFails, Crash, redisVars
<1>4. CASE TtlPasses \/ (\E g \in Gens : Clock(g)) \/ UNCHANGED vars
  BY <1>4 DEF TtlPasses, Clock, GraceEnds, LeaseLapses, vars, redisVars
<1> QED
  BY <1>1, <1>2, <1>3, <1>4, ConstantsAssumption DEF Next, HandlerStep, HandlerFault

(* Metadata of an intact object leaves the key only by being retired, which  *)
(* queues its files in the same Redis script: an overwrite, a DELETE or a    *)
(* purge of an expired object, and never a read that races them.  Readers    *)
(* must see the files where they look for them.                              *)
THEOREM MetadataRetiredOnly == ReadersSee /\ Spec => LiveMetadataKept
<1> SUFFICES ASSUME ReadersSee PROVE Spec => LiveMetadataKept
  OBVIOUS
<1> DEFINE Kept == meta # 0 /\ meta' # meta /\ FilesComplete(meta) => due'[meta] = "wait"
<1>1. ASSUME TypeInv, HistoryInv, HealInv, [Next]_vars, meta # 0, meta' # meta, FilesComplete(meta)
      PROVE  due'[meta] = "wait"
  <2>1. CASE Delete
    BY <1>1, <2>1, ScriptQueues DEF Delete
  <2>2. ASSUME NEW p \in Handlers, PutDropExpired(p) \/ ReadPurge(p) PROVE due'[meta] = "wait"
    <3>1. RetireBlockIfMatches(h[p].gen)
      BY <2>2 DEF PutDropExpired, ReadPurge
    <3> QED
      BY <1>1, <3>1, ScriptQueues
  <2>3. ASSUME NEW p \in Handlers, PutCommit(p) \/ PutCommitReplyLost(p)
        PROVE  due'[meta] = "wait"
    <3>1. ReplaceBlock(h[p].gen) \/ PutBlockIfAbsent(h[p].gen)
      BY <1>1, <2>3 DEF PutCommit, PutCommitReplyLost, Publish
    <3> QED
      BY <1>1, <3>1, ScriptQueues
  <2>4. ASSUME NEW p \in Handlers, ReadHeal(p) PROVE FALSE
    <3>1. h[p].pc = "heal" /\ h[p].gen = meta
      BY <1>1, <2>4 DEF ReadHeal, DeleteBlockIfMatches
    <3> QED
      BY <1>1, <3>1 DEF HealInv, HealBroken
  <2> QED
    BY <1>1, <2>1, <2>2, <2>3, <2>4, KeyChanges
<1>2. TypeInv /\ HistoryInv /\ HealInv /\ [Next]_vars => [Kept]_vars
  BY <1>1
<1>3. TypeInv /\ OwnershipInv /\ HistoryInv /\ HealInv /\ [Next]_vars => HealInv'
  BY HealStep
<1> QED
  BY <1>2, <1>3, InitTypeInv, TypeStep, InitOwnership, OwnershipStep, InitHistory, HistoryStep,
     InitHeal, PTL DEF Spec, LiveMetadataKept

(* No handler removes an object that is neither expired nor broken: a purge  *)
(* or a heal decided on an older identity spares the value that replaced it. *)
(* The exception is a value published a second time by the rerun of a commit *)
(* whose reply was lost.                                                     *)
THEOREM PurgesSpareNewer == ReadersSee /\ Spec => PurgeSparesNewer
<1> SUFFICES ASSUME ReadersSee PROVE Spec => PurgeSparesNewer
  OBVIOUS
<1> DEFINE Spares == meta # 0 /\ meta' = 0 /\ h' # h =>
                         expired \/ ~FilesComplete(meta) \/ meta \in doubted
<1>1. ASSUME TypeInv, HistoryInv, HealInv, [Next]_vars, meta # 0, meta' = 0, h' # h
      PROVE  expired \/ ~FilesComplete(meta) \/ meta \in doubted
  <2>1. CASE Delete
    BY <1>1, <2>1 DEF Delete
  <2>2. ASSUME NEW p \in Handlers, PutDropExpired(p) \/ ReadPurge(p)
        PROVE  expired \/ meta \in doubted
    <3>1. h[p].pc \in {"drop", "purge"} /\ h[p].gen = meta
      BY <1>1, <2>2 DEF PutDropExpired, ReadPurge, RetireBlockIfMatches
    <3> QED
      BY <1>1, <3>1 DEF HistoryInv, PurgeJustified
  <2>3. ASSUME NEW p \in Handlers, PutCommit(p) \/ PutCommitReplyLost(p) PROVE FALSE
    <3>1. h[p].gen \in Gens
      BY <1>1, <2>3 DEF PutCommit, PutCommitReplyLost, TypeInv, Shape, GenPcs, OwnerPcs
    <3>2. meta' = h[p].gen
      BY <1>1, <2>3 DEF PutCommit, PutCommitReplyLost, Publish, ReplaceBlock, PutBlockIfAbsent
    <3> QED
      BY SMTT(15), <1>1, <3>1, <3>2 DEF Gens
  <2>4. ASSUME NEW p \in Handlers, ReadHeal(p) PROVE ~FilesComplete(meta)
    <3>1. h[p].pc = "heal" /\ h[p].gen = meta
      BY <1>1, <2>4 DEF ReadHeal, DeleteBlockIfMatches
    <3> QED
      BY <1>1, <3>1 DEF HealInv, HealBroken
  <2> QED
    BY <1>1, <2>1, <2>2, <2>3, <2>4, KeyChanges
<1>2. TypeInv /\ HistoryInv /\ HealInv /\ [Next]_vars => [Spares]_vars
  BY <1>1
<1>3. TypeInv /\ OwnershipInv /\ HistoryInv /\ HealInv /\ [Next]_vars => HealInv'
  BY HealStep
<1> QED
  BY <1>2, <1>3, InitTypeInv, TypeStep, InitOwnership, OwnershipStep, InitHistory, HistoryStep,
     InitHeal, PTL DEF Spec, PurgeSparesNewer
=============================================================================
