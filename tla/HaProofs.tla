------------------------------ MODULE HaProofs ------------------------------
(* For any number of threads and outages: the breaker is well typed, and in  *)
(* HALF_OPEN somebody is there whose record will move it.                    *)
EXTENDS HaBackend, TLAPS

(* Time limits of the provers, for a busy machine. *)
USE ZenonT(10), SMTT(15)

(* TrialPending alone is not inductive: a thread admitted before the outage  *)
(* may leave without a record.  The one who is awaited either was admitted   *)
(* as the trial and has its second question still to ask, or is past it.     *)
Awaited(t) ==
    \/ c[t].pc \in {"region", "child"}
    \/ c[t].pc = "translate" /\ c[t].try = TRUE
SomeoneAwaited == state = "half_open" /\ abandoned = FALSE => \E t \in Callers : Awaited(t)

Caller == [pc : {"idle", "translate", "region", "child"},
           op : Ops \cup {"none"}, lost : BOOLEAN, try : BOOLEAN]

(* An idle thread is well typed. *)
LEMMA IdleType == Idle \in Caller
BY DEF Idle, Caller

(* allow keeps the breaker typed, and _trial_inflight set exactly in         *)
(* HALF_OPEN.                                                                *)
LEMMA AdmitType ==
    ASSUME TypeOK, Admit
    PROVE  /\ state' \in {"closed", "open", "half_open"} /\ cooling' \in BOOLEAN
           /\ trial' = (state' = "half_open")
<1>1. state \in {"closed", "open", "half_open"} /\ cooling \in BOOLEAN
  BY DEF TypeOK
<1> USE <1>1
<1>2. trial = (state = "half_open")
  BY DEF TypeOK
<1>3. CASE state = "closed"
  <2>1. state' = "closed" /\ trial' = trial /\ cooling' = cooling
    BY <1>3 DEF Admit
  <2> QED
    BY <2>1, <1>2, <1>3
<1>4. CASE state # "closed"
  <2>1. trial' = TRUE /\ cooling' = cooling
    BY <1>4 DEF Admit
  <2>2. state' = "half_open"
    BY <1>4 DEF Admit
  <2> QED
    BY <2>1, <2>2
<1> QED
  BY <1>3, <1>4

(* So does record. *)
LEMMA RecordType ==
    ASSUME TypeOK, NEW ok \in BOOLEAN, Record(ok)
    PROVE  /\ state' \in {"closed", "open"} /\ cooling' \in BOOLEAN
           /\ trial' = (state' = "half_open")
<1>1. state' \in {"closed", "open"} /\ trial' = FALSE
  BY DEF Record
<1>2. cooling' \in BOOLEAN
  BY DEF Record, TypeOK
<1> QED
  BY <1>1, <1>2

(* Every step of a thread keeps the types of all threads. *)
LEMMA CallersType ==
    ASSUME TypeOK, [Next]_vars
    PROVE  c' \in [Callers -> Caller]
<1>1. c \in [Callers -> Caller] /\ up \in BOOLEAN
  BY DEF TypeOK, Caller
<1> USE <1>1
<1>2. ASSUME NEW t \in Callers, NEW op \in Ops, Call(t, op)
      PROVE  c' \in [Callers -> Caller]
  <2> DEFINE r == [pc |-> IF op = "rdma" THEN "translate" ELSE "child",
                   op |-> op, lost |-> ~up, try |-> state # "closed"]
  <2>1. r \in Caller
    BY DEF Caller
  <2>2. c' = [c EXCEPT ![t] = r]
    BY <1>2 DEF Call
  <2> HIDE DEF r
  <2> QED
    BY <2>1, <2>2
<1>3. ASSUME NEW t \in Callers, NEW l \in {"region", "child"}, Goto(t, l)
      PROVE  c' \in [Callers -> Caller]
  <2> DEFINE r == [c[t] EXCEPT !.pc = l, !.lost = ~up]
  <2>1. c[t] \in Caller
    OBVIOUS
  <2>2. r \in Caller
    BY <2>1 DEF Caller
  <2>3. c' = [c EXCEPT ![t] = r]
    BY <1>3 DEF Goto
  <2> HIDE DEF r
  <2> QED
    BY <2>2, <2>3
<1>4. ASSUME NEW t \in Callers, Return(t)
      PROVE  c' \in [Callers -> Caller]
  BY <1>4, IdleType DEF Return
<1>5. CASE ServerFails
  <2>1. \A t \in Callers : [c[t] EXCEPT !.lost = c[t].pc # "idle"] \in Caller
    <3> TAKE t \in Callers
    <3>1. c[t] \in Caller
      OBVIOUS
    <3> QED
      BY <3>1 DEF Caller
  <2> QED
    BY <1>5, <2>1 DEF ServerFails
<1>6. CASE CooldownPasses \/ ServerReturns \/ UNCHANGED vars
  BY <1>6 DEF CooldownPasses, ServerReturns, vars
<1>7. ASSUME NEW t \in Callers, Step(t)
      PROVE  c' \in [Callers -> Caller]
  BY <1>3, <1>4, <1>7 DEF Step, Translate, Region, Child
<1> QED
  BY <1>2, <1>5, <1>6, <1>7 DEF Next

(* The type invariant is inductive: whoever asks or reports, _trial_inflight *)
(* is set exactly in HALF_OPEN.                                              *)
LEMMA TypeStep == TypeOK /\ [Next]_vars => TypeOK'
<1> SUFFICES ASSUME TypeOK, [Next]_vars PROVE TypeOK'
  OBVIOUS
<1>1. c' \in [Callers -> Caller]
  BY CallersType
<1>2. /\ state' \in {"closed", "open", "half_open"} /\ cooling' \in BOOLEAN
      /\ trial' = (state' = "half_open")
  <2>1. ASSUME NEW t \in Callers, NEW op \in Ops, Call(t, op)
        PROVE  Admit
    BY <2>1 DEF Call
  <2>2. ASSUME NEW t \in Callers, Step(t)
        PROVE  Admit \/ Record(TRUE) \/ Record(FALSE) \/ UNCHANGED breaker
    BY <2>2 DEF Step, Translate, Region, Child
  <2>3. CASE UNCHANGED breaker
    BY <2>3 DEF breaker, TypeOK
  <2>4. CASE CooldownPasses
    BY <2>4 DEF CooldownPasses, TypeOK
  <2>5. CASE ServerFails \/ ServerReturns \/ UNCHANGED vars
    BY <2>3, <2>5 DEF ServerFails, ServerReturns, vars, breaker
  <2> QED
    BY <2>1, <2>2, <2>3, <2>4, <2>5, AdmitType, RecordType DEF Next
<1>3. up' \in BOOLEAN /\ outages' \in 0 .. MaxOutages
  <2>1. CASE UNCHANGED server
    BY <2>1 DEF server, TypeOK
  <2>2. CASE ServerFails
    <3>1. up' = FALSE /\ outages < MaxOutages /\ outages' = outages + 1
      BY <2>2 DEF ServerFails
    <3>2. outages \in 0 .. MaxOutages
      BY DEF TypeOK
    <3>3. outages' \in 0 .. MaxOutages
      BY SMTT(15), <3>1, <3>2, HaAssumption
    <3> QED
      BY <3>1, <3>3
  <2>3. CASE ServerReturns
    BY <2>3 DEF ServerReturns, TypeOK
  <2> QED
    BY <2>1, <2>2, <2>3
    DEF Next, Step, Call, Translate, Region, Child, CooldownPasses, vars, server
<1>4. abandoned' \in BOOLEAN
  <2>1. abandoned \in BOOLEAN /\ c \in [Callers -> Caller]
    BY DEF TypeOK, Caller
  <2>2. ASSUME NEW t \in Callers, Translate(t)
        PROVE  abandoned' \in BOOLEAN
    BY <2>1, <2>2 DEF Translate
  <2> QED
    BY <2>1, <2>2
    DEF Next, Step, Call, Region, Child, CooldownPasses, ServerFails, ServerReturns, vars
<1> QED
  BY <1>1, <1>2, <1>3, <1>4 DEF TypeOK, Caller

(* Record leaves HALF_OPEN; only the abandoning of a trial lets the awaited  *)
(* thread go otherwise.                                                      *)
LEMMA AwaitedStep == TypeOK /\ SomeoneAwaited /\ [Next]_vars => SomeoneAwaited'
<1> SUFFICES ASSUME TypeOK, SomeoneAwaited, [Next]_vars,
                    state' = "half_open", abandoned' = FALSE
             PROVE  \E t \in Callers : Awaited(t)'
  BY DEF SomeoneAwaited
<1>1. c \in [Callers -> Caller] /\ state \in {"closed", "open", "half_open"}
      /\ trial = (state = "half_open")
  BY DEF TypeOK, Caller
<1> USE <1>1
<1>2. ASSUME NEW t \in Callers, NEW op \in Ops, Call(t, op)
      PROVE  Awaited(t)'
  <2>1. state # "closed"
    BY <1>2 DEF Call, Admit
  <2> DEFINE lost == ~up
             try == state # "closed"
  <2>2. c' = [c EXCEPT ![t] = [pc |-> IF op = "rdma" THEN "translate" ELSE "child",
                               op |-> op, lost |-> lost, try |-> try]]
    BY <1>2 DEF Call
  <2>3. try = TRUE
    BY <2>1
  <2> HIDE DEF lost, try
  <2>4. c'[t] = [pc |-> IF op = "rdma" THEN "translate" ELSE "child",
                 op |-> op, lost |-> lost, try |-> try]
    BY <2>2
  <2>5. c'[t].pc \in {"translate", "child"} /\ c'[t].try = try
    BY SMTT(15), <2>4
  <2> QED
    BY <2>3, <2>5 DEF Awaited
<1>3. ASSUME NEW t \in Callers, Region(t) \/ Child(t)
      PROVE  FALSE
  BY <1>3 DEF Region, Child, Record
<1>4. ASSUME NEW t \in Callers, Translate(t)
      PROVE  \E q \in Callers : Awaited(q)'
  <2> USE <1>4
  <2>1. CASE Admits
    <3>1. Goto(t, "region")
      BY <2>1 DEF Translate
    <3>2. c'[t].pc = "region"
      BY SMTT(15), <3>1 DEF Goto
    <3> QED
      BY <3>2 DEF Awaited
  <2>2. CASE ~Admits
    <3>1. Return(t) /\ abandoned' = (abandoned \/ c[t].try) /\ state' = state
      BY <2>2 DEF Translate, breaker
    <3> USE <3>1
    <3>2. c[t].try \in BOOLEAN /\ abandoned \in BOOLEAN
      BY DEF Caller, TypeOK
    <3>3. abandoned = FALSE /\ c[t].try = FALSE
      BY <3>2
    <3>4. PICK q \in Callers : Awaited(q)
      BY <3>3 DEF SomeoneAwaited
    <3>5. q # t
      BY <3>3, <3>4 DEF Awaited, Translate
    <3>6. c'[q] = c[q]
      BY <3>5 DEF Return
    <3> QED
      BY <3>4, <3>6 DEF Awaited
  <2> QED
    BY <2>1, <2>2
<1>5. CASE CooldownPasses \/ ServerReturns \/ UNCHANGED vars
  BY <1>5 DEF CooldownPasses, ServerReturns, vars, breaker, SomeoneAwaited, Awaited
<1>6. CASE ServerFails
  <2>1. state = "half_open" /\ abandoned = FALSE
    BY <1>6 DEF ServerFails, breaker
  <2>2. PICK q \in Callers : Awaited(q)
    BY <2>1 DEF SomeoneAwaited
  <2>3. c'[q] = [c[q] EXCEPT !.lost = c[q].pc # "idle"]
    BY <1>6 DEF ServerFails
  <2>4. c'[q].pc = c[q].pc /\ c'[q].try = c[q].try
    BY <2>3 DEF Caller
  <2> QED
    BY <2>2, <2>4 DEF Awaited
<1> QED
  BY <1>2, <1>3, <1>4, <1>5, <1>6 DEF Next, Step

(* _CircuitBreaker.allow and record keep the breaker's fields consistent     *)
(* under any number of threads.                                              *)
THEOREM BreakerTyped == Spec => []TypeOK
<1>1. Init => TypeOK
  <2> SUFFICES ASSUME Init PROVE TypeOK
    OBVIOUS
  <2>1. c \in [Callers -> Caller]
    BY IdleType DEF Init
  <2>2. trial = (state = "half_open")
    BY DEF Init
  <2>3. outages \in 0 .. MaxOutages
    BY SMTT(15), HaAssumption DEF Init
  <2>4. cooling \in BOOLEAN /\ up \in BOOLEAN /\ abandoned \in BOOLEAN
    BY DEF Init
  <2>5. state \in {"closed", "open", "half_open"}
    BY DEF Init
  <2> QED
    BY <2>1, <2>2, <2>3, <2>4, <2>5 DEF TypeOK, Caller
<1> QED
  BY <1>1, TypeStep, PTL DEF Spec

(* Whoever is turned away in HALF_OPEN waits for a call in flight, unless an *)
(* RDMA operation has abandoned its trial.                                   *)
THEOREM HalfOpenAwaited == Spec => []TrialPending
<1>1. Init => SomeoneAwaited
  BY DEF Init, SomeoneAwaited
<1>2. TypeOK /\ SomeoneAwaited => TrialPending
  <2> SUFFICES ASSUME TypeOK, SomeoneAwaited, state = "half_open", ~abandoned
               PROVE  \E t \in Callers : c[t].pc # "idle"
    BY DEF TrialPending
  <2>1. abandoned = FALSE
    BY DEF TypeOK
  <2> QED
    BY <2>1 DEF SomeoneAwaited, Awaited
<1> QED
  BY <1>1, <1>2, AwaitedStep, BreakerTyped, PTL DEF Spec
=============================================================================
