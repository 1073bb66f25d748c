----------------------------- MODULE HaBackend -----------------------------
(* One child of the Python HaKVServiceBackend and its circuit breaker, under *)
(* calls from several threads.  Children share nothing: every key is routed  *)
(* to one of them, and an operation over all children is one call for each.  *)
(* A step is one section under the breaker's lock or one call into the child.*)
EXTENDS Integers, FiniteSets

CONSTANTS
    Callers,    \* threads
    Ops,        \* "plain": through _call; "rdma": get_chunks_into, put_chunks_from
    MaxOutages  \* bound: times the storage server goes down

ASSUME HaAssumption == Ops \subseteq {"plain", "rdma"} /\ MaxOutages \in Nat

VARIABLES
    state,      \* "closed", "open" or "half_open"
    cooling,    \* less than cooldown_s since _opened_at
    trial,      \* _trial_inflight
    up,         \* the storage server answers
    outages,
    c,          \* threads: [pc, op, lost, try]; lost: the server was down during
                \* the call; try: it was admitted as the trial
    abandoned   \* history: a trial ended without being recorded

vars == <<state, cooling, trial, up, outages, c, abandoned>>
breaker == <<state, cooling, trial>>
server == <<up, outages>>

Idle == [pc |-> "idle", op |-> "none", lost |-> FALSE, try |-> FALSE]

Init ==
    /\ state = "closed" /\ cooling = FALSE /\ trial = FALSE
    /\ up = TRUE /\ outages = 0
    /\ c = [t \in Callers |-> Idle]
    /\ abandoned = FALSE

-----------------------------------------------------------------------------
(* _CircuitBreaker.allow: whether the call is admitted, and what that does.  *)
(* Mutant: OPEN is left only by a record.                                    *)
AdmitsNever == state = "closed"
Admits ==
    \/ state = "closed"
    \/ state = "open" /\ ~cooling
    \/ state = "half_open" /\ ~trial

Admit ==
    /\ Admits
    /\ state' = IF state = "open" THEN "half_open" ELSE state
    /\ trial' = IF state = "closed" THEN trial ELSE TRUE
    /\ UNCHANGED cooling

(* record.  Mutant: a failure leaves _trial_inflight set. *)
RecordKeepsTrial(ok) ==
    /\ state' = IF ok THEN "closed" ELSE "open"
    /\ cooling' = IF ok THEN cooling ELSE TRUE
    /\ trial' = IF ok THEN FALSE ELSE trial

Record(ok) ==
    /\ state' = IF ok THEN "closed" ELSE "open"
    /\ cooling' = IF ok THEN cooling ELSE TRUE
    /\ trial' = FALSE

-----------------------------------------------------------------------------
Goto(t, l) == c' = [c EXCEPT ![t] = [@ EXCEPT !.pc = l, !.lost = ~up]]
Return(t) == c' = [c EXCEPT ![t] = Idle]

(* A call arrives and is admitted; a rejected one answers "miss" at once and *)
(* changes nothing.                                                          *)
Call(t, op) ==
    /\ c[t].pc = "idle"
    /\ Admit
    /\ c' = [c EXCEPT ![t] = [pc |-> IF op = "rdma" THEN "translate" ELSE "child",
                              op |-> op, lost |-> ~up, try |-> state # "closed"]]
    /\ UNCHANGED <<server, abandoned>>

(* _translate_region goes through _call, so the breaker is asked again.      *)
(* Rejected: get_chunks_into returns None and records nothing.               *)
Translate(t) ==
    /\ c[t].pc = "translate"
    /\ IF Admits THEN Admit /\ Goto(t, "region") /\ UNCHANGED abandoned
                 ELSE /\ Return(t)
                      /\ abandoned' = (abandoned \/ c[t].try)
                      /\ UNCHANGED breaker
    /\ UNCHANGED server

(* child.ensure_rdma_region: cached regions need no server. *)
Region(t) ==
    /\ c[t].pc = "region"
    /\ \/ Record(TRUE) /\ Goto(t, "child")
       \/ c[t].lost /\ Record(FALSE) /\ Return(t)
    /\ UNCHANGED <<server, abandoned>>

(* The child's own call returns, or raises when the server was down; RDMA    *)
(* operations also swallow the error and answer None.  Mutant: an exception  *)
(* is turned into a miss without being recorded.                             *)
ChildFailureUnrecorded(t) ==
    /\ c[t].pc = "child"
    /\ IF c[t].lost THEN UNCHANGED breaker ELSE Record(TRUE)
    /\ Return(t)
    /\ UNCHANGED <<server, abandoned>>

Child(t) ==
    /\ c[t].pc = "child"
    /\ \/ (c[t].lost => c[t].op = "rdma") /\ Record(TRUE)
       \/ c[t].lost /\ Record(FALSE)
    /\ Return(t)
    /\ UNCHANGED <<server, abandoned>>

CooldownPasses ==
    /\ cooling
    /\ cooling' = FALSE
    /\ UNCHANGED <<state, trial, server, c, abandoned>>

ServerFails ==
    /\ up /\ outages < MaxOutages
    /\ up' = FALSE /\ outages' = outages + 1
    /\ c' = [t \in Callers |-> [c[t] EXCEPT !.lost = c[t].pc # "idle"]]
    /\ UNCHANGED <<breaker, abandoned>>

ServerReturns ==
    /\ ~up /\ up' = TRUE
    /\ UNCHANGED <<outages, breaker, c, abandoned>>

Step(t) == Translate(t) \/ Region(t) \/ Child(t)

Next ==
    \/ \E t \in Callers : Step(t) \/ \E op \in Ops : Call(t, op)
    \/ CooldownPasses \/ ServerFails \/ ServerReturns

Spec == Init /\ [][Next]_vars

(* Calls end (gRPC deadlines), time passes, and the scheduler goes on        *)
(* probing: a breaker only moves when it is called.                          *)
FairSpec ==
    /\ Spec
    /\ WF_vars(CooldownPasses)
    /\ \A t \in Callers : WF_vars(Step(t)) /\ WF_vars(\E op \in Ops : Call(t, op))

-----------------------------------------------------------------------------
(* Properties *)

(* The variables have their types, and _trial_inflight is set exactly in     *)
(* HALF_OPEN: record and allow never leave one without the other.            *)
TypeOK ==
    /\ state \in {"closed", "open", "half_open"}
    /\ cooling \in BOOLEAN /\ up \in BOOLEAN /\ abandoned \in BOOLEAN
    /\ outages \in 0 .. MaxOutages
    /\ c \in [Callers -> [pc : {"idle", "translate", "region", "child"},
                          op : Ops \cup {"none"}, lost : BOOLEAN, try : BOOLEAN]]
    /\ trial = (state = "half_open")

(* Whoever is turned away in HALF_OPEN waits for a call that is really in    *)
(* flight: its record will move the breaker on.  The exception is an RDMA    *)
(* operation that gave up between its two questions to the breaker.          *)
TrialPending == state = "half_open" /\ ~abandoned => \E t \in Callers : c[t].pc # "idle"

(* Once the server stays up, the breaker closes again and again, late        *)
(* failures of calls from the outage notwithstanding, unless a trial was     *)
(* abandoned.                                                                *)
Recovers == <>[]up => []<>(state = "closed" \/ abandoned)

=============================================================================
