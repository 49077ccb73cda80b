------------------------ MODULE AttemptLifecycle_proofs ------------------------
(***************************************************************************)
(* Proofs about AttemptLifecycle for every set of attempts, requests, keys *)
(* and fingerprints, every window, duration and extension.                 *)
(***************************************************************************)
EXTENDS AttemptLifecycle, TLAPS

(***************************************************************************)
(* Type correctness.                                                       *)
(***************************************************************************)
\* Opening a request keeps the requests well typed.
LEMMA OpenType ==
    ASSUME TypeOK, NEW r \in Requests, NEW op, NEW a \in Attempts, NEW key, NEW print,
           NEW auto, Open(r, op, a, key, print, auto),
           \/ op \in Ops /\ key = NoKey /\ print = NoKey /\ auto = FALSE
           \/ op = "submit" /\ key \in Keys /\ print \in Fingerprints /\ auto \in BOOLEAN
    PROVE  request' \in [Requests -> Request \cup {NoRequest}]
<1>. DEFINE rec == [op |-> op, attempt |-> a, at |-> now, key |-> key, print |-> print,
                    autoExpired |-> auto]
<1>1. now \in Nat BY DEF TypeOK
<1>2. rec \in Request BY <1>1 DEF Request
<1>3. request' = [request EXCEPT ![r] = rec] BY DEF Open
<1>. HIDE DEF rec
<1>. QED BY <1>2, <1>3 DEF TypeOK

\* The fields of a request being served have their types, and closing it is well typed.
LEMMA ServingType ==
    ASSUME TypeOK, NEW r \in Requests, request[r] # NoRequest
    PROVE  /\ request[r].attempt \in Attempts
           /\ request[r].at \in Nat
           /\ request[r].op = "submit" =>
                request[r].key \in Keys /\ request[r].print \in Fingerprints
           /\ Close(r) => request' \in [Requests -> Request \cup {NoRequest}]
<1>1. request[r] \in Request BY DEF TypeOK
<1>2. "submit" \notin Ops BY DEF Ops
<1>. QED BY <1>1, <1>2 DEF TypeOK, Request, Close

\* Setting a status keeps the rows well typed.
LEMMA SetStatusType ==
    ASSUME TypeOK, NEW a \in Attempts, NEW st \in AttemptStatus, SetStatus(a, st)
    PROVE  /\ attempts' \in [Attempts -> Row]
           /\ attempts'[a].status = st
           /\ \A b \in Attempts \ {a} : attempts'[b] = attempts[b]
<1>1. attempts \in [Attempts -> Row] BY DEF TypeOK
<1>2. attempts' = [attempts EXCEPT ![a] = [attempts[a] EXCEPT !.status = st]]
  BY DEF SetStatus
<1>3. [attempts[a] EXCEPT !.status = st] \in Row BY <1>1 DEF Row
<1>4. [attempts[a] EXCEPT !.status = st].status = st BY <1>1 DEF Row
<1>. QED BY <1>1, <1>2, <1>3, <1>4

\* Every step of the system preserves the types.
LEMMA TypeStep == TypeOK /\ [Next]_vars => TypeOK'
<1>. SUFFICES ASSUME TypeOK, [Next]_vars PROVE TypeOK' OBVIOUS
<1>. USE DEF TypeOK
<1>1. ASSUME NEW r \in Requests, Receive(r) PROVE TypeOK'
  <2>. PICK a \in Attempts :
         \/ BeginStart(r, a)
         \/ ReadPastDeadline(r, a)
         \/ BeginSave(r, a)
         \/ \E key \in Keys, print \in Fingerprints, auto \in BOOLEAN :
              BeginSubmit(r, a, key, print, auto)
         \/ \E op \in {"pause", "resume", "terminate"} : CheckIntervention(r, a, op)
    BY <1>1 DEF Receive
  <2>1. CASE BeginStart(r, a)
    BY <2>1, OpenType DEF BeginStart, Ops
  <2>2. CASE ReadPastDeadline(r, a)
    BY <2>2, OpenType DEF ReadPastDeadline, Ops
  <2>3. CASE BeginSave(r, a)
    BY <2>3, OpenType DEF BeginSave, Ops
  <2>4. CASE \E key \in Keys, print \in Fingerprints, auto \in BOOLEAN :
               BeginSubmit(r, a, key, print, auto)
    BY <2>4, OpenType DEF BeginSubmit, Ops
  <2>5. CASE \E op \in {"pause", "resume", "terminate"} : CheckIntervention(r, a, op)
    BY <2>5, OpenType DEF CheckIntervention, Ops
  <2>. QED BY <2>1, <2>2, <2>3, <2>4, <2>5
<1>2. ASSUME NEW r \in Requests, Serve(r) PROVE TypeOK'
  <2>. DEFINE a == request[r].attempt
  <2>0. /\ request[r] # NoRequest /\ a \in Attempts /\ request[r].at \in Nat
        /\ request[r].op = "submit" =>
             request[r].key \in Keys /\ request[r].print \in Fingerprints
        /\ request' \in [Requests -> Request \cup {NoRequest}]
    BY <1>2, ServingType DEF Serve, Serving, InsertAttempt, ExpireOnStart,
       ApplyLazyExpiration, WriteAnswers, ExpireOnWrite, ReplaySubmission, SubmitAttempt,
       PauseAttemptAtomic, ResumeAttemptAtomic, TerminateAttemptAtomic, EndWithoutEffect
  <2>1. CASE InsertAttempt(r)
    BY <2>0, <2>1, WindowAssumption DEF InsertAttempt, Row, AttemptStatus
  <2>2. CASE ExpireOnStart(r)
    BY <2>0, <2>2, SetStatusType DEF ExpireOnStart, AttemptStatus
  <2>3. CASE ApplyLazyExpiration(r)
    BY <2>0, <2>3, SetStatusType DEF ApplyLazyExpiration, AttemptStatus
  <2>4. CASE WriteAnswers(r)
    BY <2>0, <2>4 DEF WriteAnswers
  <2>5. CASE ExpireOnWrite(r)
    BY <2>0, <2>5, SetStatusType
    DEF ExpireOnWrite, FinalizeAttempt, AttemptStatus, EventOf, EventType
  <2>6. CASE ReplaySubmission(r)
    <3>1. idempotency[a] \in Record /\ request[r].op = "submit"
      BY <2>0, <2>6 DEF ReplaySubmission, Serving
    <3>2. [key |-> request[r].key, print |-> request[r].print,
           status |-> idempotency[a].status] \in Record
      BY <2>0, <3>1 DEF Record
    <3>. QED BY <2>0, <2>6, <3>2 DEF ReplaySubmission, ReplyWith
  <2>7. CASE SubmitAttempt(r)
    <3>. DEFINE target == IF PastDeadline(a, request[r].at) \/ request[r].autoExpired
                          THEN "EXPIRED" ELSE "SUBMITTED"
                rec == [key |-> request[r].key, print |-> request[r].print,
                        status |-> target]
    <3>1. target \in {"SUBMITTED", "EXPIRED"} /\ target \in AttemptStatus
      BY DEF AttemptStatus
    <3>2. attempts' \in [Attempts -> Row]
      BY <2>0, <2>7, <3>1, SetStatusType DEF SubmitAttempt, FinalizeAttempt
    <3>3. outbox' \in [Attempts -> Seq(EventType)]
      BY <2>0, <2>7, <3>1 DEF SubmitAttempt, FinalizeAttempt, EventOf, EventType
    <3>4. answers' \in [Attempts -> Nat]
      BY <2>0, <2>7 DEF SubmitAttempt
    <3>5. rec \in Record
      BY <2>0, <2>7, <3>1 DEF SubmitAttempt, Serving, Record
    <3>6. idempotency' \in [Attempts -> Record \cup {NoRecord}]
      BY <2>0, <2>7, <3>5 DEF SubmitAttempt
    <3>7. replies' \in [Attempts -> SUBSET Record]
      BY <2>0, <2>7, <3>5 DEF SubmitAttempt, ReplyWith
    <3>. QED BY <2>0, <2>7, <3>2, <3>3, <3>4, <3>6, <3>7 DEF SubmitAttempt
  <2>8. CASE PauseAttemptAtomic(r)
    <3>1. PICK ts \in request[r].at .. now :
            attempts' = [attempts EXCEPT ![a].status = "PAUSED", ![a].pausedAt = ts]
      BY <2>8 DEF PauseAttemptAtomic
    <3>2. ts \in Nat BY <2>0
    <3>3. attempts' = [attempts EXCEPT ![a] =
                         [[attempts[a] EXCEPT !.status = "PAUSED"] EXCEPT !.pausedAt = ts]]
      BY <2>0, <3>1
    <3>4. [[attempts[a] EXCEPT !.status = "PAUSED"] EXCEPT !.pausedAt = ts] \in Row
      BY <2>0, <3>2 DEF Row, AttemptStatus
    <3>. QED BY <2>0, <2>8, <3>3, <3>4 DEF PauseAttemptAtomic
  <2>9. CASE ResumeAttemptAtomic(r)
    BY <2>0, <2>9, WindowAssumption DEF ResumeAttemptAtomic, Row, AttemptStatus
  <2>10. CASE TerminateAttemptAtomic(r)
    BY <2>0, <2>10, SetStatusType DEF TerminateAttemptAtomic, AttemptStatus
  <2>11. CASE EndWithoutEffect(r)
    BY <2>0, <2>11 DEF EndWithoutEffect
  <2>. QED BY <1>2, <2>1, <2>2, <2>3, <2>4, <2>5, <2>6, <2>7, <2>8, <2>9, <2>10, <2>11
           DEF Serve
<1>3. CASE ConcludeSession BY <1>3 DEF ConcludeSession
<1>4. CASE Tick BY <1>4 DEF Tick
<1>5. CASE UNCHANGED vars BY <1>5 DEF vars
<1>. QED BY <1>1, <1>2, <1>3, <1>4, <1>5 DEF Next

\* Every reachable state is well typed.
THEOREM TypeCorrect == Spec => []TypeOK
<1>1. Init => TypeOK BY DEF Init, TypeOK, Row, NoRow
<1>. QED BY <1>1, TypeStep, PTL DEF Spec

(***************************************************************************)
(* Finalization.  The three invariants are inductive together with TypeOK: *)
(* what decides a submission is that an unfinished attempt has neither     *)
(* event nor record, so the one transaction that finds it ACTIVE under the *)
(* lock writes the first and only one of each.                             *)
(***************************************************************************)
FinalizationInv == FinalizedOnce /\ SubmittedIsComplete /\ RepliesAgree

\* A step that only changes rows' statuses, and none to SUBMITTED or back to an
\* unfinished status from a finished one, preserves the invariant.
LEMMA StatusOnlyStep ==
    ASSUME FinalizationInv, UNCHANGED <<outbox, idempotency, replies>>,
           \A a \in Attempts :
              \/ StatusOf(a)' = StatusOf(a)
              \/ StatusOf(a)' = "EXPIRED"
              \/ StatusOf(a) \in {"NONE", "ACTIVE", "PAUSED"}
                   /\ StatusOf(a)' \in {"ACTIVE", "PAUSED", "TERMINATED"}
    PROVE  FinalizationInv'
BY DEF FinalizationInv, FinalizedOnce, SubmittedIsComplete, RepliesAgree, StatusOf

\* finalizeAttempt announces an attempt that had no event.
LEMMA FinalizeStep ==
    ASSUME TypeOK, FinalizedOnce, NEW a \in Attempts, NEW target \in {"SUBMITTED", "EXPIRED"},
           StatusOf(a) \in {"ACTIVE", "EXPIRED"}, FinalizeAttempt(a, target)
    PROVE  /\ StatusOf(a) = "ACTIVE"
           /\ idempotency[a] = NoRecord
           /\ outbox[a] = <<>>
           /\ attempts'[a].status = target
           /\ outbox' = [outbox EXCEPT ![a] = <<EventOf(target)>>]
           /\ \A b \in Attempts \ {a} : attempts'[b] = attempts[b]
<1>1. StatusOf(a) = "ACTIVE" BY DEF FinalizeAttempt, CanTransition
<1>2. outbox[a] = <<>> /\ idempotency[a] = NoRecord BY <1>1 DEF FinalizedOnce
<1>3. target \in AttemptStatus BY DEF AttemptStatus
<1>4. Append(<<>>, EventOf(target)) = <<EventOf(target)>> OBVIOUS
<1>5. outbox' = [outbox EXCEPT ![a] = <<EventOf(target)>>]
  BY <1>2, <1>4 DEF FinalizeAttempt
<1>. QED BY <1>1, <1>2, <1>3, <1>5, SetStatusType DEF FinalizeAttempt

LEMMA FinalizationStep == TypeOK /\ FinalizationInv /\ [Next]_vars => FinalizationInv'
<1>. SUFFICES ASSUME TypeOK, FinalizationInv, [Next]_vars PROVE FinalizationInv' OBVIOUS
<1>1. ASSUME NEW r \in Requests, Receive(r) PROVE FinalizationInv'
  <2>1. UNCHANGED <<attempts, outbox, idempotency, replies>>
    BY <1>1 DEF Receive, BeginStart, ReadPastDeadline, BeginSave, BeginSubmit,
       CheckIntervention
  <2>. QED BY <2>1, StatusOnlyStep DEF StatusOf
<1>2. ASSUME NEW r \in Requests, Serve(r) PROVE FinalizationInv'
  <2>. DEFINE a == request[r].attempt
  <2>0. a \in Attempts /\ attempts \in [Attempts -> Row]
        /\ (request[r].op = "submit" =>
              request[r].key \in Keys /\ request[r].print \in Fingerprints)
    BY <1>2, ServingType DEF TypeOK, Serve, Serving, InsertAttempt, ExpireOnStart,
       ApplyLazyExpiration, WriteAnswers, ExpireOnWrite, ReplaySubmission, SubmitAttempt,
       PauseAttemptAtomic, ResumeAttemptAtomic, TerminateAttemptAtomic, EndWithoutEffect
  <2>1. CASE InsertAttempt(r)
    BY <2>0, <2>1, StatusOnlyStep DEF InsertAttempt, StatusOf
  <2>2. CASE ExpireOnStart(r)
    BY <2>0, <2>2, StatusOnlyStep, SetStatusType DEF ExpireOnStart, StatusOf, AttemptStatus
  <2>3. CASE ApplyLazyExpiration(r)
    BY <2>0, <2>3, StatusOnlyStep, SetStatusType
    DEF ApplyLazyExpiration, StatusOf, AttemptStatus
  <2>4. CASE WriteAnswers(r)
    BY <2>4, StatusOnlyStep DEF WriteAnswers, StatusOf
  <2>5. CASE ExpireOnWrite(r)
    <3>1. UNCHANGED <<idempotency, replies>> BY <2>5 DEF ExpireOnWrite
    <3>2. /\ idempotency[a] = NoRecord
          /\ attempts'[a].status = "EXPIRED"
          /\ outbox' = [outbox EXCEPT ![a] = <<EventOf("EXPIRED")>>]
          /\ \A b \in Attempts \ {a} : attempts'[b] = attempts[b]
      BY <2>0, <2>5, FinalizeStep DEF ExpireOnWrite, FinalizationInv
    <3>. QED BY <2>0, <3>1, <3>2
         DEF FinalizationInv, FinalizedOnce, SubmittedIsComplete, RepliesAgree, StatusOf, TypeOK
  <2>6. CASE ReplaySubmission(r)
    <3>1. UNCHANGED <<attempts, outbox, idempotency>> BY <2>6 DEF ReplaySubmission
    <3>2. idempotency[a] \in Record /\ idempotency[a].key = request[r].key
          /\ idempotency[a].print = request[r].print
      BY <2>0, <2>6 DEF ReplaySubmission, TypeOK
    <3>3. idempotency[a] = [key |-> request[r].key, print |-> request[r].print,
                            status |-> idempotency[a].status]
      BY <3>2 DEF Record
    <3>4. replies' = [replies EXCEPT ![a] = @ \cup {idempotency[a]}]
      BY <2>6, <3>3 DEF ReplaySubmission, ReplyWith
    <3>. QED BY <2>0, <3>1, <3>4
         DEF FinalizationInv, FinalizedOnce, SubmittedIsComplete, RepliesAgree, StatusOf, TypeOK
  <2>7. CASE SubmitAttempt(r)
    <3>. DEFINE target == IF PastDeadline(a, request[r].at) \/ request[r].autoExpired
                          THEN "EXPIRED" ELSE "SUBMITTED"
                rec == [key |-> request[r].key, print |-> request[r].print,
                        status |-> target]
    <3>1. target \in {"SUBMITTED", "EXPIRED"} OBVIOUS
    <3>2. /\ idempotency[a] = NoRecord
          /\ attempts'[a].status = target
          /\ outbox' = [outbox EXCEPT ![a] = <<EventOf(target)>>]
          /\ \A b \in Attempts \ {a} : attempts'[b] = attempts[b]
      BY <2>0, <2>7, <3>1, FinalizeStep DEF SubmitAttempt, FinalizationInv
    <3>3. /\ idempotency' = [idempotency EXCEPT ![a] = rec]
          /\ replies' = [replies EXCEPT ![a] = @ \cup {rec}]
      BY <2>7 DEF SubmitAttempt, ReplyWith
    <3>4. rec \in Record /\ rec.status = target
      BY <2>0, <2>7, <3>1 DEF SubmitAttempt, Serving, Record
    <3>5. rec # NoRecord BY <3>4, NullAssumption DEF Record
    <3>6. replies[a] = {}
      <4>1. \A x \in replies[a] : x \in Record /\ x = NoRecord
        BY <2>0, <3>2 DEF FinalizationInv, RepliesAgree, TypeOK
      <4>. QED BY <4>1, NullAssumption DEF Record
    <3>7. idempotency'[a] = rec /\ replies'[a] = {rec} /\ outbox'[a] = <<EventOf(target)>>
      BY <2>0, <3>2, <3>3, <3>6 DEF TypeOK
    <3>8. \A b \in Attempts \ {a} : /\ attempts'[b] = attempts[b] /\ outbox'[b] = outbox[b]
                                   /\ idempotency'[b] = idempotency[b]
                                   /\ replies'[b] = replies[b]
      BY <2>0, <3>2, <3>3 DEF TypeOK
    <3>. HIDE DEF target, rec, a
    <3>9. FinalizedOnce'
      BY <3>1, <3>2, <3>4, <3>7, <3>8 DEF FinalizationInv, FinalizedOnce, StatusOf
    <3>10. SubmittedIsComplete'
      BY <3>1, <3>2, <3>4, <3>5, <3>7, <3>8
      DEF FinalizationInv, SubmittedIsComplete, StatusOf, EventOf
    <3>11. RepliesAgree'
      BY <3>7, <3>8 DEF FinalizationInv, RepliesAgree
    <3>. QED BY <3>9, <3>10, <3>11 DEF FinalizationInv
  <2>8. CASE PauseAttemptAtomic(r)
    BY <2>0, <2>8, StatusOnlyStep DEF PauseAttemptAtomic, StatusOf, Row
  <2>9. CASE ResumeAttemptAtomic(r)
    BY <2>0, <2>9, StatusOnlyStep DEF ResumeAttemptAtomic, StatusOf
  <2>10. CASE TerminateAttemptAtomic(r)
    BY <2>0, <2>10, StatusOnlyStep, SetStatusType
    DEF TerminateAttemptAtomic, StatusOf, AttemptStatus
  <2>11. CASE EndWithoutEffect(r)
    BY <2>11, StatusOnlyStep DEF EndWithoutEffect, StatusOf
  <2>. QED BY <1>2, <2>1, <2>2, <2>3, <2>4, <2>5, <2>6, <2>7, <2>8, <2>9, <2>10, <2>11
           DEF Serve
<1>3. CASE ConcludeSession
  BY <1>3, StatusOnlyStep DEF ConcludeSession, StatusOf
<1>4. CASE Tick
  BY <1>4, StatusOnlyStep DEF Tick, StatusOf
<1>5. CASE UNCHANGED vars
  BY <1>5, StatusOnlyStep DEF vars, StatusOf
<1>. QED BY <1>1, <1>2, <1>3, <1>4, <1>5 DEF Next

\* An attempt is finalized, announced and recorded at most once, a SUBMITTED
\* attempt completely, and every 200 OK reply tells the recorded outcome.
THEOREM Finalization == Spec => [](FinalizedOnce /\ SubmittedIsComplete /\ RepliesAgree)
<1>1. Init => FinalizationInv
  BY DEF Init, FinalizationInv, FinalizedOnce, SubmittedIsComplete, RepliesAgree, StatusOf,
     NoRow
<1>. QED BY <1>1, FinalizationStep, TypeCorrect, PTL DEF Spec, FinalizationInv

\* A submission is never half done: the status, the event and the idempotency record
\* of an attempt are written together or not at all.
THEOREM CompleteSubmission == Spec => []SubmittedIsComplete
BY Finalization, PTL

\* Every reply that a key got, first or replayed, says the same.
THEOREM AgreeingReplies == Spec => []RepliesAgree
BY Finalization, PTL

(***************************************************************************)
(* What a step may never do.                                               *)
(***************************************************************************)
\* A step that leaves the rows alone changes no status.
LEMMA SameRows ==
    ASSUME UNCHANGED attempts PROVE \A a \in Attempts : StatusOf(a)' = StatusOf(a)
BY DEF StatusOf

\* The status changes of a step: the domain's transitions, the insertion of a
\* row, or the lazy expiration, and from no other row than the request's.
LEMMA StatusChange ==
    ASSUME TypeOK, [Next]_vars, NEW a \in Attempts, StatusOf(a)' # StatusOf(a)
    PROVE  \/ CanTransition(StatusOf(a), StatusOf(a)')
           \/ StatusOf(a) = "NONE" /\ StatusOf(a)' = "ACTIVE"
           \/ StatusOf(a)' = "EXPIRED" /\ \E r \in Requests : ApplyLazyExpiration(r)
<1>1. ASSUME NEW r \in Requests, Receive(r) PROVE FALSE
  BY <1>1, SameRows DEF Receive, BeginStart, ReadPastDeadline, BeginSave, BeginSubmit,
     CheckIntervention
<1>2. CASE ConcludeSession \/ Tick \/ UNCHANGED vars
  BY <1>2, SameRows DEF ConcludeSession, Tick, vars
<1>3. ASSUME NEW r \in Requests, Serve(r)
      PROVE  \/ CanTransition(StatusOf(a), StatusOf(a)')
             \/ StatusOf(a) = "NONE" /\ StatusOf(a)' = "ACTIVE"
             \/ StatusOf(a)' = "EXPIRED" /\ ApplyLazyExpiration(r)
  <2>. DEFINE b == request[r].attempt
  <2>0. b \in Attempts /\ attempts \in [Attempts -> Row]
    BY <1>3, ServingType DEF TypeOK, Serve, Serving, InsertAttempt, ExpireOnStart,
       ApplyLazyExpiration, WriteAnswers, ExpireOnWrite, ReplaySubmission, SubmitAttempt,
       PauseAttemptAtomic, ResumeAttemptAtomic, TerminateAttemptAtomic, EndWithoutEffect
  <2>1. CASE InsertAttempt(r)
    BY <2>0, <2>1 DEF InsertAttempt, StatusOf
  <2>2. CASE ExpireOnStart(r)
    BY <2>0, <2>2, SetStatusType DEF ExpireOnStart, StatusOf, AttemptStatus, CanTransition
  <2>3. CASE ApplyLazyExpiration(r)
    BY <2>0, <2>3, SetStatusType DEF ApplyLazyExpiration, StatusOf, AttemptStatus
  <2>4. CASE ExpireOnWrite(r)
    BY <2>0, <2>4, SetStatusType
    DEF ExpireOnWrite, FinalizeAttempt, StatusOf, AttemptStatus
  <2>5. CASE SubmitAttempt(r)
    <3>. DEFINE target == IF PastDeadline(b, request[r].at) \/ request[r].autoExpired
                          THEN "EXPIRED" ELSE "SUBMITTED"
    <3>1. target \in AttemptStatus BY DEF AttemptStatus
    <3>2. FinalizeAttempt(b, target) BY <2>5 DEF SubmitAttempt
    <3>. HIDE DEF target
    <3>. QED BY <2>0, <3>1, <3>2, SetStatusType DEF FinalizeAttempt, StatusOf
  <2>6. CASE PauseAttemptAtomic(r)
    BY <2>0, <2>6 DEF PauseAttemptAtomic, StatusOf, CanTransition, Row
  <2>7. CASE ResumeAttemptAtomic(r)
    BY <2>0, <2>7 DEF ResumeAttemptAtomic, StatusOf, CanTransition
  <2>8. CASE TerminateAttemptAtomic(r)
    BY <2>0, <2>8, SetStatusType
    DEF TerminateAttemptAtomic, StatusOf, AttemptStatus, CanTransition
  <2>9. CASE WriteAnswers(r) \/ ReplaySubmission(r) \/ EndWithoutEffect(r)
    BY <2>9, SameRows DEF WriteAnswers, ReplaySubmission, EndWithoutEffect
  <2>. QED BY <1>3, <2>1, <2>2, <2>3, <2>4, <2>5, <2>6, <2>7, <2>8, <2>9 DEF Serve
<1>. QED BY <1>1, <1>2, <1>3 DEF Next

\* A lazy expiration in flight has read a row, and rows do not disappear.
ReadRowExists ==
    \A r \in Requests : Serving(r, "expire") =>
        StatusOf(request[r].attempt) \notin {"NONE", "READY"}

LEMMA ReadRowStep == TypeOK /\ ReadRowExists /\ [Next]_vars => ReadRowExists'
<1>. SUFFICES ASSUME TypeOK, ReadRowExists, [Next]_vars,
                     NEW r \in Requests, Serving(r, "expire")'
              PROVE  (StatusOf(request[r].attempt) \notin {"NONE", "READY"})'
  BY DEF ReadRowExists
<1>1. CASE request'[r] = request[r]
  <2>1. Serving(r, "expire") /\ request[r].attempt \in Attempts
    BY <1>1, ServingType DEF Serving
  <2>2. StatusOf(request[r].attempt) \notin {"NONE", "READY"}
    BY <2>1 DEF ReadRowExists
  <2>3. CASE StatusOf(request[r].attempt)' = StatusOf(request[r].attempt)
    BY <2>2, <2>3
  <2>4. CASE attempts'[request[r].attempt].status # attempts[request[r].attempt].status
    BY <1>1, <2>1, <2>4, StatusChange DEF StatusOf, CanTransition
  <2>. QED BY <1>1, <2>2, <2>4 DEF StatusOf
<1>2. CASE request'[r] # request[r]
  <2>1. PICK q \in Requests : Receive(q) \/ Serve(q)
    BY <1>2 DEF Next, ConcludeSession, Tick, vars
  <2>2. CASE Serve(q)
    <3>1. Close(q)
      BY <2>2 DEF Serve, InsertAttempt, ExpireOnStart, ApplyLazyExpiration, WriteAnswers,
         ExpireOnWrite, ReplaySubmission, SubmitAttempt, PauseAttemptAtomic,
         ResumeAttemptAtomic, TerminateAttemptAtomic, EndWithoutEffect
    <3>. QED BY <1>2, <3>1 DEF Close, Serving, TypeOK
  <2>3. CASE Receive(q)
    <3>1. PICK a \in Attempts :
            \/ BeginStart(q, a)
            \/ ReadPastDeadline(q, a)
            \/ BeginSave(q, a)
            \/ \E key \in Keys, print \in Fingerprints, auto \in BOOLEAN :
                 BeginSubmit(q, a, key, print, auto)
            \/ \E op \in {"pause", "resume", "terminate"} : CheckIntervention(q, a, op)
      BY <2>3 DEF Receive
    <3>2. q = r
      BY <1>2, <3>1 DEF BeginStart, ReadPastDeadline, BeginSave, BeginSubmit,
         CheckIntervention, Open, TypeOK
    <3>3. CASE ReadPastDeadline(q, a)
      BY <3>2, <3>3 DEF ReadPastDeadline, Open, TypeOK, StatusOf
    <3>4. request'[r].op # "expire" \/ ReadPastDeadline(q, a)
      BY <3>1, <3>2 DEF BeginStart, BeginSave, BeginSubmit, CheckIntervention, Open, TypeOK
    <3>. QED BY <3>3, <3>4 DEF Serving
  <2>. QED BY <2>1, <2>2, <2>3
<1>. QED BY <1>1, <1>2

\* No interleaving of requests takes a finished attempt anywhere but to EXPIRED.
THEOREM NoReopening == Spec => NeverReopened
<1>1. Init => ReadRowExists BY DEF Init, ReadRowExists, Serving
<1>2. Spec => [](TypeOK /\ ReadRowExists)
  BY <1>1, ReadRowStep, TypeCorrect, PTL DEF Spec
<1>3. TypeOK /\ ReadRowExists /\ [Next]_vars =>
        [\A a \in Attempts : StatusOf(a)' # StatusOf(a) =>
          \/ CanTransition(StatusOf(a), StatusOf(a)')
          \/ StatusOf(a) = "NONE" /\ StatusOf(a)' = "ACTIVE"
          \/ StatusOf(a) \in TERMINAL_ATTEMPT_STATES /\ StatusOf(a)' = "EXPIRED"]_vars
  <2>. SUFFICES ASSUME TypeOK, ReadRowExists, [Next]_vars, NEW a \in Attempts,
                       StatusOf(a)' # StatusOf(a)
                PROVE  \/ CanTransition(StatusOf(a), StatusOf(a)')
                       \/ StatusOf(a) = "NONE" /\ StatusOf(a)' = "ACTIVE"
                       \/ StatusOf(a) \in TERMINAL_ATTEMPT_STATES /\ StatusOf(a)' = "EXPIRED"
    OBVIOUS
  <2>1. CASE StatusOf(a)' = "EXPIRED" /\ \E r \in Requests : ApplyLazyExpiration(r)
    <3>1. PICK r \in Requests : ApplyLazyExpiration(r) BY <2>1
    <3>2. Serving(r, "expire") /\ request[r].attempt \in Attempts
      BY <3>1, ServingType DEF ApplyLazyExpiration, Serving
    <3>3. request[r].attempt = a
      BY <3>1, <3>2, SetStatusType DEF ApplyLazyExpiration, StatusOf, AttemptStatus
    <3>4. StatusOf(a) \in AttemptStatus \ {"READY"}
      BY <3>2, <3>3 DEF ReadRowExists, TypeOK, Row, StatusOf
    <3>. QED BY <2>1, <3>4 DEF AttemptStatus, TERMINAL_ATTEMPT_STATES, CanTransition
  <2>. QED BY <2>1, StatusChange
<1>. QED BY <1>2, <1>3, PTL DEF Spec, NeverReopened

\* Once the outbox announces an attempt its answers never change.
THEOREM AnswersFinal == Spec => AnnouncedAnswersAreFinal
<1>1. TypeOK /\ FinalizedOnce /\ [Next]_vars =>
        [\A a \in Attempts : outbox[a] # <<>> => answers'[a] = answers[a]]_vars
  <2>. SUFFICES ASSUME TypeOK, FinalizedOnce, [Next]_vars, NEW a \in Attempts,
                       outbox[a] # <<>>
                PROVE  answers'[a] = answers[a]
    OBVIOUS
  <2>1. CASE UNCHANGED answers BY <2>1
  <2>2. ASSUME NEW r \in Requests, WriteAnswers(r) PROVE answers'[a] = answers[a]
    <3>1. request[r].attempt \in Attempts BY <2>2, ServingType DEF WriteAnswers, Serving
    <3>2. outbox[request[r].attempt] = <<>> BY <2>2, <3>1 DEF WriteAnswers, FinalizedOnce
    <3>. QED BY <2>2, <3>1, <3>2 DEF WriteAnswers, TypeOK
  <2>3. ASSUME NEW r \in Requests, SubmitAttempt(r) PROVE answers'[a] = answers[a]
    <3>1. request[r].attempt \in Attempts BY <2>3, ServingType DEF SubmitAttempt, Serving
    <3>2. StatusOf(request[r].attempt) = "ACTIVE"
      BY <2>3 DEF SubmitAttempt, FinalizeAttempt, CanTransition
    <3>3. outbox[request[r].attempt] = <<>> BY <3>1, <3>2 DEF FinalizedOnce
    <3>4. \E dirty \in {0, 1} :
             answers' = [answers EXCEPT ![request[r].attempt] = @ + dirty]
      BY <2>3 DEF SubmitAttempt
    <3>. QED BY <3>1, <3>3, <3>4 DEF TypeOK
  <2>4. (\E r \in Requests : WriteAnswers(r) \/ SubmitAttempt(r)) \/ UNCHANGED answers
    BY DEF Next, Receive, Serve, BeginStart, ReadPastDeadline, BeginSave, BeginSubmit,
       CheckIntervention, InsertAttempt, ExpireOnStart, ApplyLazyExpiration, ExpireOnWrite,
       ReplaySubmission, PauseAttemptAtomic, ResumeAttemptAtomic, TerminateAttemptAtomic,
       EndWithoutEffect, ConcludeSession, Tick, vars
  <2>. QED BY <2>1, <2>2, <2>3, <2>4
<1>. QED BY <1>1, TypeCorrect, Finalization, PTL DEF Spec, AnnouncedAnswersAreFinal
===============================================================================
