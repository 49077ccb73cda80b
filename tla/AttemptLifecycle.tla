--------------------------- MODULE AttemptLifecycle ---------------------------
(***************************************************************************)
(* The life of exam attempts under concurrent HTTP requests: starting,     *)
(* answering, submitting, lazy expiration on read, and the invigilator's   *)
(* pause, resume and terminate (modules/attempts, answers, submissions and *)
(* interventions over domain/attempt).                                     *)
(*                                                                         *)
(* A row of exam_attempts is identified by its UNIQUE (session_id,         *)
(* student_id); the model has one session.  A transaction that locks the   *)
(* row FOR UPDATE is two steps: its BEGIN, which fixes CURRENT_TIMESTAMP,  *)
(* and its locked part up to COMMIT, which other writers cannot interleave *)
(* with.  A handler that reads the row without a lock and writes later is  *)
(* two steps as well: the read and the write.                              *)
(***************************************************************************)
EXTENDS Integers, Sequences

CONSTANTS
    Attempts,       \* (session, student) pairs: the keys of exam_attempts
    Requests,       \* HTTP requests in flight, one pooled connection each
    Keys,           \* Idempotency-Key header values
    Fingerprints,   \* digests of submission bodies
    NoKey,          \* the key of a request that is not a submission
    NoRequest,      \* an idle connection
    NoRecord,       \* no row in submission_idempotency
    SessionStart, SessionEnd,   \* the session's scheduled window
    Duration,       \* the candidate's effective duration
    Extensions,     \* extension seconds an invigilator may grant on resume
    MaxTime,        \* bound on the clock
    MaxDeadline,    \* bound on extended deadlines
    MaxWrites       \* bound on committed answer writes per attempt

ASSUME WindowAssumption ==
    /\ SessionStart \in Nat /\ SessionEnd \in Nat /\ SessionStart < SessionEnd
    /\ Duration \in Nat \ {0} /\ Extensions \subseteq Nat
ASSUME BoundAssumption == MaxTime \in Nat /\ MaxDeadline \in Nat /\ MaxWrites \in Nat
ASSUME NullAssumption ==
    NoRecord \notin [key : Keys, print : Fingerprints, status : {"SUBMITTED", "EXPIRED"}]

VARIABLES
    attempts,       \* exam_attempts: status, expires_at and paused_at of each row
    answers,        \* how many answer writes were committed for each attempt
    outbox,         \* the event types inserted into outbox_events, per attempt
    idempotency,    \* submission_idempotency, keyed by attempt
    session,        \* exam_sessions.status
    request,        \* what each request in flight has read or fixed so far
    replies,        \* history: the submission records returned with 200 OK
    now             \* the database clock

vars == <<attempts, answers, outbox, idempotency, session, request, replies, now>>

(***************************************************************************)
(* Types.                                                                  *)
(***************************************************************************)
\* READY is the column's default; every code path inserts ACTIVE.
AttemptStatus == {"READY", "ACTIVE", "PAUSED", "SUBMITTED", "TERMINATED", "EXPIRED"}
TERMINAL_ATTEMPT_STATES == {"SUBMITTED", "TERMINATED", "EXPIRED"}

\* "NONE" stands for the absence of the row.
Row == [status : AttemptStatus \cup {"NONE"}, expiresAt : Int, pausedAt : Nat]
NoRow == [status |-> "NONE", expiresAt |-> 0, pausedAt |-> 0]

EventType == {"ATTEMPT_SUBMITTED", "ATTEMPT_EXPIRED"}
\* finalizeAttempt's event_type for the status it reaches.
EventOf(status) == IF status = "SUBMITTED" THEN "ATTEMPT_SUBMITTED" ELSE "ATTEMPT_EXPIRED"

Record == [key : Keys, print : Fingerprints, status : {"SUBMITTED", "EXPIRED"}]

\* What a request carries: submissions have a key, a body and the client's
\* auto_expired flag, the other handlers (Ops) none of them.
Ops == {"start", "expire", "save", "pause", "resume", "terminate"}
Request ==
    [op : Ops, attempt : Attempts, at : Nat, key : {NoKey}, print : {NoKey},
     autoExpired : {FALSE}]
    \cup [op : {"submit"}, attempt : Attempts, at : Nat, key : Keys, print : Fingerprints,
          autoExpired : BOOLEAN]

TypeOK ==
    /\ attempts \in [Attempts -> Row]
    /\ answers \in [Attempts -> Nat]
    /\ outbox \in [Attempts -> Seq(EventType)]
    /\ idempotency \in [Attempts -> Record \cup {NoRecord}]
    /\ session \in {"ACTIVE", "CONCLUDED"}
    /\ request \in [Requests -> Request \cup {NoRequest}]
    /\ replies \in [Attempts -> SUBSET Record]
    /\ now \in Nat

Init ==
    /\ attempts = [a \in Attempts |-> NoRow]
    /\ answers = [a \in Attempts |-> 0]
    /\ outbox = [a \in Attempts |-> <<>>]
    /\ idempotency = [a \in Attempts |-> NoRecord]
    /\ session = "ACTIVE"
    /\ request = [r \in Requests |-> NoRequest]
    /\ replies = [a \in Attempts |-> {}]
    /\ now = 0

(***************************************************************************)
(* The pure domain state machine and what handlers share.                  *)
(***************************************************************************)
\* transitionAttemptState throws unless this holds.
CanTransition(from, to) ==
    \/ from = "READY" /\ to = "ACTIVE"
    \/ from = "ACTIVE" /\ to \in {"PAUSED", "SUBMITTED", "TERMINATED", "EXPIRED"}
    \/ from = "PAUSED" /\ to \in {"ACTIVE", "TERMINATED", "EXPIRED"}

StatusOf(a) == attempts[a].status
PastDeadline(a, t) == t >= attempts[a].expiresAt

SetStatus(a, status) == attempts' = [attempts EXCEPT ![a].status = status]

Serving(r, op) == request[r] # NoRequest /\ request[r].op = op

Open(r, op, a, key, print, auto) ==
    /\ request[r] = NoRequest
    /\ request' = [request EXCEPT ![r] =
         [op |-> op, attempt |-> a, at |-> now, key |-> key, print |-> print,
          autoExpired |-> auto]]

Close(r) == request' = [request EXCEPT ![r] = NoRequest]

\* Mutants: the transition is not validated; the outbox insert is missing.
FinalizeAttempt_Unchecked(a, target) ==
    SetStatus(a, target) /\ outbox' = [outbox EXCEPT ![a] = Append(@, EventOf(target))]
FinalizeAttempt_NoEvent(a, target) ==
    CanTransition(StatusOf(a), target) /\ SetStatus(a, target) /\ UNCHANGED outbox

\* finalizeAttempt: status, outbox event and audit entry in the caller's transaction.
FinalizeAttempt(a, target) ==
    /\ CanTransition(StatusOf(a), target)
    /\ SetStatus(a, target)
    /\ outbox' = [outbox EXCEPT ![a] = Append(@, EventOf(target))]

(***************************************************************************)
(* startAttempt.                                                           *)
(***************************************************************************)
BeginStart(r, a) ==
    /\ Open(r, "start", a, NoKey, NoKey, FALSE)
    /\ UNCHANGED <<attempts, answers, outbox, idempotency, session, replies, now>>

\* No row yet: the attempt is inserted ACTIVE with the earlier of duration and window end.
InsertAttempt(r) ==
    LET a == request[r].attempt
        at == request[r].at
    IN  /\ Serving(r, "start")
        /\ session # "CONCLUDED" /\ SessionStart <= at /\ at < SessionEnd
        /\ StatusOf(a) = "NONE"
        /\ attempts' = [attempts EXCEPT ![a] =
             [status |-> "ACTIVE", pausedAt |-> 0,
              expiresAt |-> IF at + Duration < SessionEnd THEN at + Duration ELSE SessionEnd]]
        /\ Close(r)
        /\ UNCHANGED <<answers, outbox, idempotency, session, replies, now>>

\* An ACTIVE row past its deadline is expired under the lock, without an outbox event.
ExpireOnStart(r) ==
    LET a == request[r].attempt
    IN  /\ Serving(r, "start")
        /\ session # "CONCLUDED" /\ SessionStart <= request[r].at /\ request[r].at < SessionEnd
        /\ StatusOf(a) = "ACTIVE" /\ PastDeadline(a, request[r].at)
        /\ SetStatus(a, "EXPIRED")
        /\ Close(r)
        /\ UNCHANGED <<answers, outbox, idempotency, session, replies, now>>

(***************************************************************************)
(* checkAndApplyLazyExpiration and getAnswersForAttempt: the row is read   *)
(* without a lock, and the update that follows has no status guard.        *)
(***************************************************************************)
ReadPastDeadline(r, a) ==
    /\ StatusOf(a) = "ACTIVE" /\ PastDeadline(a, now)
    /\ Open(r, "expire", a, NoKey, NoKey, FALSE)
    /\ UNCHANGED <<attempts, answers, outbox, idempotency, session, replies, now>>

ApplyLazyExpiration(r) ==
    /\ Serving(r, "expire")
    /\ SetStatus(request[r].attempt, "EXPIRED")
    /\ Close(r)
    /\ UNCHANGED <<answers, outbox, idempotency, session, replies, now>>

(***************************************************************************)
(* saveAnswer, clearAnswer and batchSaveAnswers: one commit of answers     *)
(* under the attempt lock, or expiration with its event.                   *)
(***************************************************************************)
BeginSave(r, a) ==
    /\ StatusOf(a) # "NONE"
    /\ Open(r, "save", a, NoKey, NoKey, FALSE)
    /\ UNCHANGED <<attempts, answers, outbox, idempotency, session, replies, now>>

\* Mutant: the status is not checked again under the lock.
WriteAnswers_NoStatusCheck(r) ==
    LET a == request[r].attempt
    IN  /\ Serving(r, "save") /\ ~PastDeadline(a, request[r].at) /\ answers[a] < MaxWrites
        /\ answers' = [answers EXCEPT ![a] = @ + 1]
        /\ Close(r)
        /\ UNCHANGED <<attempts, outbox, idempotency, session, replies, now>>

WriteAnswers(r) ==
    LET a == request[r].attempt
    IN  /\ Serving(r, "save")
        /\ StatusOf(a) = "ACTIVE" /\ ~PastDeadline(a, request[r].at)
        /\ answers[a] < MaxWrites
        /\ answers' = [answers EXCEPT ![a] = @ + 1]
        /\ Close(r)
        /\ UNCHANGED <<attempts, outbox, idempotency, session, replies, now>>

ExpireOnWrite(r) ==
    LET a == request[r].attempt
    IN  /\ Serving(r, "save")
        /\ StatusOf(a) = "ACTIVE" /\ PastDeadline(a, request[r].at)
        /\ FinalizeAttempt(a, "EXPIRED")
        /\ Close(r)
        /\ UNCHANGED <<answers, idempotency, session, replies, now>>

(***************************************************************************)
(* submitAttempt.                                                          *)
(***************************************************************************)
BeginSubmit(r, a, key, print, auto) ==
    /\ StatusOf(a) # "NONE"
    /\ Open(r, "submit", a, key, print, auto)
    /\ UNCHANGED <<attempts, answers, outbox, idempotency, session, replies, now>>

\* The 200 OK reply to r's key and body that carries the given outcome.
ReplyWith(r, status) ==
    replies' = [replies EXCEPT ![request[r].attempt] =
        @ \cup {[key |-> request[r].key, print |-> request[r].print, status |-> status]}]

\* Mutant: the stored fingerprint is not compared.
ReplaySubmission_AnyBody(r) ==
    LET record == idempotency[request[r].attempt]
    IN  /\ Serving(r, "submit") /\ record # NoRecord /\ record.key = request[r].key
        /\ ReplyWith(r, record.status)
        /\ Close(r)
        /\ UNCHANGED <<attempts, answers, outbox, idempotency, session, now>>

\* Same key, same fingerprint: the stored response is returned, nothing is written.
ReplaySubmission(r) ==
    LET record == idempotency[request[r].attempt]
    IN  /\ Serving(r, "submit") /\ record # NoRecord
        /\ record.key = request[r].key
        /\ record.print = request[r].print
        /\ ReplyWith(r, record.status)
        /\ Close(r)
        /\ UNCHANGED <<attempts, answers, outbox, idempotency, session, now>>

\* The first submission of an attempt: final answers, status, event, audit entry
\* and idempotency record in one transaction.
SubmitAttempt(r) ==
    LET a == request[r].attempt
        target == IF PastDeadline(a, request[r].at) \/ request[r].autoExpired
                  THEN "EXPIRED" ELSE "SUBMITTED"
    IN  /\ Serving(r, "submit")
        /\ idempotency[a] = NoRecord
        /\ StatusOf(a) \in {"ACTIVE", "EXPIRED"}
        /\ \E dirty \in {0, 1} :        \* final answers in the body or none
             /\ answers[a] + dirty <= MaxWrites
             /\ answers' = [answers EXCEPT ![a] = @ + dirty]
        /\ FinalizeAttempt(a, target)
        /\ idempotency' = [idempotency EXCEPT ![a] =
             [key |-> request[r].key, print |-> request[r].print, status |-> target]]
        /\ ReplyWith(r, target)
        /\ Close(r)
        /\ UNCHANGED <<session, now>>

(***************************************************************************)
(* pauseCandidateAttempt, resumeCandidateAttempt, terminateCandidateAttempt:*)
(* an unlocked check of the status, then an atomic conditional UPDATE whose *)
(* CURRENT_TIMESTAMP lies between the check and the update.                 *)
(***************************************************************************)
CheckIntervention(r, a, op) ==
    /\ \/ op = "pause" /\ StatusOf(a) = "ACTIVE"
       \/ op = "resume" /\ StatusOf(a) = "PAUSED"
       \/ op = "terminate" /\ StatusOf(a) \in {"ACTIVE", "PAUSED"}
    /\ Open(r, op, a, NoKey, NoKey, FALSE)
    /\ UNCHANGED <<attempts, answers, outbox, idempotency, session, replies, now>>

PauseAttemptAtomic(r) ==
    LET a == request[r].attempt
    IN  /\ Serving(r, "pause")
        /\ StatusOf(a) = "ACTIVE"
        /\ \E ts \in request[r].at .. now :
             attempts' = [attempts EXCEPT ![a].status = "PAUSED", ![a].pausedAt = ts]
        /\ Close(r)
        /\ UNCHANGED <<answers, outbox, idempotency, session, replies, now>>

\* Mutant: the UPDATE has no WHERE status = 'PAUSED'.
ResumeAttemptAtomic_Unconditional(r) ==
    /\ Serving(r, "resume")
    /\ SetStatus(request[r].attempt, "ACTIVE")
    /\ Close(r)
    /\ UNCHANGED <<answers, outbox, idempotency, session, replies, now>>

ResumeAttemptAtomic(r) ==
    LET a == request[r].attempt
    IN  /\ Serving(r, "resume")
        /\ StatusOf(a) = "PAUSED"
        /\ \E ts \in request[r].at .. now, ext \in Extensions :
             LET deadline == attempts[a].expiresAt + (ts - attempts[a].pausedAt) + ext
             IN  /\ deadline <= MaxDeadline
                 /\ attempts' = [attempts EXCEPT ![a] =
                      [status |-> "ACTIVE", expiresAt |-> deadline, pausedAt |-> 0]]
        /\ Close(r)
        /\ UNCHANGED <<answers, outbox, idempotency, session, replies, now>>

TerminateAttemptAtomic(r) ==
    LET a == request[r].attempt
    IN  /\ Serving(r, "terminate")
        /\ StatusOf(a) \in {"ACTIVE", "PAUSED"}
        /\ SetStatus(a, "TERMINATED")
        /\ Close(r)
        /\ UNCHANGED <<answers, outbox, idempotency, session, replies, now>>

(***************************************************************************)
(* signOffSession, requests that end without an effect, and the clock.     *)
(***************************************************************************)
ConcludeSession ==
    /\ session' = "CONCLUDED"
    /\ UNCHANGED <<attempts, answers, outbox, idempotency, request, replies, now>>

\* Every rejection (wrong status, lost race, key reuse, stale revision, failed
\* validation) and every crash before COMMIT: the transaction rolls
\* back.  Replays of a start on an existing attempt end here too.
EndWithoutEffect(r) ==
    /\ request[r] # NoRequest
    /\ Close(r)
    /\ UNCHANGED <<attempts, answers, outbox, idempotency, session, replies, now>>

Tick ==
    /\ now < MaxTime
    /\ now' = now + 1
    /\ UNCHANGED <<attempts, answers, outbox, idempotency, session, request, replies>>

Receive(r) ==
    \E a \in Attempts :
        \/ BeginStart(r, a)
        \/ ReadPastDeadline(r, a)
        \/ BeginSave(r, a)
        \/ \E key \in Keys, print \in Fingerprints, auto \in BOOLEAN :
             BeginSubmit(r, a, key, print, auto)
        \/ \E op \in {"pause", "resume", "terminate"} : CheckIntervention(r, a, op)

Serve(r) ==
    \/ InsertAttempt(r) \/ ExpireOnStart(r) \/ ApplyLazyExpiration(r)
    \/ WriteAnswers(r) \/ ExpireOnWrite(r)
    \/ ReplaySubmission(r) \/ SubmitAttempt(r)
    \/ PauseAttemptAtomic(r) \/ ResumeAttemptAtomic(r) \/ TerminateAttemptAtomic(r)
    \/ EndWithoutEffect(r)

Next ==
    \/ \E r \in Requests : Receive(r) \/ Serve(r)
    \/ ConcludeSession
    \/ Tick

Spec == Init /\ [][Next]_vars

(***************************************************************************)
(* Properties.                                                             *)
(***************************************************************************)
\* Whatever requests race, an attempt is announced to the outbox at most once,
\* an unfinished attempt not at all, and an idempotency record exists only
\* beside the event of its own outcome (finalizeAttempt is shared by answer
\* writes and submissions; the lock on the attempt row arbitrates).
FinalizedOnce ==
    \A a \in Attempts :
        /\ Len(outbox[a]) <= 1
        /\ StatusOf(a) \in {"NONE", "ACTIVE", "PAUSED", "TERMINATED"} =>
             outbox[a] = <<>> /\ idempotency[a] = NoRecord
        /\ idempotency[a] # NoRecord => outbox[a] = <<EventOf(idempotency[a].status)>>

\* A SUBMITTED attempt has its outbox event and its idempotency record: the
\* answer "already submitted" without a record (submitAttempt, step 7) is dead code.
SubmittedIsComplete ==
    \A a \in Attempts : StatusOf(a) = "SUBMITTED" =>
        /\ outbox[a] = <<"ATTEMPT_SUBMITTED">>
        /\ idempotency[a] # NoRecord /\ idempotency[a].status = "SUBMITTED"

\* All the 200 OK replies a candidate ever receives for submitting an attempt
\* are one and the same record, however often requests are retried or raced
\* with other keys or bodies.
RepliesAgree ==
    \A a \in Attempts : \A x \in replies[a] : idempotency[a] = x

\* Each status change is one of the domain's transitions, a row's insertion as
\* ACTIVE, or the unguarded lazy update that turns a finished attempt EXPIRED:
\* no race reopens a finished attempt.
NeverReopened ==
    [][\A a \in Attempts : StatusOf(a)' # StatusOf(a) =>
          \/ CanTransition(StatusOf(a), StatusOf(a)')
          \/ StatusOf(a) = "NONE" /\ StatusOf(a)' = "ACTIVE"
          \/ StatusOf(a) \in TERMINAL_ATTEMPT_STATES /\ StatusOf(a)' = "EXPIRED"]_vars

\* The answers an evaluator may read once the outbox announces the attempt
\* are final: no save that was already waiting for the lock lands after it.
AnnouncedAnswersAreFinal ==
    [][\A a \in Attempts : outbox[a] # <<>> => answers'[a] = answers[a]]_vars

\* domain/attempt/attemptStates.js: "SUBMITTED, TERMINATED, and EXPIRED are terminal."
TerminalIsFinal ==
    [][\A a \in Attempts : StatusOf(a) \in TERMINAL_ATTEMPT_STATES =>
          StatusOf(a)' = StatusOf(a)]_vars

\* docs/SUBMISSIONS: when the deadline elapses the attempt becomes EXPIRED and
\* an ATTEMPT_EXPIRED event is inserted into outbox_events.
ExpiredIsAnnounced ==
    \A a \in Attempts : StatusOf(a) = "EXPIRED" => outbox[a] # <<>>
===============================================================================
