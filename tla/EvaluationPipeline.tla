-------------------------- MODULE EvaluationPipeline --------------------------
(***************************************************************************)
(* From a published event to a row in results: the RabbitMQ queues of      *)
(* topology.js, the evaluation consumer with its retry tiers and dead      *)
(* letter queue, evaluateAttempt, and the evaluation on demand of          *)
(* getCandidateAttemptResult.                                              *)
(*                                                                         *)
(* The broker (external) redelivers what was not acknowledged when a       *)
(* channel closes.  A handler whose channel closed runs on, but can        *)
(* neither acknowledge nor publish.                                        *)
(***************************************************************************)
EXTENDS Naturals

CONSTANTS
    Attempts,
    Copies,         \* messages the broker can hold at once
    Handlers,       \* message handlers in flight: the prefetch limit
    Viewers,        \* result requests in flight
    NoCopy,         \* the copy of an evaluation that no message asked for
    NoResult,       \* no row in results
    MaxAnswers,     \* bound on answer writes
    MaxFlags,       \* bound on proctoring flags
    FaultKinds,     \* the faults that happen, of Faults
    MaxFaults       \* bound on them

Faults == {"crash", "connection", "outage", "channel", "database", "confirm"}

ASSUME PipelineAssumption ==
    /\ NoCopy \notin Copies
    /\ NoResult \notin [answers : Nat, by : {"consumer", "viewer"}]
    /\ Handlers \cap Viewers = {}
    /\ MaxAnswers \in Nat /\ MaxFlags \in Nat /\ MaxFaults \in Nat
    /\ FaultKinds \subseteq Faults

VARIABLES
    phase,          \* exam_attempts.status: in progress, paused or finished
    answers,        \* version of the attempt's answers
    copies,         \* the messages: attempt, x-retry-attempt, and where they are
    handler,        \* evaluations in flight
    results,        \* the results table: the answers scored and who evaluated them
    connection,     \* the connection of the process, and whether a reconnect timer is set
    consuming,      \* the consumer is subscribed to the jobs queue
    announced,      \* history: ended attempts whose event was published
    failures,       \* history: failed evaluations of a message, per attempt (up to 3)
    flags,          \* proctoring flags published
    faults

history == <<announced, failures, flags>>
vars == <<phase, answers, copies, handler, results, connection, consuming, announced, failures,
          flags, faults>>

Phase == {"ACTIVE", "PAUSED", "ENDED"}
\* Retry tiers 0 to 2; a copy in the dead letter queue counts as tier 3.
Tiers == 0 .. 3
Place == {"free", "jobs", "held", "retry", "dlq"}
Copy == [attempt : Attempts, tier : Tiers, place : Place]
Stage == {"idle", "check", "evaluate", "insert", "forward", "ack", "stuck"}
\* open: the channel that delivered the copy is still open.
Handler ==
    [stage : Stage, attempt : Attempts, copy : Copies \cup {NoCopy}, open : BOOLEAN, read : Nat]
Result == [answers : Nat, by : {"consumer", "viewer"}]

TypeOK ==
    /\ phase \in [Attempts -> Phase]
    /\ answers \in [Attempts -> Nat]
    /\ copies \in [Copies -> Copy]
    /\ handler \in [Handlers \cup Viewers -> Handler]
    /\ results \in [Attempts -> Result \cup {NoResult}]
    /\ connection \in [up : BOOLEAN, timer : BOOLEAN]
    /\ consuming \in BOOLEAN
    /\ announced \subseteq Attempts
    /\ failures \in [Attempts -> 0 .. 3]
    /\ flags \in Nat
    /\ faults \in Nat

Init ==
    /\ phase = [a \in Attempts |-> "ACTIVE"]
    /\ answers = [a \in Attempts |-> 0]
    /\ copies \in [Copies -> [attempt : Attempts, tier : {0}, place : {"free"}]]
    /\ handler \in [Handlers \cup Viewers -> [stage : {"idle"}, attempt : Attempts, copy : {NoCopy},
                                 open : {FALSE}, read : {0}]]
    /\ results = [a \in Attempts |-> NoResult]
    /\ connection = [up |-> TRUE, timer |-> FALSE]
    /\ consuming = TRUE
    /\ announced = {}
    /\ failures = [a \in Attempts |-> 0]
    /\ flags = 0
    /\ faults = 0

Fault(kind) == kind \in FaultKinds /\ faults < MaxFaults /\ faults' = faults + 1

At(h, stage) == handler[h].stage = stage
Goto(h, stage) == handler' = [handler EXCEPT ![h].stage = stage]
AttemptOf(h) == handler[h].attempt
CopyOf(h) == handler[h].copy

\* A confirmed publication: the broker holds one more copy.
Put(a, tier, place) ==
    \E c \in Copies :
        /\ copies[c].place = "free"
        /\ copies' = [copies EXCEPT ![c] = [attempt |-> a, tier |-> tier, place |-> place]]

(***************************************************************************)
(* The attempt, as far as its evaluation sees it (AttemptLifecycle).       *)
(***************************************************************************)
Attempt(a) ==
    /\ \/ /\ phase[a] = "ACTIVE" /\ answers[a] < MaxAnswers
          /\ answers' = [answers EXCEPT ![a] = @ + 1]
          /\ UNCHANGED phase
       \/ /\ phase[a] = "ACTIVE"
          /\ phase' = [phase EXCEPT ![a] = "PAUSED"]
          /\ UNCHANGED answers
       \/ /\ phase[a] = "PAUSED"
          /\ phase' = [phase EXCEPT ![a] = "ACTIVE"]
          /\ UNCHANGED answers
       \/ /\ phase[a] # "ENDED"
          /\ phase' = [phase EXCEPT ![a] = "ENDED"]
          /\ UNCHANGED answers
    /\ UNCHANGED <<copies, handler, results, connection, consuming, history, faults>>

(***************************************************************************)
(* The outbox relay publishes events (AtLeastOnce).                        *)
(***************************************************************************)
\* Mutant: the event is published before the attempt's transaction commits.
PublishAttemptEnded_Early(a) ==
    /\ connection.up
    /\ IF a \in announced THEN Fault("confirm") ELSE UNCHANGED faults
    /\ Put(a, 0, "jobs")
    /\ announced' = announced \cup {a}
    /\ UNCHANGED <<phase, answers, handler, results, connection, consuming, failures, flags>>

\* ATTEMPT_SUBMITTED or ATTEMPT_EXPIRED; delivering it again is a fault.
PublishAttemptEnded(a) ==
    /\ phase[a] = "ENDED" /\ connection.up
    /\ IF a \in announced THEN Fault("confirm") ELSE UNCHANGED faults
    /\ Put(a, 0, "jobs")
    /\ announced' = announced \cup {a}
    /\ UNCHANGED <<phase, answers, handler, results, connection, consuming, failures, flags>>

\* PROCTORING_FLAG_RAISED, inserted while the attempt was ACTIVE: the transport
\* publishes every event type with routing key attempt.submitted, and its
\* payload names the attempt as attemptId too.
PublishFlagRaised(a) ==
    /\ connection.up /\ flags < MaxFlags
    /\ Put(a, 0, "jobs")
    /\ flags' = flags + 1
    /\ UNCHANGED <<phase, answers, handler, results, connection, consuming, announced, failures,
                   faults>>

(***************************************************************************)
(* handleEvaluationMessage.                                                *)
(***************************************************************************)
Receive(h, c) ==
    /\ consuming /\ copies[c].place = "jobs" /\ At(h, "idle")
    /\ copies' = [copies EXCEPT ![c].place = "held"]
    /\ handler' = [handler EXCEPT ![h] =
         [stage |-> "check", attempt |-> copies[c].attempt, copy |-> c, open |-> TRUE, read |-> 0]]
    /\ UNCHANGED <<phase, answers, results, connection, consuming, history, faults>>

\* The message stays unacknowledged and keeps its prefetch slot until the
\* channel closes; a handler whose channel is gone just ends.
Stuck(h) == Goto(h, IF handler[h].open THEN "stuck" ELSE "idle")

CheckResult(h) ==
    /\ At(h, "check")
    /\ \/ results[AttemptOf(h)] # NoResult /\ Goto(h, "ack") /\ UNCHANGED faults
       \/ results[AttemptOf(h)] = NoResult /\ Goto(h, "evaluate") /\ UNCHANGED faults
       \/ Stuck(h) /\ Fault("database")
    /\ UNCHANGED <<phase, answers, copies, results, connection, consuming, history>>

\* evaluateAttempt reads without a lock and without looking at the status.
ReadAnswers(h) ==
    /\ At(h, "evaluate")
    /\ handler' = [handler EXCEPT
         ![h].stage = IF results[AttemptOf(h)] # NoResult THEN "ack" ELSE "insert",
         ![h].read = answers[AttemptOf(h)]]
    /\ UNCHANGED <<phase, answers, copies, results, connection, consuming, history, faults>>

Scored(h) ==
    [answers |-> handler[h].read, by |-> IF CopyOf(h) = NoCopy THEN "viewer" ELSE "consumer"]

\* Mutant: ON CONFLICT (attempt_id) DO UPDATE.
StoreResult_Upsert(h) == results' = [results EXCEPT ![AttemptOf(h)] = Scored(h)]

\* ON CONFLICT (attempt_id) DO NOTHING.
StoreResult(h) ==
    IF results[AttemptOf(h)] = NoResult
    THEN results' = [results EXCEPT ![AttemptOf(h)] = Scored(h)]
    ELSE UNCHANGED results

InsertResult(h) ==
    /\ At(h, "insert")
    /\ StoreResult(h)
    /\ Goto(h, "ack")
    /\ UNCHANGED <<phase, answers, copies, connection, consuming, history, faults>>

\* Any error is transient by default; one at COMMIT may hide a committed result.
EvaluationFails(h) ==
    /\ At(h, "evaluate") \/ At(h, "insert")
    /\ \/ UNCHANGED results
       \/ At(h, "insert") /\ StoreResult(h)
    /\ failures' = IF handler[h].open
                    THEN [failures EXCEPT ![AttemptOf(h)] = IF @ < 3 THEN @ + 1 ELSE @]
                    ELSE failures
    /\ Goto(h, "forward")
    /\ UNCHANGED <<phase, answers, copies, connection, consuming, announced, flags, faults>>

\* Mutant: tier 1 is dead-lettered already.
NextPlace_Early(tier) == IF tier < 1 THEN "retry" ELSE "dlq"

\* Tiers 0 and 1 go to the delayed queues, tier 2 to the dead letter queue.
NextPlace(tier) == IF tier < 2 THEN "retry" ELSE "dlq"

\* Mutant: a forwarding that was not confirmed is acknowledged like any other.
AfterForward_Always(confirmed) == "ack"

\* Mutant: the forwarded message is never acknowledged.
AfterForward_NoAck(confirmed) == "stuck"

\* The original is acknowledged only after a confirmed forwarding.
AfterForward(confirmed) == IF confirmed THEN "ack" ELSE "stuck"

\* forwardToRetryPath; a forwarding that rejects may have reached the broker.
Forward(h) ==
    LET tier == copies[CopyOf(h)].tier
        reach == Put(AttemptOf(h), tier + 1, NextPlace(tier))
    IN  /\ At(h, "forward") /\ handler[h].open
        /\ \/ Goto(h, AfterForward(TRUE)) /\ reach /\ UNCHANGED faults
           \/ Goto(h, AfterForward(FALSE)) /\ (reach \/ UNCHANGED copies) /\ Fault("confirm")
        /\ UNCHANGED <<phase, answers, results, connection, consuming, history>>

\* channel.ack; the copy leaves the broker.
Ack(h) ==
    /\ At(h, "ack") /\ handler[h].open
    /\ copies' = [copies EXCEPT ![CopyOf(h)].place = "free"]
    /\ Goto(h, "idle")
    /\ UNCHANGED <<phase, answers, results, connection, consuming, history, faults>>

\* Without its channel (or without a message) a handler ends silently.
EndDetached(h) ==
    /\ At(h, "ack") \/ At(h, "forward")
    /\ ~handler[h].open
    /\ Goto(h, "idle")
    /\ UNCHANGED <<phase, answers, copies, results, connection, consuming, history, faults>>

\* getCandidateAttemptResult, where only ACTIVE is refused, and submitAttempt's
\* setImmediate(evaluateAttempt) after its commit.
EvaluateOnDemand(v, a) ==
    /\ At(v, "idle") /\ phase[a] # "ACTIVE" /\ results[a] = NoResult
    /\ handler' = [handler EXCEPT ![v] =
         [stage |-> "evaluate", attempt |-> a, copy |-> NoCopy, open |-> FALSE, read |-> 0]]
    /\ UNCHANGED <<phase, answers, copies, results, connection, consuming, history, faults>>

(***************************************************************************)
(* The broker and the connection (external; client.js).                    *)
(***************************************************************************)
\* The TTL of a retry queue ends: dead-lettered back to the jobs queue.
RetryExpires(c) ==
    /\ copies[c].place = "retry"
    /\ copies' = [copies EXCEPT ![c].place = "jobs"]
    /\ UNCHANGED <<phase, answers, handler, results, connection, consuming, history, faults>>

\* What was unacknowledged on the consumer's channel goes back to its queue.
Requeue ==
    copies' = [c \in Copies |-> [copies[c] EXCEPT !.place = IF @ = "held" THEN "jobs" ELSE @]]

\* The channel closes under its handlers.
Detach ==
    /\ Requeue
    /\ handler' = [h \in Handlers \cup Viewers |->
         [handler[h] EXCEPT !.open = FALSE, !.stage = IF @ = "stuck" THEN "idle" ELSE @]]

\* Only the channel closes, on an error or because the broker waited too long
\* for an acknowledgement: nothing subscribes again.
CloseChannel ==
    /\ consuming
    /\ \/ Fault("channel")
       \/ (\E h \in Handlers : At(h, "stuck")) /\ UNCHANGED faults
    /\ Detach
    /\ consuming' = FALSE
    /\ UNCHANGED <<phase, answers, results, connection, history>>

LoseConnection ==
    /\ Fault("connection") /\ connection.up
    /\ Detach
    /\ connection' = [up |-> FALSE, timer |-> TRUE]
    /\ consuming' = FALSE
    /\ UNCHANGED <<phase, answers, results, history>>

\* scheduleReconnect's timer: the hooks run only if it reconnects itself.
ReconnectTimer ==
    /\ connection.timer
    /\ connection' = [up |-> TRUE, timer |-> FALSE]
    /\ consuming' = (consuming \/ ~connection.up)
    /\ UNCHANGED <<phase, answers, copies, handler, results, history, faults>>

\* Ten attempts failed: defaultRetryStrategy returns null, no timer is set again.
ReconnectGivesUp ==
    /\ Fault("outage") /\ connection.timer /\ ~connection.up
    /\ connection' = [connection EXCEPT !.timer = FALSE]
    /\ UNCHANGED <<phase, answers, copies, handler, results, consuming, history>>

\* The outbox relay asks for a channel: getRabbitMQConnection connects, without hooks.
PublisherReconnects ==
    /\ ~connection.up
    /\ connection' = [connection EXCEPT !.up = TRUE]
    /\ UNCHANGED <<phase, answers, copies, handler, results, consuming, history, faults>>

\* The process dies and restarts with a new consumer.
CrashAndRestart ==
    /\ Fault("crash")
    /\ Requeue
    /\ handler' = [h \in Handlers \cup Viewers |->
         [handler[h] EXCEPT !.open = FALSE, !.stage = "idle"]]
    /\ connection' = [up |-> TRUE, timer |-> FALSE]
    /\ consuming' = TRUE
    /\ UNCHANGED <<phase, answers, results, history>>

Work(h) ==
    \/ CheckResult(h) \/ ReadAnswers(h) \/ InsertResult(h) \/ EvaluationFails(h)
    \/ Forward(h) \/ Ack(h) \/ EndDetached(h)

Next ==
    \/ \E a \in Attempts : Attempt(a) \/ PublishAttemptEnded(a) \/ PublishFlagRaised(a)
    \/ \E h \in Handlers, c \in Copies : Receive(h, c)
    \/ \E v \in Viewers, a \in Attempts : EvaluateOnDemand(v, a)
    \/ \E h \in Handlers \cup Viewers : Work(h)
    \/ \E c \in Copies : RetryExpires(c)
    \/ CloseChannel \/ LoseConnection \/ ReconnectTimer \/ ReconnectGivesUp
    \/ PublisherReconnects
    \/ CrashAndRestart

Spec == Init /\ [][Next]_vars

\* The event loop drives handlers, the broker delivers, expires and closes
\* channels that do not acknowledge, timers fire.
Fairness ==
    /\ \A h \in Handlers \cup Viewers : WF_vars(Work(h))
    /\ \A c \in Copies : WF_vars(\E h \in Handlers : Receive(h, c)) /\ WF_vars(RetryExpires(c))
    /\ WF_vars(ReconnectTimer) /\ WF_vars(CloseChannel /\ UNCHANGED faults)

FairSpec == Spec /\ Fairness

(***************************************************************************)
(* Properties.                                                             *)
(***************************************************************************)
InBroker(a) == \E c \in Copies : copies[c].attempt = a /\ copies[c].place # "free"

\* ADR 0002: "zero data loss across worker crashes, ... broker restarts": once its
\* event was published, an attempt has a result or the broker holds a copy of
\* the event, be it in the dead letter queue.
NothingLost == \A a \in announced : results[a] # NoResult \/ InBroker(a)

\* ADR 0002, Model A: redeliveries do not count as retries: an event is
\* dead-lettered only after three evaluations of its attempt failed.
DeadLetteredAfterThreeFailures ==
    \A c \in Copies : copies[c].place = "dlq" => failures[copies[c].attempt] = 3

\* A result is never replaced by another evaluation: redeliveries, retries and
\* viewers agree on it (manual grading, which adds to its score, is apart).
ResultIsStable ==
    [][\A a \in Attempts : results[a] # NoResult => results'[a] = results[a]]_vars

\* Every announced attempt is evaluated or dead-lettered: "eventual consistency",
\* with "transient database deadlocks" delaying it.
AnnouncedIsEvaluated ==
    \A a \in Attempts : a \in announced ~>
        \/ results[a] # NoResult
        \/ \E c \in Copies : copies[c].attempt = a /\ copies[c].place = "dlq"

\* ADR 0002: "Upon connection re-establishment, a reconnect lifecycle registry
\* automatically restores the evaluation consumer".
ConsumerIsRestored == connection.up ~> consuming

\* evaluation.worker.js handles "ATTEMPT_SUBMITTED domain events": what the
\* consumer scored are the final answers.
ConsumerScoresFinalAnswers ==
    \A a \in Attempts :
        (phase[a] = "ENDED" /\ results[a] # NoResult /\ results[a].by = "consumer") =>
            results[a].answers = answers[a]

\* As long as no proctoring flag was published, the consumer scores final answers,
\* however late, redelivered or retried its messages are, and whoever paused the
\* attempt in between: an event is published after the attempt ended.
EarlyScoresNeedFlags == flags = 0 => ConsumerScoresFinalAnswers
===============================================================================
