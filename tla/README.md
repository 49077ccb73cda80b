# ProctorNet: TLA+ models, TLC runs and TLAPS proofs

ProctorNet is an examination platform: candidates take timed exams in a
browser, a Node.js/Express API writes PostgreSQL, a transactional outbox feeds
RabbitMQ, and a worker evaluates what was submitted; invigilators watch and
intervene over WebSockets, and graders add points by hand. This directory models the
path that must not go wrong, from the draft of an exam and its roster to the
released result, and says what is checked about it, what is proved, and what is
left out.

All paths below are relative to `src/`; `modules/` abbreviates
`backend/src/modules/`. Every definition's source lines are in `PROJECT.json`,
under `map`. The repository has no automated tests; where its documents
promise something, the property quotes them.

## 1. Inventory

| Component | State it keeps | Operations | Talks to |
|---|---|---|---|
| attempts (`modules/attempts`, `domain/attempt`) | `exam_attempts`: status, `expires_at`, `paused_at` | start or resume, read with lazy expiration | answers, submissions, interventions share the row |
| answers (`modules/answers`) | `answers`: value, `revision` | save, clear, batch save, read | locks the attempt row, `finalizeAttempt` past the deadline |
| submissions (`modules/submissions`) | `submission_idempotency` | submit with `Idempotency-Key`, `finalizeAttempt` | writes status, answers, outbox event, audit entry in one transaction; triggers dispatch |
| interventions (`modules/interventions`) | attempt status and deadline, `proctor_interventions`, sign-off audit | announce, message, pause, resume, terminate, sign-off | attempts by conditional `UPDATE`s, the session by an unconditional one; the exam page's timer |
| outbox (`modules/outbox`) | `outbox_events`: status, `retry_count`, `next_retry_at` | insert, claim, publish, mark, recover stale rows | PostgreSQL, RabbitMQ |
| RabbitMQ client (`infrastructure/rabbitmq`) | connection, reconnect timer, hooks | connect, reconnect, confirmed publication, topology | outbox relay and evaluation consumer |
| evaluation (`modules/evaluation`) | `results` (UNIQUE `attempt_id`), messages held | consume, evaluate, forward to retry tiers or DLQ, acknowledge | broker, answers, results |
| evaluator (`modules/evaluation/evaluator.js`) | none | score an answer, aggregate | pure; `saveManualGrade` computes the same in SQL |
| manual grading (`modules/evaluation/manualGrading.*`) | `manual_grades`, their audits, `results.score` | save a grade, recompute the total | results, analytics cache |
| results (`modules/results`) | release policy, visibility | read (evaluates on demand), publish, change the policy | evaluation, exams |
| autosave (`frontend/src/hooks/useAutosave.js`, `ExamTakingPage.jsx`) | dirty queue in memory and localStorage, known revisions, timers | edit, debounce, flush, retry, submit | answers and submissions API; telemetry (`useProctoringEvents.js`) can end the exam |
| exams and questions (`modules/exams`) | `exams`, topic rules, cached copy, analytics cache | draft, validate, publish, read | attempts copy the paper |
| sessions and rosters (`modules/sessions`) | `exam_sessions`, `session_students`, `session_invigilators` | create, assign, remove, reschedule, choose a room, conclude | attempts enrol candidates too; faculty's `scheduleExam` books without checks |
| realtime (`infrastructure/realtime`) | connections, rooms, presence, Redis health | connect, subscribe, heartbeat, broadcast, sweep | browsers, Redis Pub/Sub between nodes |
| auth | refresh tokens, sessions | login, refresh, revoke | middleware |
| proctoring, evidence, biometrics | events, flags, uploads, lockouts | ingest, review, presign | outbox (flag events), object storage |
| media SFU, rate limits | transports, counters | join, produce, limit | browsers, Redis |

Hard behaviours, and where they bite (the full list with lines is `hazards`):

- *Concurrency through the database.* Requests race on one attempt row. Some
  handlers lock it (`SELECT ... FOR UPDATE`), some read it unlocked and update
  later, some use one conditional `UPDATE`. `CURRENT_TIMESTAMP` is the time of
  `BEGIN`, so a transaction that waited for a lock judges deadlines by an old clock.
- *Retried, reordered and duplicated requests.* Clients retry saves and
  submissions; several tabs edit the same answers.
- *Crashes between two steps.* The relay may die after publishing and before
  marking, the consumer between result and acknowledgement.
- *Unreliable delivery.* Publisher confirms time out, channels close under
  handlers, connections drop, the broker requeues what was not acknowledged.
- *Timers and flags in memory.* `isDispatching`, the reconnect timer and the
  active consumer channel decide whether anything ever happens again.
- *A page with a memory of its own.* The exam page keeps a queue of edits, revisions
  it believes in and a deadline it once loaded, through reloads, lost replies and pauses.
- *State checked in one transaction and used in another.* Drafts are checked and
  written later, a report is computed and stored later, subscriptions are authorized
  while their connection closes.

What makes each component correct:

- attempts, submissions: one finalization and one announcement per attempt, whose
  outcome all replies share; no race reopens a finished attempt; announced answers are final.
- answers: a write replaces the version its sender saw; a revision names one answer.
- outbox: only delivered events are PUBLISHED; two runs do not work on one row;
  a retry budget is spent only on failures; every event settles.
- evaluation: no announced attempt is lost; dead letters are earned; a result is
  stable and computed from the final answers; every announced attempt is evaluated.
- grading: the score is the evaluation's until a grade is given, then the sum of all
  points; the audit trail is a chain; both ways of scoring agree.
- autosave: the last edit of a question is on the server, on its way or in the queue, or its
  loss has one of the causes the hook cannot avoid; the exam ends for a reason.
- exams, results: a published paper is fixed and the same for all; a result once seen stays visible.
- sessions: commands do not deadlock, unless with a start by exam id; capacity and bookings are
  respected except where people are enrolled without the checks; a concluded roster is kept.
- interventions: the log explains status and deadline; one command per idempotency key;
  no candidate loses time, and no attempt is missing in the sign-off, but for a known cause.
- realtime: rooms hold registered connections, and what a dashboard shows has a reason.

## 2. The modules and how they correspond to the code

```
ExamLifecycle      <- Exams_proofs                 MCExamLifecycle
SessionRoster      <- Exams_proofs                 MCSessionRoster
AttemptLifecycle   <- AttemptLifecycle_proofs      MCAttemptLifecycle
Interventions      <- Interventions_proofs         MCInterventions
AnswerRevisions    <- AnswerRevisions_proofs       MCAnswerRevisions
   ^ OCC == INSTANCE
Autosave           <- Clients_proofs               MCAutosave
AtLeastOnce        (abstract)
   ^ refined by
OutboxRelay        <- OutboxRelay_proofs           MCOutboxRelay
EvaluationPipeline <- EvaluationPipeline_proofs    MCEvaluationPipeline
Evaluator          (pure)
   ^ extended by
ManualGrading      <- ManualGrading_proofs         MCManualGrading
Realtime           <- Clients_proofs               MCRealtime
```

The modules hand over to one another by what they promise. `ExamLifecycle` shows
that the paper an attempt copies is fixed; `SessionRoster` who may start; `AttemptLifecycle`
that an attempt is announced once, with final answers; `AnswerRevisions` what
those answers are and `Autosave` how the page feeds them; `OutboxRelay` that announced
events are delivered at least once; `EvaluationPipeline` starts from exactly that (an
ended attempt's event may be published any number of times) and follows it to a
result, whose score `Evaluator` computes and `ManualGrading` changes. `Interventions` and
`Realtime` are the invigilator's side. Each `MC...` module adds the symmetry sets and,
where a constant is not a plain value, its definition; the other values are in
the `.cfg` files. Two proof modules cover two specifications each that share no variable,
`Exams_proofs` (exams and their sessions) and `Clients_proofs` (what browsers show), so their
`Init`, `Next`, `Spec` and `TypeOK` carry a prefix: `ExamSpec`, `RosterSpec`, `AutosaveSpec`,
`RealtimeSpec`. Definitions with a suffix (`FinalizeAttempt_Unchecked`) are
mutants: plausible bugs that the runs must, and do, catch.

### AttemptLifecycle

One session; a row of `exam_attempts` per (session, student), which the
`UNIQUE` constraint makes the key. A request is a record of what its handler has
read or fixed so far (`request[r]`); its `at` is the transaction's
`CURRENT_TIMESTAMP`.

| Model | Code |
|---|---|
| `BeginStart`; `InsertAttempt`, `ExpireOnStart` | `startAttempt`: `BEGIN`, then the locked part |
| `ReadPastDeadline`; `ApplyLazyExpiration` | `checkAndApplyLazyExpiration`, `getAnswersForAttempt`: unlocked read, unguarded `UPDATE` |
| `BeginSave`; `WriteAnswers`, `ExpireOnWrite` | `saveAnswer`, `clearAnswer`, `batchSaveAnswers` |
| `BeginSubmit`; `ReplaySubmission`, `SubmitAttempt` | `submitAttempt` |
| `FinalizeAttempt` | `finalizeAttempt`, inside its caller's transaction |
| `CheckIntervention`; `PauseAttemptAtomic`, ... | the three commands: check, then conditional `UPDATE` |
| `ConcludeSession` | `signOffSession` |
| `EndWithoutEffect` | every rejection, rollback or crash before `COMMIT` |

A handler that holds the row lock is one step from the lock to `COMMIT`: writers of the
row wait for it, and nothing else writes what it writes. (A plain read can see the row
before the commit; that is the unlocked read of `ReadPastDeadline`, a step of its own.)
Answer contents are abstracted to a count of committed writes.

### AnswerRevisions

One ACTIVE attempt; every client action of `answersApi.js` puts a message into
`inFlight`, from which the server may take it never, once or several times, in
any order. `SaveAnswers` is the whole handler for a save, a batch and the dirty
answers of a submission (all items or none); `ClearAnswer` deletes the row. `version`,
`blind` and `cleared` are history: what the table itself forgets.
Only here do revisions and values matter; only in `AttemptLifecycle` do status and
deadline matter.

### OutboxRelay and AtLeastOnce

`run` holds the concurrent executions of `dispatchPendingEvents` in each
process. They overlap, because `isDispatching` is released after the claim commits. The claim
is one step (its row locks with `SKIP LOCKED` exclude other claims), and every
publication and every later `UPDATE` is one more. `RecoverStaleProcessing` may take a
row from a run that is alive but slow: that is a fault, counted in `MaxFaults`, while
recovery after a crash is free. Backoff durations are abstract (a row becomes due at some
time). `AtLeastOnce` promises only: delivered events were stored, acknowledged ones were
delivered, deliveries are not undone. `ImplementsAtLeastOnce` is the refinement, with
`acknowledged` mapped to the rows that are PUBLISHED.

### EvaluationPipeline

`copies` are the messages the broker holds, each in the jobs queue, held by a
consumer, in a retry queue or in the DLQ, with the retry tier of its headers.
Handlers run `handleEvaluationMessage` step by step (`CheckResult`, `ReadAnswers`,
`InsertResult`, `Forward`, `Ack`). A "viewer" is an evaluation outside
the queue: the result page (`getCandidateAttemptResult`) or the `setImmediate` evaluation after
a submission. A handler whose channel closed keeps running with `open = FALSE`,
and its message is already back in the queue. `connection` and
`consuming` follow `client.js` and `restoreEvaluationConsumer`.

### Autosave

The hook `useAutosave` and `executeSubmission` of the exam page, at the grain of the
event loop: an edit, a timer, the arrival of a reply is one step. `queue` is
`dirtyQueueRef`, `stored` its copy in localStorage, `timer` what each debounced save will
send, `net` the requests under way and their replies.

| Model | Code |
|---|---|
| `SetAnswer`, `PersistAnswer` | `setAnswer` with its queue entry and timer; `persistAnswer` |
| `SaveSucceeded`, `SaveConflict`, `Reconcile`, `Unprocessable` | what the handlers of a reply do to queue and revisions |
| `MountFlushDone`, `FinalFlushDone` | `flushDirtyAnswers` on mount and before submission |
| `ConfirmSubmit`, `TimeExpired`, `Submit`, `SubmitReplied` | `executeSubmission`, for the candidate and for the timer |
| `EndExam`, `TelemetryRefused` | the event `proctornet:attempt-expired`, from a 422 of a save (`useAutosave`) and from a 422 or 403 of telemetry (`useProctoringEvents`): the page submits `auto_expired` |
| `Serve` | the server, by the OCC rules of `AnswerRevisions` (`OCC == INSTANCE`) |
| `RequestFails`, `Lose`, `Reload` | a failure the page sees of a request that may still be served; abandoned requests; a new page with the queue of localStorage |

`cause` is history: why the last edit of a question may be missing, and `no` in a row of
`answer`: the edit that the row stands for. A retry that the server recognizes writes nothing, but
the row stands for the later of the two edits from then on (`Confirmed`). That the page never
learns revisions (it reads `revision_id`, the server sends `revision`) is modelled as it is.

### Evaluator and ManualGrading

`Evaluator` has no state. It says what `evaluateQuestionAnswer` and
`aggregateEvaluationResults` compute and what the `CASE` of `saveManualGrade` computes, over
questions as `validateQuestion` and answers as `validateAnswerPayload` let them in.
Numbers count units of 10^-9, one digit more than the 8 decimals to which `evaluator.js`
rounds; its binary floating point is abstracted to exact arithmetic.

`ManualGrading` takes `saveManualGrade` apart into its statements, because under READ
COMMITTED each sees what was committed when it began: `LockGrade` (`SELECT ... FOR UPDATE`,
which locks nothing when there is no row), `WriteGrade` (the `INSERT` waits for a rival's
unique key), `SumGrades`, `UpdateScore` (row lock of `results`), `DeleteCache` (the `DELETE` of the cached
analytics: from then on a report in the table is locked, one that is inserted is not), `CommitGrade`
with the audit record. `ReadScores`, `ReadItems`, `StoreReport` are `getExamAnalytics`, whose items show
manual points of `Subjective` questions only (SHORT_ANSWER, ESSAY, CODE). All attempts of the model
have the same answer sheet.

### ExamLifecycle

One exam. `CheckDraft` reads the status without a lock, `WriteEdit`,
`InsertQuestion`, `DeleteQuestion` write later, `DropCopy` deletes the cached copy last:
four steps of `updateDraftExam`, `configureTopicRule` and `removeTopicRule`.
`ValidateBlueprint`, `PublishExam`, `DropCopyOnPublish` are `publishExam`; `ReadExam`,
`ReadRules`, `CacheExam` the miss path of `getExamById`; `StartAttempt` copies the paper;
`CheckPolicyChange` and `UpdateReleasePolicy` against `EvaluateAttempt` and `ViewResult`
are the release of results. `EndExam` is external: no code ends an exam.

### SessionRoster

A command of `sessions.service.js` is a transaction that locks session, exam and room in
turn (`TakeLock`), checks (`Check`) and writes (`Commit`); `startAttempt` shares its locks.
`Give` has no queue: who waits, waits in `TakeLock` or has not come yet. Sessions start ABSENT;
`CreateSession` inserts an empty one, `ScheduleExam` (faculty) one with the eligible students and the
faculty as invigilator, without looking for conflicts. `ViewSession` is the enrolment inside
`getSessionById`, `SignOff` the one `UPDATE` of `concludeSession`. `startByExam` is `startAttempt` with the
id of an exam: it reads the session's status without a lock (`Give`), locks the exam first, and the
session only through the foreign keys of its `INSERT`s, which do not conflict with an `UPDATE` of the status
but do with `FOR UPDATE`. The code picks the earliest open session of the exam, the model any.

### Interventions

`CheckCommand` is everything before the transaction (idempotency key and status, both
unlocked, and `BEGIN`, which fixes `CURRENT_TIMESTAMP`); `CommitCommand` the
conditional `UPDATE` and the log entry. `LockSession`, `Summarize`, `CommitSignOff` are the
sign-off, whose summary is read by another connection. `StartAttempt` waits for it; `FindSession` and
`StartByExam`, the start by exam id, do not. `LoadPage` and `TimeExpired` are the exam
page with the deadline it loaded: no resume reaches it, because the server emits to
`attempt:<id>` and the page listens to `exam:attempt:<id>`. `TelemetryRefused` and `SubmitRefused` are its
telemetry answered 422 (the attempt is not running) or 403 (the clock or the signature of the request is
off, which may happen at any time), and the `auto_expired` submission that follows.

### Realtime

Connections of one candidate on two nodes, and a dashboard on `Here`. `Connect` evicts the
oldest connection; when that was the only one, its set leaves the map and the new connection is in a set
that nothing finds (`age` stays empty); `Subscribe` and `Authorize` are two steps with everything in between
possible; `Heartbeat`, `PresenceSweep`, `RevocationSweep`, `Close` change presence and may
broadcast. `bus` is Redis Pub/Sub from `There` to `Here`: in order, lossy, `missed` telling
whose latest event did not arrive. `subscribed` and `ready` are the subscriber of `Here`: the first
subscribe may be rejected (there is no offline queue) and is never repeated, so that the `ready` event makes
the node HEALTHY and still deaf; its connection may also close without an error. `There` has only its
`health`: it sends nothing to itself. The page shows everybody ONLINE whom it was not told to be OFFLINE
(`Badge`), also after a new load (`DashLoads`). Only the room `attempt:<id>` is modelled.

## 3. Runs

| Run | Question | Bounds |
|---|---|---|
| `attempt_race` | finalization, replies and final answers under races | 1 attempt, 2 requests at a time, 2 keys, 2 bodies, clock 0..4 |
| `answer_race` | OCC with two tabs | 2 tabs, 2 questions, 2 values, 2 messages in flight |
| `autosave` | is the last edit kept, why does the exam end | 2 questions, 2 values and blank, 3 edits, 2 loads (a 403 of telemetry counts as one), 2 messages in flight |
| `outbox_safety` | claims, budget, refinement | 2 events, 2 processes with 2 overlapping runs, 2 retries, 2 faults |
| `outbox_liveness` | does every event settle | 2 events, 2 processes with 1 run each, 2 faults, pool timeouts |
| `pipeline_safety` | messages, dead letters, results | 1 attempt, 3 messages, 2 handlers, 1 viewer, 2 faults of all six kinds |
| `pipeline_liveness` | announced implies evaluated | 1 attempt, 4 messages, 1 handler, 1 viewer, 1 flag, 1 crash |
| `manual_grading` | scores, audits, cached analytics, both ways of scoring | 2 attempts, 2 graded questions (one of them subjective), 2 graders, 1 reader, 3 grades, a paper of 5 questions |
| `exam_lifecycle` | fixed papers, cached copy, visible results | 2 attempts, 2 questions, 1 editor at a time with 2 edits, 1 change of the policy |
| `session_roster` | deadlocks, capacity, bookings, concluded rosters | 2 sessions, at first absent, 2 exams, 1 room of one place, 2 time windows, 2 candidates, 1 invigilator, 2 transactions, 3 commands, views, schedulings and sign-offs |
| `interventions` | log, keys, deadlines, sign-off | 1 attempt, 2 requests, 1 key, duration 2, session's end 1, clock 0..2, 4 units of work |
| `realtime` | rooms, presence, degradation | 2 connections, 1 allowed per node, 2 messages in flight |

*Why the bounds suffice.* Attempts do not interact, so one is enough where only its row
matters; two requests in flight are the smallest race, and since requests end and begin anew
any sequence of them still happens. In `attempt_race` the clock (window 0..3, duration 2,
extension up to 1, clock to 4) reaches the duration limit, the window's end, and a deadline
extended past it; two keys and two bodies give same key/same body, same key/other body and
other key. Two tabs with two messages in flight let a stale or duplicated
request meet each OCC rule; `MaxVersion` 2 lets it be stale by two, the most that
`IsRetry` and the 0-or-1 rule of inserts tell apart. In `autosave` three edits are one before,
one during and one after a request, and two loads are one reload. Two
processes with two runs each overlap within and across processes; two retries reach the
exhausted budget. Three messages of one attempt hold an original, its unconfirmed copy and a
duplicate at once, and reach every tier and the dead letter queue; two faults combine, e.g. a
crash after an unconfirmed forwarding. In `manual_grading` two graders and three grades
give two first grades of one question, of two questions, and a regrade; a second attempt is
left alone by a cache that mixes them; the paper has a right and a wrong option, and numbers
within and exactly at the tolerance. Two edits and one publication put each write of an edit
before, between and after the reads of the other. Two sessions share a room, an
exam or a window, or none (they are of any exam, and are created with any room and window, which does not
count as a command); three commands are two that race and one that brings about the conflict. In
`interventions` the four units (an entry counts one, its key and its extension one more; a
recorded sign-off and an attempt ended by a 403 two each) reach pause, resume, pause, resume on one
attempt, two entries of one key, or a sign-off with an attempt started after its summary.
Two connections on two nodes with one allowed give the eviction on one
node, the connection that is not counted after it, and the presence of the other. Two connections that are open at
once on one node, where one is allowed, would take a third, which is too much for TLC (over half an hour):
that case of `RoomsHoldRegistered` is covered by its proof only. The proofs of section 5 hold without any
of these bounds.

*Deadlock* is checked for `attempt_race`, `answer_race`, `manual_grading` and
`exam_lifecycle`. It is off where the system may really stop (a dispatcher that a
pool timeout has disabled, a pipeline whose attempts all have their result, a page
that has left for the result, closed connections) or where a run ends at its bound on commands.

*Fairness.* `OutboxRelay!Fairness`: the poller calls the dispatcher again and
again (`startOutboxPoller` with its interval), a run that began continues (the event loop),
backoffs end, stale recovery runs on its own timer. A crashed process is restarted
(its orchestrator does that), so crash and restart are one step. No fairness is assumed of inserts,
faults or crashes. `EvaluationPipeline!Fairness`: handlers progress, the
broker delivers to a subscribed consumer, a TTL ends, the reconnect timer
fires, and the broker closes a channel that does not acknowledge for
too long. `PublisherReconnects` has none: a publisher need not come. The other modules
have no liveness properties: nothing makes a grader, an invigilator or a candidate act.

## 4. Where the code departs from what it says

The properties above are those that hold. Each has its exception named in the formula (a
history variable, an alternative), and the exceptions are these departures. They were
met while modelling and are reachable in the models; none has a run of its own, and
where a formula states what the code or a document promises, it is named.

Attempts, answers, outbox, evaluation:

1. Lazy expiration on read overwrites SUBMITTED or TERMINATED when the other
   transaction commits between its read and its unguarded `UPDATE` (`TerminalIsFinal`).
   The event, the record and the answers stay right (`FinalizedOnce`).
2. An attempt expired on read or on start never gets an event, and cannot be
   submitted afterwards (`ExpiredIsAnnounced`).
3. Clearing restarts revisions at 1, so that a stale save is accepted (`NoBlindOverwrite`).
4. One timeout of `pool.connect()` leaves `isDispatching` set for good. So
   `EveryEventSettles` has the alternative that every process is stuck.
5. The reconnect hooks run only if the timer, not the outbox relay, re-establishes the
   connection (`ConsumerIsRestored`).
6. A PROCTORING_FLAG_RAISED event is routed to the evaluation queue and freezes a result of
   unfinished answers (`ConsumerScoresFinalAnswers`).
7. A broker outage longer than the retry budget ends in a FAILED row that is never
   claimed again, while RB-04 says events accumulate as PENDING.
8. A database error in the consumer's check leaves the message unacknowledged, and when
   the channel is then closed nobody subscribes again.
9. Reading the result of a PAUSED attempt evaluates it for good; the backoff comment in the
   dispatcher says 2, 4, 8 seconds where the code computes 4, 8, 16; without RabbitMQ no poller
   runs, so a failed dispatch waits for the next submission.

Exam page:

10. The page mounts the hook without the saved answers and reads `revision_id` where
    the server sends `revision`: it goes on expecting 0, so the second save of an answered question
    is refused with 409 and dropped. A stale entry in the queue makes each flush and submission fail.
11. Every 422 of a save is taken for the end of the exam: a numeric field left blank, once
    autosaved, ends the exam in the page. So is a 422 or 403 of telemetry (`useProctoringEvents.js:64`), and
    the middleware answers 403 when the page's clock is more than 5 minutes off (`backend/src/middleware/antiTamper.js:106-115`).
12. The page's timer is not told of pauses: it counts down to the deadline it loaded, and
    its automatic submission says `auto_expired`, which the server believes, as it does after 11.
13. A resume whose transaction began before the pause it undoes shortens the deadline.

Grading and results:

14. Two graders of different questions leave a score without one of the grades, although
    the comment says "Atomic Result Recalculation" (`ScoreIsTotal`). A first evaluation does
    not invalidate cached analytics, and a stale report stored between the `DELETE` of a grading and its
    `COMMIT` stays.
15. An MCQ may have several correct options (`validateQuestion` asks for at least one).
    Evaluation then counts only the first, the SQL of manual grading each of them, so grading
    another question changes the score: the two agree only on papers that are `Unambiguous`.
16. Any question may be graded by hand, an MCQ too: its points are then added to the automatic
    ones, and the analytics of its item ignore them. Answers to questions of other types than MCQ, TRUE_FALSE and NUMERIC cannot be saved.
17. Policy changes race with what they check; MANUAL shows SUBMITTED and EXPIRED attempts all the same.

Exams and sessions:

18. An edit checked against the draft may be written after the publication; the paper then differs
    between candidates. Publishing results and changing the release policy do not delete the cached copy of the exam.
19. No code ends an exam, and cancelling one writes a status that the table's `CHECK` refuses.
    `validateExamBlueprint` takes a second connection while `publishExam` holds one; so does the
    sign-off. A pool whose connections all wait for a second one is not modelled.
20. Given an exam's id, `startAttempt` reads the session without a lock: it may join a session concluded
    since, and since it locks the exam before the session, it and a command may wait for each other (PostgreSQL
    then aborts one). `scheduleExam` books candidates and its invigilator without looking for conflicts.
    Looking at a session enrols a student past capacity, conflicts and status: the targets that the
    code compares are not selected by its query. Rescheduling checks no conflicts again; a candidate who is taking the exam
    can be removed; invigilators can be changed in a concluded session.

Interventions and realtime:

21. The idempotency key is looked up before the transaction and not unique; a key of one type of
    command answers another; the interface never sends one. Signing off concludes the session whatever
    runs, its summary omits EXPIRED attempts and those started by exam id after it was taken, also after the
    conclusion, and its audit record may be lost after the commit.
22. In the frontend nobody sends heartbeats and the exam page never joins `attempt:<id>`. Subscribing and
    the revocation sweep set ONLINE without telling anyone; the close of an old connection announces
    OFFLINE while a new one is ONLINE; a node degraded by a failed publication recovers only when its
    subscriber reconnects, and dashboards on other nodes are not told. A candidate is shown ONLINE before any
    event. A node whose first subscribe was rejected becomes HEALTHY when its connection is ready, and one whose
    connection closed without an error stays HEALTHY: both are deaf and nobody knows. With a limit of one
    connection per user, every second one is not counted, and two may be open.

## 5. Proofs

TLAPS checks every theorem for all values of the constants, under only the named `ASSUME`s of
the modules: numbers are numbers, budgets are positive, null values are not data,
questions and answers are as validated. Each follows the same path: an inductive invariant `IInv`,
one step per action, then PTL. `TypeOK` is proved for every module with proofs.

| Theorem | States | Argument |
|---|---|---|
| `AttemptLifecycle_proofs!Finalization`, `CompleteSubmission`, `AgreeingReplies` | `FinalizedOnce`; `SubmittedIsComplete`; `RepliesAgree` | see below |
| `...!NoReopening`, `AnswersFinal` | `NeverReopened`, `AnnouncedAnswersAreFinal` | from the invariant, by action |
| `AnswerRevisions_proofs!NoLostUpdate`, `RevisionsIdentify` | `BlindOnlyAfterClear`, `RevisionNamesVersion` | `RevisionsCount` |
| `OutboxRelay_proofs!RelaySafety`, `ClaimsExclude`, `BudgetSpent` | `PublishedWasDelivered`, `ExclusiveClaims`, `BudgetIsEarned` | see below |
| `...!Refinement` | `ImplementsAtLeastOnce` | each step maps to one abstract step or a stutter |
| `EvaluationPipeline_proofs!NoMessageLost`, `DeadLettering` | `NothingLost`, `DeadLetteredAfterThreeFailures` | see below |
| `...!ResultStability`, `EarlyScoring` | `ResultIsStable`, `EarlyScoresNeedFlags` | by action; closed handlers |
| `Exams_proofs!FixedPaper`, `CurrentCopy`, `HidingOverlaps` | `PublishedPaperIsFixed`, `CopyIsCurrent`, `HiddenOnlyByOverlap` | see below |
| `...!DeadlocksExplained` | `OnlyExamStartsDeadlock` | a transaction with the most locks in the set |
| `...!ConcludedKept`, `CapacityKept`, `BookingsExplained` | `ConcludedRosterIsKept`, `OverfullOnlyByAutoEnrolment`, `DoubleBookingIsExplained` | see below |
| `ManualGrading_proofs!AuditChain`, `ScoresExplained`, `CacheExplained` | `AuditIsAChain`, `ScoreMissesOnlyRacingGrades`, `CacheMissesOnlyOverlaps` | see below |
| `...!ScorersAgree`, `GradesAddUp` | both scorings agree on every `Unambiguous` paper; `GradesOnlyAddPoints` | question by question |
| `Interventions_proofs!KeysOverlap`, `CutOff`, `SignOff`, `Shortened` | `KeyLoggedTwiceOnlyByOverlap`, `CutOffIsExplained`, `SignOffMissesOnlyStartsByExam`, `ShortenedOnlyByStaleResume` | see below |
| `...!LogExplained` | `LogExplainsAttempt` | `LogTells`, and lemmas about sums |
| `Clients_proofs!LastEditKept`, `OvertakenAfterRestore`, `EndsWithReason` | `LastEditIsKept`, `OvertakenOnlyAfterRestore`, `EndsForAReason` | `AutosaveIInv` |
| `...!RoomsAreRegistered`, `DegradedIsAnnounced` | `RoomsHoldRegistered`, `DegradedIsKnown` | the registry; by action |
| `...!OnlineIsOnline`, `OfflineIsExplained` | `ShownOnlineIsOnline`, `ShownOfflineIsExplained` | `RealtimeIInv` |

- *Finalization*: its three invariants are inductive only together and with the types.
  `FinalizeAttempt` appends an event after `CanTransition`, and `FinalizedOnce` says
  that an attempt from which a transition is possible has neither event nor record; so the
  one transaction that finds it ACTIVE writes the first and only one of each. The
  lazy update skips the check, but can only reach EXPIRED, where an event may be missing.
- *NoReopening* needs one more invariant, `ReadRowExists`: a lazy expiration in
  flight has seen a row, and rows do not disappear.
- *AnswerRevisions*: as long as a question was never cleared, `revision = version`
  everywhere (table, tabs, messages), so the revision a request expects says which
  version its sender had read. A clear breaks this equation, and with it the protocol.
- *OutboxRelay*: a run in stage `confirmed` has delivered what it holds; a row held by
  a run is PROCESSING unless it was recovered; two runs holding one row would
  need a second claim of a PROCESSING row.
- *EvaluationPipeline*: an attached handler holds exactly one copy, no
  two the same one; what is about to be acknowledged is evaluated or has a
  copy of a higher tier; a tier is covered by as many failures. So an acknowledgement
  never removes the last trace of an attempt.
- *EarlyScoring*: while `flags = 0`, every message and every working consumer
  belongs to an attempt that has ended, and after that its answers do not change.
- *ExamLifecycle*: a writer of an edit that passed its check and was not yet seen by a publication
  makes the publication `late`; without one, what the publisher validated, the cached copy and the papers
  are all the present questions.
- *SessionRoster*: locks on one row are compatible only if shared, and all but the start by exam id take them
  in the order session, exam, room, three disjoint sets; so in a waiting set without such a start a transaction
  that holds the most locks waits for nobody in it. What `Check` saw of its own session cannot change while the session is locked, what it saw
  of others can: `clashing` remembers it, and a commit that adds to it is in `raced`. What `scheduleExam`
  books is in `unchecked`, so the invariant survives it.
- *ManualGrading*: a grade row, and then the row of `results`, is held by one grading (`RowsLocked`), so what a grading
  read of its grade is still true when it commits (`ReadsHold`). A total in flight that no other commit has
  overtaken is the total of what the grading will leave (`TotalsHold`), hence the score is right after a commit.
  A commit makes the reports under way `behind` about its attempt, and a stored one too, if the grading's `DELETE`
  came before it and found nothing; a row that the `DELETE` did find stays locked until the commit.
  *ScorersAgree* needs unique option ids, one correct option, and a distance that is a multiple of 10^-8; the
  sums are then sums of one and the same function.
- *Interventions*: a request in flight is bounded by what it read (`CommandsHold`: its `read` is a
  position in the log, its key not before it); pages show a deadline that the attempt had, and until a resume
  it is still the deadline (`PagesHold`); a paused attempt's pause is its last entry and not in the future
  (`PausesHold`); while a sign-off runs, no attempt starts but by exam id, and `late` says how many summaries
  that one misses (`SignOffHolds`). Where a page submits because of a 403, `forbidden` remembers it.
- *LogExplained*: `LogExplainsAttempt` does not say that a resume has a pause before it, that an ACTIVE
  attempt is not paused, or that an attempt without a row has no entries; `LogTells` adds these, and with
  `PausesHold` it is inductive: the resume that commits ends the pause since which the row is paused. What it
  adds to the sums follows from lemmas about `SumFunctionOnSet`, which the library defines by a recursive
  function over subsets. Without induction they are proved by minimal counterexample: strict inclusion of
  finite sets is well founded (`FS_StrictSubsetOrderingWellFounded`, `WFMin`), so the set of parts on which
  the claim fails would have a smallest one. First that the recursive function exists and is unique, then that
  a sum is a number, that any element may be taken out first, and that adding one adds its value.
- *Autosave* (`AutosaveIInv`): every queue entry and timer holds the last edit of its question, and
  the page expects a revision other than 0 only after a restore (`PageHolds`); a message carries edits that the candidate made and,
  if it submits, has a reason (`MessagesHold`); a row is an edit of its question, its revision 1 or 2 (`RowsHold`).
  `LastEditIsKept` itself is not inductive, since a reply may delete an entry: `EditsHold` says where an edit
  is that nothing excuses (in its row, or in localStorage while the attempt is ACTIVE), and
  `RepliesHold` what each reply under way will entitle the page to conclude (an `ok` for the entry's edit
  means the row has it; what a submission leaves out is not dirty). Each step is `Calm` about the questions
  not edited in it.
- *Realtime* (`RealtimeIInv`): the registry of a node is a sequence without repetition of open connections of
  the node, of all of them if the limit is more than 1, and no longer than the limit (`Registry`). With a lower
  limit a connection goes uncounted only when another was evicted, so there are no more uncounted ones than
  ended ones (`Counted`, by cardinalities); a room or a presence belongs to a context that is
  still alive (`ContextsHold`). For the dashboard, events in the queue before a
  lost one are not the `latest` of their node, and the last event, if it is, tells its node's state (`BusHolds`);
  once the queue is empty and nothing is missed, what arrived last is true (`DashHolds`). Handlers are either
  `Quiet` (they take no announced presence away) or broadcast the new state.

Every invariant and every action property that a run checks is proved, and the refinement of `AtLeastOnce`.
Only model-checked: liveness (`EveryEventSettles`, `AnnouncedIsEvaluated`), since
fairness and ENABLED are out of the prover's reach. That a fold over questions is a number is not
needed by any proof: totals of grading are elements of the set of all totals. None of the modules uses a
`RECURSIVE` operator.

## 6. Not modelled, and the plan

`components` in `PROJECT.json` gives a reason for each part left out. By size most of the repository is interface
(pages, forms, listings), reporting queries, media and biometric plumbing around external
engines, and deployment: code without a protocol of its own. The parts that have one and are not modelled:

- *auth*: rotation and reuse of refresh tokens, revocation of sessions.
- *proctoring*: windows and deduplication of events; only the flag's effect on evaluation is modelled.
- *evidence*: presigned uploads; the sweeper of orphaned uploads has no caller.
- *media SFU*: rooms, transports and producers of mediasoup workers.
- *RabbitMQ client, consumer*: poison messages, graceful shutdown, connecting during start-up.
- *interventions*: `reportSessionIncident`, which only writes a record.
- *sessions, exams*: candidates' details and listings, the question bank, the random draw from pools.
- *realtime*: the handshake's authentication, rate limits, the room `session:<id>:candidate`.

Abstracted inside the models: answer contents, audit entries of requests, authorization checks (they only
reject), notification broadcasts, HTTP formatting.

What comes next, most important first:

1. **Auth**: refresh rotation with a lost reply and two tabs (no reuse is taken for theft that is a retry).
2. **Proctoring**: flags raised once per window, whatever the order of events.
3. **Pool**: connections as a resource, for the handlers that take a second one while holding one.
4. **Composition**: `EvaluationPipeline` on top of `AtLeastOnce`, so that redelivery comes from the relay
   rather than from a fault, and `AttemptLifecycle` as the implementation of a "finalize once" specification.
5. **Refinement**: a "register with one pending write" that `Autosave` refines, with its proof.
