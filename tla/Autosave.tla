------------------------------- MODULE Autosave -------------------------------
(***************************************************************************)
(* The exam page of one candidate: the autosave hook with its dirty queue, *)
(* debounce timers and localStorage copy (hooks/useAutosave.js), the final *)
(* submission (pages/candidate/ExamTakingPage.jsx), and the server it      *)
(* talks to over HTTP.  Requests overtake each other; the page may see a   *)
(* failure of a request that the server still serves; the tab is reloaded. *)
(* Its telemetry (hooks/useProctoringEvents.js) ends the exam when refused.*)
(***************************************************************************)
EXTENDS Naturals, FiniteSets

CONSTANTS
    Questions,
    Values,         \* answers of the question's type
    Blank,          \* a numeric field left empty: {numeric_value: null}
    NoAnswer,       \* no row in answers: the question is unanswered
    NoItem,         \* no entry, no timer, or a question a request does not touch
    NoQuestion,     \* a request that is not about one question
    MaxEdits,       \* bound on the edits of the candidate
    MaxLoads,       \* bound on the loads of the page and the 403 replies to its telemetry
    MaxRequests     \* bound on the requests under way

ASSUME AutosaveAssumption ==
    /\ Blank \notin Values
    /\ NoItem \notin [no : Nat, value : Values \cup {Blank}, expected : Nat]
    /\ NoAnswer \notin [no : Nat, value : Values, revision : Nat]
    /\ MaxEdits \in Nat /\ MaxLoads \in Nat /\ MaxRequests \in Nat

VARIABLES
    answer,         \* the answers table; no: history, the edit that the row stands for
    attempt,        \* exam_attempts.status
    late,           \* the deadline has passed
    revision,       \* the page's revision_id per question; undefined is read as 0
    queue,          \* dirtyQueueRef
    stored,         \* the dirty queue in localStorage
    timer,          \* debounceTimersRef: the save each pending timer will send
    net,            \* requests and replies in the network
    load,           \* how many times the page was loaded
    taking,         \* the page shows the exam
    submitting,     \* isSubmitting
    flow,           \* the two callers of executeSubmission: the user and the exam timer
    edits,          \* history: the candidate's edits so far
    latest,         \* history: the last edit of each question
    asked,          \* history: the candidate pressed submit
    forbidden,      \* history: telemetry was answered 403
    cause           \* history: why the last edit of a question may be missing

autosaveVars == <<answer, attempt, late, revision, queue, stored, timer, net, load, taking,
          submitting, flow, edits, latest, asked, forbidden, cause>>
serverVars == <<answer, attempt>>
hookVars == <<revision, queue, stored, timer>>
pageVars == <<load, taking, submitting, flow>>
historyVars == <<edits, latest, asked, forbidden>>

\* The rules of saveAnswer, batchSaveAnswers and submitAttempt on revisions.
OCC == INSTANCE AnswerRevisions WITH
    Clients <- {}, MaxVersion <- 0, MaxInFlight <- MaxRequests, version <- 0, known <- 0,
    inFlight <- {}, active <- TRUE, blind <- {}, cleared <- {}

Edit == [no : Nat, value : Values \cup {Blank}]
NoEdit == [no |-> 0, value |-> Blank]
Item == [no : Nat, value : Values \cup {Blank}, expected : Nat]
Row == [no : Nat, value : Values, revision : Nat]
Flows == {"page", "timer"}
Kinds == {"save", "reconcile", "flush", "submit"}
\* What the server answered: "none" while it has not.
Replies == {"none", "ok", "conflict", "invalid", "ended"}
Message == [kind : Kinds, awaited : BOOLEAN, flow : Flows \cup {"mount"},
            question : Questions \cup {NoQuestion},
            items : [Questions -> Item \cup {NoItem}], auto : BOOLEAN, reply : Replies]

\* "overlapped": edited while a request was under way whose reply drops the entry;
\* "rejected": the server refused it; "overtaken": an older edit was written over it;
\* "restored": an entry of the question was recovered from localStorage.
Causes == {"overlapped", "rejected", "overtaken", "restored", "blanked"}

AutosaveTypeOK ==
    /\ answer \in [Questions -> Row \cup {NoAnswer}]
    /\ attempt \in {"ACTIVE", "SUBMITTED", "EXPIRED"} /\ late \in BOOLEAN
    /\ revision \in [Questions -> Nat]
    /\ queue \in [Questions -> Item \cup {NoItem}]
    /\ stored \in [Questions -> Item \cup {NoItem}]
    /\ timer \in [Questions -> Item \cup {NoItem}]
    /\ net \subseteq Message
    /\ load \in Nat /\ taking \in BOOLEAN /\ submitting \in BOOLEAN
    /\ flow \in [Flows -> {"idle", "flushing", "submitting", "over"}]
    /\ edits \in Nat /\ latest \in [Questions -> Edit] /\ asked \in BOOLEAN
    /\ forbidden \in BOOLEAN
    /\ cause \in [Questions -> SUBSET Causes]

Nothing == [q \in Questions |-> NoItem]

\* The page mounts before the saved answers are fetched, so it starts from none.
AutosaveInit ==
    /\ answer = [q \in Questions |-> NoAnswer] /\ attempt = "ACTIVE" /\ late = FALSE
    /\ revision = [q \in Questions |-> 0]
    /\ queue = Nothing /\ stored = Nothing /\ timer = Nothing
    /\ net = {} /\ load = 1 /\ taking = TRUE /\ submitting = FALSE
    /\ flow = [f \in Flows |-> "idle"]
    /\ edits = 0 /\ latest = [q \in Questions |-> NoEdit] /\ asked = FALSE
    /\ forbidden = FALSE
    /\ cause = [q \in Questions |-> {}]

Request(kind, f, q, items, auto) ==
    [kind |-> kind, awaited |-> TRUE, flow |-> f, question |-> q, items |-> items,
     auto |-> auto, reply |-> "none"]

\* Bound: the network has room for another request.
Room == Cardinality(net) < MaxRequests

Touched(m) == {q \in Questions : m.items[q] # NoItem}
Only(q, item) == [Nothing EXCEPT ![q] = item]

(***************************************************************************)
(* The hook: setAnswer and the debounced persistAnswer.                    *)
(***************************************************************************)
\* A reply under way deletes the queue entry of q, whatever it holds by then, or
\* a submission, whose reply the page may have missed, comes before the edit.
MayDrop(q) ==
    \/ attempt # "ACTIVE"
    \/ \E m \in net : \/ m.awaited /\ (m.question = q \/ m.kind = "flush")
                      \/ m.kind = "submit"

\* Bound: MaxEdits edits of one question, fewer when several are edited.
MayEdit(q) == edits + Cardinality({p \in Questions \ {q} : latest[p].no > 0}) < MaxEdits

SetAnswer(q, v) ==
    LET item == [no |-> edits + 1, value |-> v, expected |-> revision[q]]
    IN  /\ taking /\ ~submitting /\ ~late /\ MayEdit(q)
        /\ edits' = edits + 1
        /\ latest' = [latest EXCEPT ![q] = [no |-> edits + 1, value |-> v]]
        /\ queue' = [queue EXCEPT ![q] = item]
        /\ stored' = queue'
        /\ timer' = [timer EXCEPT ![q] = item]
        /\ cause' = [cause EXCEPT ![q] = (@ \ {"overlapped", "rejected", "overtaken"})
                                         \cup (IF MayDrop(q) THEN {"overlapped"} ELSE {})]
        /\ UNCHANGED <<answer, attempt, late, revision, net, pageVars, asked, forbidden>>

\* One second after the last edit of q its save is sent.
PersistAnswer(q) ==
    /\ timer[q] # NoItem /\ Room
    /\ timer' = [timer EXCEPT ![q] = NoItem]
    /\ net' = net \cup {Request("save", "page", q, Only(q, timer[q]), FALSE)}
    /\ UNCHANGED <<serverVars, late, revision, queue, stored, pageVars, historyVars, cause>>

(***************************************************************************)
(* The server.  Each handler is one transaction under the attempt lock.    *)
(***************************************************************************)
Kind(m) == IF m.kind = "flush" THEN "batch" ELSE m.kind

\* Mutant: the revision is not compared.
Writes_NoCheck(m, q) == TRUE

Writes(m, q) == OCC!Writes(Kind(m), q, m.items[q])

\* Mutant: the value is not validated.
Acceptable_AnyValue(m, q) == Writes(m, q) \/ OCC!IsRetry(q, m.items[q])

Acceptable(m, q) == m.items[q].value # Blank /\ (Writes(m, q) \/ OCC!IsRetry(q, m.items[q]))

\* The row after an item that is a retry: nothing is written, but it now stands for
\* the later of both edits.
Confirmed(row, item) == [row EXCEPT !.no = IF item.no > @ THEN item.no ELSE @]

\* The answers after the items of m are applied, all of them or none.
Applied(m) == [q \in Questions |->
    IF q \notin Touched(m) THEN answer[q]
    ELSE IF Writes(m, q)
         THEN [no |-> m.items[q].no, value |-> m.items[q].value, revision |-> OCC!NextRevision(q)]
         ELSE Confirmed(answer[q], m.items[q])]

\* An edit older than the answer it replaces.
Overtaken(m) == {q \in Touched(m) : answer[q] # NoAnswer /\ Applied(m)[q].no < answer[q].no}

\* The reply is on its way, unless the page has given the request up.
Reply(m, r) == net' = (net \ {m}) \cup {n \in {[m EXCEPT !.reply = r]} : m.awaited}

Mark(questions, c) ==
    cause' = [q \in Questions |-> IF q \in questions THEN cause[q] \cup {c} ELSE cause[q]]

\* A save or batch in time; a submission at any time, which finishes the attempt.
Accept(m) ==
    /\ m.reply = "none" /\ m.kind \in {"save", "flush", "submit"}
    /\ attempt = "ACTIVE" /\ (m.kind = "submit" \/ ~late)
    /\ \A q \in Touched(m) : Acceptable(m, q)
    /\ answer' = Applied(m)
    /\ attempt' = IF m.kind # "submit" THEN "ACTIVE"
                  ELSE IF late \/ m.auto THEN "EXPIRED" ELSE "SUBMITTED"
    /\ Reply(m, "ok")
    /\ Mark(Overtaken(m), "overtaken")
    /\ UNCHANGED <<late, hookVars, pageVars, historyVars>>

\* 409 on a stale revision, 422 on a blank value: nothing of the request is applied.
Refuse(m) ==
    /\ m.reply = "none" /\ m.kind \in {"save", "flush", "submit"}
    /\ attempt = "ACTIVE" /\ (m.kind = "submit" \/ ~late)
    /\ \E q \in Touched(m) :
         /\ ~Acceptable(m, q)
         /\ Reply(m, IF m.items[q].value = Blank THEN "invalid" ELSE "conflict")
         /\ Mark({q} \cap {p \in Questions : latest[p].no = m.items[q].no}, "rejected")
    /\ UNCHANGED <<serverVars, late, hookVars, pageVars, historyVars>>

\* Past the deadline, or on a finished attempt: 422, or the attempt expires first.
RefuseEnded(m) ==
    /\ m.reply = "none" /\ m.kind # "reconcile"
    /\ attempt # "ACTIVE" \/ (late /\ m.kind # "submit")
    /\ attempt' = IF attempt = "ACTIVE" THEN "EXPIRED" ELSE attempt
    /\ Reply(m, "ended")
    /\ UNCHANGED <<answer, late, hookVars, pageVars, historyVars, cause>>

\* GET answers, which expires an attempt past its deadline.
GetAnswers(m) ==
    /\ m.reply = "none" /\ m.kind = "reconcile"
    /\ attempt' = IF attempt = "ACTIVE" /\ late THEN "EXPIRED" ELSE attempt
    /\ Reply(m, "ok")
    /\ UNCHANGED <<answer, late, hookVars, pageVars, historyVars, cause>>

(***************************************************************************)
(* executeSubmission: flush the queue, then submit what is left in it.     *)
(***************************************************************************)
\* Mutant: the submission relies on the batch before it.
Submit_NoAnswers(f, rest, auto) == Request("submit", f, NoQuestion, Nothing, auto)

Submit(f, rest, auto) == Request("submit", f, NoQuestion, rest, auto)

\* The timers are cancelled; an empty queue needs no batch.
StartSubmission(f, dirty, auto, others) ==
    /\ submitting' = TRUE
    /\ timer' = Nothing
    /\ IF dirty = Nothing
       THEN /\ flow' = [flow EXCEPT ![f] = "submitting"]
            /\ net' = others \cup {Submit(f, Nothing, auto)}
       ELSE /\ flow' = [flow EXCEPT ![f] = "flushing"]
            /\ net' = others \cup {Request("flush", f, NoQuestion, dirty, auto)}

\* The candidate confirms; a submission under way is not started again.
ConfirmSubmit ==
    /\ taking /\ ~submitting /\ Room
    /\ asked' = TRUE
    /\ StartSubmission("page", queue, FALSE, net)
    /\ UNCHANGED <<serverVars, late, revision, queue, stored, load, taking, edits, latest, forbidden,
                   cause>>

\* onTimeExpired keeps the first render's executeSubmission, which never sees
\* isSubmitting: it starts beside a submission of the candidate.
TimeExpired ==
    /\ taking /\ late /\ flow["timer"] = "idle" /\ Room
    /\ StartSubmission("timer", queue, TRUE, net)
    /\ UNCHANGED <<serverVars, late, revision, queue, stored, load, taking, historyVars, cause>>

\* proctornet:attempt-expired from useProctoringEvents, which runs until the timer has:
\* POST /attempts/:id/events is answered 422 when the attempt is over, and 403, at any time,
\* when the clock of the page or its signature is off.  Bound: a 403 counts as a load.
TelemetryRefused ==
    /\ taking /\ ~submitting /\ flow["timer"] = "idle" /\ Room
    /\ \/ (attempt # "ACTIVE" \/ late) /\ UNCHANGED forbidden
       \/ ~forbidden /\ load < MaxLoads /\ forbidden' = TRUE
    /\ StartSubmission("page", queue, TRUE, net)
    /\ UNCHANGED <<serverVars, late, revision, queue, stored, load, taking, edits, latest, asked,
                   cause>>

\* The queue entries in `gone` are deleted, here and in localStorage.
Dequeue(gone) ==
    /\ queue' = [q \in Questions |-> IF q \in gone THEN NoItem ELSE queue[q]]
    /\ stored' = queue'

(***************************************************************************)
(* Replies reach the page that asked.                                      *)
(***************************************************************************)
Mine(m) == m.reply # "none" /\ m.awaited

\* Requests the page no longer waits for may still be served.
Orphans(requests) == {[m EXCEPT !.awaited = FALSE] : m \in {n \in requests : n.reply = "none"}}

\* 200: the reply has no revision_id, so the next edit expects 0 again.
SaveSucceeded(m) ==
    /\ Mine(m) /\ m.kind = "save" /\ m.reply = "ok"
    /\ revision' = [revision EXCEPT ![m.question] = 0]
    /\ Dequeue({m.question})
    /\ net' = net \ {m}
    /\ UNCHANGED <<serverVars, late, timer, pageVars, historyVars, cause>>

\* 409: the answers are fetched again; until they arrive the entry stays.
SaveConflict(m) ==
    /\ Mine(m) /\ m.kind = "save" /\ m.reply = "conflict"
    /\ net' = (net \ {m}) \cup {Request("reconcile", "page", m.question, Nothing, FALSE)}
    /\ UNCHANGED <<serverVars, late, hookVars, pageVars, historyVars, cause>>

\* The server's answers replace the page's, and no row of them has a revision_id.
Reconcile(m) ==
    /\ Mine(m) /\ m.kind = "reconcile"
    /\ revision' = [q \in Questions |-> 0]
    /\ Dequeue({m.question})
    /\ net' = net \ {m}
    /\ UNCHANGED <<serverVars, late, timer, pageVars, historyVars, cause>>

\* Any 422 is taken for the end of the exam: the entries go, and the exam is submitted.
EndExam(m, gone) ==
    /\ Dequeue(gone)
    /\ Mark(IF m.reply = "invalid" THEN Questions ELSE {}, "blanked")
    /\ IF submitting
       THEN net' = net \ {m} /\ UNCHANGED <<timer, submitting, flow>>
       ELSE StartSubmission("page", queue', TRUE, net \ {m})
    /\ UNCHANGED <<serverVars, late, revision, load, taking, historyVars>>

\* Mutant: a conflict is taken for the deadline as well.
Unprocessable_AnyError(m) ==
    /\ Mine(m) /\ m.reply \in {"invalid", "ended", "conflict"}
    /\ \/ m.kind = "save" /\ EndExam(m, {m.question})
       \/ m.kind = "flush" /\ m.flow = "mount" /\ EndExam(m, Questions)

Unprocessable(m) ==
    /\ Mine(m) /\ m.reply \in {"invalid", "ended"}
    /\ \/ m.kind = "save" /\ EndExam(m, {m.question})
       \/ m.kind = "flush" /\ m.flow = "mount" /\ EndExam(m, Questions)

\* The recovered queue was saved, or is kept.
MountFlushDone(m) ==
    /\ Mine(m) /\ m.kind = "flush" /\ m.flow = "mount" /\ m.reply \in {"ok", "conflict"}
    /\ Dequeue(IF m.reply = "ok" THEN Questions ELSE {})
    /\ net' = net \ {m}
    /\ UNCHANGED <<serverVars, late, revision, timer, pageVars, historyVars, cause>>

\* Whatever the batch's outcome, the submission follows with what is still queued.
FinalFlushDone(m) ==
    /\ Mine(m) /\ m.kind = "flush" /\ m.flow # "mount"
    /\ Dequeue(IF m.reply = "conflict" THEN {} ELSE Questions)
    /\ Mark(IF m.reply = "invalid" THEN Questions ELSE {}, "blanked")
    /\ flow' = [flow EXCEPT ![m.flow] = "submitting"]
    /\ net' = (net \ {m}) \cup {Submit(m.flow, queue', m.auto)}
    /\ UNCHANGED <<serverVars, late, revision, timer, load, taking, submitting, historyVars>>

EndFlow(f) ==
    /\ submitting' = FALSE
    /\ flow' = [flow EXCEPT ![f] = IF f = "timer" THEN "over" ELSE "idle"]

\* Submitted: on to the result page.  A finished attempt: there as well, or an error.
SubmitReplied(m) ==
    /\ Mine(m) /\ m.kind = "submit"
    /\ EndFlow(m.flow)
    /\ \/ m.reply \in {"ok", "ended"} /\ taking' = FALSE /\ net' = Orphans(net)
       \/ m.reply # "ok" /\ taking' = taking /\ net' = net \ {m}
    /\ UNCHANGED <<serverVars, late, hookVars, load, historyVars, cause>>

(***************************************************************************)
(* The network and the tab.                                                *)
(***************************************************************************)
\* A request the page counts as failed is lost or still served, or its reply is
\* lost.  A save, batch or fetch that fails leaves the queue alone.
RequestFails(m) ==
    LET rest == (net \ {m}) \cup Orphans({m})
    IN  /\ m.awaited
        /\ \/ /\ m.kind \in {"save", "reconcile"} \/ m.flow = "mount"
              /\ net' = rest
              /\ UNCHANGED <<submitting, flow>>
           \/ /\ m.kind = "flush" /\ m.flow # "mount"
              /\ flow' = [flow EXCEPT ![m.flow] = "submitting"]
              /\ net' = rest \cup {Submit(m.flow, queue, m.auto)}
              /\ UNCHANGED submitting
           \/ /\ m.kind = "submit"
              /\ net' = rest
              /\ EndFlow(m.flow)
        /\ UNCHANGED <<serverVars, late, hookVars, load, taking, historyVars, cause>>

\* A request nobody waits for is lost.
Lose(m) ==
    /\ ~m.awaited
    /\ net' = net \ {m}
    /\ UNCHANGED <<serverVars, late, hookVars, pageVars, historyVars, cause>>

\* data.expected_revision || 1
RecoveredRevision(q) ==
    IF stored[q] = NoItem THEN 0 ELSE IF stored[q].expected = 0 THEN 1 ELSE stored[q].expected

\* The queue is recovered and flushed at once; a finished attempt leads to its result.
Reload ==
    /\ taking /\ load < MaxLoads /\ ~forbidden /\ Room
    /\ load' = load + 1
    /\ queue' = stored /\ timer' = Nothing
    /\ revision' = [q \in Questions |-> RecoveredRevision(q)]
    /\ Mark({q \in Questions : stored[q] # NoItem}, "restored")
    /\ taking' = (attempt = "ACTIVE")
    /\ net' = Orphans(net) \cup
              {n \in {Request("flush", "mount", NoQuestion, stored, FALSE)} : stored # Nothing}
    /\ submitting' = FALSE /\ flow' = [f \in Flows |-> "idle"]
    /\ UNCHANGED <<serverVars, late, stored, historyVars>>

DeadlinePasses ==
    /\ ~late /\ late' = TRUE
    /\ UNCHANGED <<serverVars, hookVars, net, pageVars, historyVars, cause>>

Handle(m) ==
    \/ SaveSucceeded(m) \/ SaveConflict(m) \/ Reconcile(m) \/ Unprocessable(m)
    \/ MountFlushDone(m) \/ FinalFlushDone(m) \/ SubmitReplied(m)

Serve(m) == Accept(m) \/ Refuse(m) \/ RefuseEnded(m) \/ GetAnswers(m)

\* Bound: nothing is written to an EXPIRED attempt any more (every handler refuses),
\* so what the page still asks of it is not explored.
AutosaveNext ==
    /\ attempt # "EXPIRED"
    /\ \/ \E q \in Questions : \/ \E v \in Values \cup {Blank} : SetAnswer(q, v)
                               \/ PersistAnswer(q)
       \/ ConfirmSubmit \/ TimeExpired \/ TelemetryRefused
       \/ \E m \in net : Serve(m) \/ Handle(m) \/ RequestFails(m) \/ Lose(m)
       \/ Reload \/ DeadlinePasses

AutosaveSpec == AutosaveInit /\ [][AutosaveNext]_autosaveVars

(***************************************************************************)
(* Properties.                                                             *)
(***************************************************************************)
OnServer(q) == answer[q] # NoAnswer /\ answer[q].value = latest[q].value
Recoverable(q) == stored[q] # NoItem /\ stored[q].no = latest[q].no
Excused(q) == cause[q] \cap {"overlapped", "rejected", "overtaken", "blanked"} # {}

\* The candidate's last edit of a question is on the server or, while the exam
\* runs, in localStorage, through reloads, failed requests and lost replies; a
\* submitted exam holds it. It is lost only when the server refused it, an older
\* request overtook it, or a request was under way whose reply deletes the entry.
LastEditIsKept ==
    \A q \in Questions : latest[q].no > 0 /\ attempt \in {"ACTIVE", "SUBMITTED"} =>
        OnServer(q) \/ (attempt = "ACTIVE" /\ Recoverable(q)) \/ Excused(q)

\* An older edit replaces a newer one only on a question that was recovered from
\* localStorage, where the page expects revision 1 of an unanswered question.
OvertakenOnlyAfterRestore ==
    \A q \in Questions : "overtaken" \in cause[q] => "restored" \in cause[q]

\* The exam ends when the candidate submits it, at its deadline, or because the page takes
\* for the deadline every 422 of a save, so also that of a blank answer, and a 403 of telemetry.
EndsForAReason ==
    /\ attempt = "SUBMITTED" => asked
    /\ attempt = "EXPIRED" => late \/ forbidden \/ \E q \in Questions : "blanked" \in cause[q]
===============================================================================
