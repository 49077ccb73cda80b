---------------------------- MODULE ExamLifecycle ----------------------------
(***************************************************************************)
(* One exam from its draft to the release of its results: drafting and     *)
(* publishing (modules/exams), the cached copy that readers get, its       *)
(* scheduling (modules/sessions, modules/faculty), the question papers of  *)
(* the attempts, and what candidates may see (modules/results).            *)
(*                                                                         *)
(* Drafting checks the status and writes later, without a transaction;     *)
(* publishing and the release policy hold the row lock of the exam.        *)
(***************************************************************************)
EXTENDS FiniteSets, Naturals

CONSTANTS
    Attempts,
    Questions,      \* PUBLISHED questions of the exam's pool
    Durations,      \* values of the exam's attributes that an edit may set
    Requests,       \* connections of requests that edit the draft
    Nothing,        \* no request, copy, attempt or transaction
    MaxEdits,       \* bound on the edits of the draft
    MaxChanges      \* bound on the changes of the release policy

ASSUME ExamAssumption == Questions # {} /\ MaxEdits \in Nat /\ MaxChanges \in Nat

VARIABLES
    exam,       \* exams: status, attributes, release policy, release time reached
    questions,  \* exam_questions
    request,    \* the requests that edit the draft
    edits,      \* how many were begun
    publisher,  \* publishExam
    cache,      \* Redis v1:exam:<id>
    reader,     \* getExamById after a cache miss
    attempt,    \* exam_attempts with their attempt_questions
    evaluated,  \* attempts that have a row in results
    change,     \* the running transaction of updateReleasePolicy
    changes,    \* how many were begun
    late,       \* history: an edit passed its check in DRAFT and was written after
    seen,       \* history: attempts whose result was shown to the candidate
    overtaken   \* history: attempts that became visible during a change of the policy

examVars == <<exam, questions, request, edits, publisher, cache, reader, attempt, evaluated,
              change, changes, late, seen, overtaken>>
draftVars == <<questions, request, edits, late>>
copyVars == <<cache, reader>>
attemptVars == <<attempt, evaluated>>
releaseVars == <<change, changes, seen, overtaken>>

\* SCHEDULED stands for LIVE too, and ENDED for EVALUATED.
Statuses == {"DRAFT", "PUBLISHED", "SCHEDULED", "ENDED", "RESULT_PUBLISHED"}
Policies == {"IMMEDIATE", "SCHEDULED", "MANUAL"}
Exam == [status : Statuses, duration : Durations, policy : Policies, due : BOOLEAN]
\* An edit sets the attributes; add inserts its questions one by one; remove
\* deletes one.
Edit == [kind : {"edit"}, duration : Durations] \cup [kind : {"remove"}, question : Questions]
        \cup [kind : {"add"}, left : SUBSET Questions]
Request == [pc : {"checked", "written"}, began : Statuses, edit : Edit]
Copy == [status : Statuses, duration : Durations, questions : SUBSET Questions]
Attempt == [status : {"ACTIVE", "SUBMITTED", "TERMINATED"}, paper : SUBSET Questions]
Change == [policy : Policies, evaluated : SUBSET Attempts, due : BOOLEAN]

ExamTypeOK ==
    /\ exam \in Exam /\ questions \subseteq Questions
    /\ request \in [Requests -> Request \cup {Nothing}]
    /\ edits \in Nat /\ publisher \in {"idle", "validated", "committed"}
    /\ cache \in Copy \cup {Nothing} /\ (cache # Nothing => cache.status = "PUBLISHED")
    /\ reader \in {Nothing} \cup [pc : {"exam", "rules"}, copy : Copy]
    /\ attempt \in [Attempts -> Attempt \cup {Nothing}] /\ evaluated \subseteq Attempts
    /\ change \in Change \cup {Nothing} /\ changes \in Nat
    /\ late \in BOOLEAN /\ seen \subseteq Attempts /\ overtaken \subseteq Attempts

\* createExam starts a draft; scheduleExam stores a scheduled exam at once.
ExamInit ==
    /\ \/ /\ questions = {}
          /\ exam \in [status : {"DRAFT"}, duration : Durations, policy : {"MANUAL"}, due : {FALSE}]
       \/ /\ questions \in (SUBSET Questions) \ {{}}
          /\ exam \in [status : {"SCHEDULED"}, duration : Durations,
                       policy : {"IMMEDIATE"}, due : {FALSE}]
    /\ request = [r \in Requests |-> Nothing] /\ edits = 0 /\ publisher = "idle"
    /\ cache = Nothing /\ reader = Nothing
    /\ attempt = [a \in Attempts |-> Nothing] /\ evaluated = {}
    /\ change = Nothing /\ changes = 0 /\ late = FALSE /\ seen = {} /\ overtaken = {}

\* The row of the exam is locked FOR UPDATE.
Locked == publisher = "validated" \/ change # Nothing

(***************************************************************************)
(* Drafting.                                                               *)
(***************************************************************************)
\* Mutant: the status of the exam is not checked.
Editable_Always == TRUE
\* assertExamCanBeMutated
Editable == exam.status = "DRAFT"

\* updateDraftExam, configureTopicRule, removeTopicRule: the read and the checks.
CheckDraft(r, e) ==
    /\ request[r] = Nothing /\ edits < MaxEdits /\ edits' = edits + 1 /\ Editable
    /\ request' = [request EXCEPT ![r] = [pc |-> "checked", began |-> exam.status, edit |-> e]]
    /\ UNCHANGED <<exam, questions, publisher, late, copyVars, attemptVars, releaseVars>>

\* An edit that began in DRAFT lands while, or after, the exam is published.
LateAfter(r) ==
    \/ late
    \/ /\ request[r].began = "DRAFT"
       /\ publisher = "validated" \/ exam.status # "DRAFT"

Due(r, kind) == request[r] # Nothing /\ request[r].pc = "checked" /\ request[r].edit.kind = kind

\* updateExam waits for the lock of the row.
WriteEdit(r) ==
    /\ Due(r, "edit") /\ ~Locked
    /\ exam' = [exam EXCEPT !.duration = request[r].edit.duration]
    /\ request' = [request EXCEPT ![r].pc = "written"] /\ late' = LateAfter(r)
    /\ UNCHANGED <<questions, edits, publisher, copyVars, attemptVars, releaseVars>>

\* addOrUpdateTopicRule: each INSERT waits for the lock too, through its foreign key.
InsertQuestion(r) ==
    /\ Due(r, "add") /\ ~Locked
    /\ \E q \in request[r].edit.left :
          LET left == request[r].edit.left \ {q} IN
          /\ questions' = questions \cup {q}
          /\ request' = [request EXCEPT ![r].edit.left = left,
                                        ![r].pc = IF left = {} THEN "written" ELSE @]
    /\ late' = LateAfter(r)
    /\ UNCHANGED <<exam, edits, publisher, copyVars, attemptVars, releaseVars>>

\* deleteTopicRule does not touch the exam's row; a missing rule is answered 404.
DeleteQuestion(r) ==
    /\ Due(r, "remove")
    /\ questions' = questions \ {request[r].edit.question}
    /\ request' = [request EXCEPT ![r] = IF @.edit.question \in questions
                                         THEN [@ EXCEPT !.pc = "written"] ELSE Nothing]
    /\ late' = LateAfter(r)
    /\ UNCHANGED <<exam, edits, publisher, copyVars, attemptVars, releaseVars>>

\* cacheService.del, which a Redis failure makes a no-op.
DropCopy(r) ==
    /\ request[r] # Nothing /\ request[r].pc = "written"
    /\ request' = [request EXCEPT ![r] = Nothing] /\ cache' \in {Nothing, cache}
    /\ UNCHANGED <<exam, questions, edits, publisher, reader, late, attemptVars, releaseVars>>

(***************************************************************************)
(* Publishing, and the copy that readers get.                              *)
(***************************************************************************)
BlueprintIsValid == questions # {}

\* The lock, the transition DRAFT -> PUBLISHED and validateExamBlueprint.
ValidateBlueprint ==
    /\ publisher = "idle" /\ ~Locked /\ exam.status = "DRAFT" /\ BlueprintIsValid
    /\ publisher' = "validated"
    /\ UNCHANGED <<exam, draftVars, copyVars, attemptVars, releaseVars>>

\* The update and the commit; or the transaction fails.
PublishExam ==
    /\ publisher = "validated"
    /\ \/ publisher' = "committed" /\ exam' = [exam EXCEPT !.status = "PUBLISHED"]
       \/ publisher' = "idle" /\ UNCHANGED exam
    /\ UNCHANGED <<draftVars, copyVars, attemptVars, releaseVars>>

DropCopyOnPublish ==
    /\ publisher = "committed" /\ publisher' = "idle" /\ cache' \in {Nothing, cache}
    /\ UNCHANGED <<exam, draftVars, reader, attemptVars, releaseVars>>

\* getExamById: the cache misses (or Redis fails), the exam is read ...
ReadExam ==
    /\ reader = Nothing
    /\ reader' = [pc |-> "exam", copy |-> [status |-> exam.status, duration |-> exam.duration, questions |-> {}]]
    /\ UNCHANGED <<exam, draftVars, publisher, cache, attemptVars, releaseVars>>

\* ... then its rules ...
ReadRules ==
    /\ reader # Nothing /\ reader.pc = "exam"
    /\ reader' = [reader EXCEPT !.pc = "rules", !.copy.questions = questions]
    /\ UNCHANGED <<exam, draftVars, publisher, cache, attemptVars, releaseVars>>

\* Mutant: a draft is cached like a published exam.
Cacheable_Draft(copy) == TRUE
Cacheable(copy) == copy.status = "PUBLISHED"

\* ... and only a published exam is cached.
CacheExam ==
    /\ reader # Nothing /\ reader.pc = "rules"
    /\ cache' \in IF Cacheable(reader.copy) THEN {reader.copy, cache} ELSE {cache}
    /\ reader' = Nothing
    /\ UNCHANGED <<exam, draftVars, publisher, attemptVars, releaseVars>>

\* The copy's hour is over.
CopyExpires ==
    /\ cache # Nothing /\ cache' = Nothing
    /\ UNCHANGED <<exam, draftVars, publisher, reader, attemptVars, releaseVars>>

(***************************************************************************)
(* Scheduling, attempts and their evaluation.                              *)
(***************************************************************************)
\* createSession: the first session of a published exam schedules it.
ScheduleSession ==
    /\ ~Locked /\ exam.status = "PUBLISHED"
    /\ exam' = [exam EXCEPT !.status = "SCHEDULED"]
    /\ UNCHANGED <<draftVars, publisher, copyVars, attemptVars, releaseVars>>

\* Outside of the code of this repository: nothing in it ends an exam.
EndExam ==
    /\ ~Locked /\ exam.status = "SCHEDULED"
    /\ exam' = [exam EXCEPT !.status = "ENDED"]
    /\ UNCHANGED <<draftVars, publisher, copyVars, attemptVars, releaseVars>>

\* getQuestionsForExam: without questions of its own, the exam takes the whole pool.
Paper == IF questions = {} THEN Questions ELSE questions

\* startAttempt needs a session, and locks the exam FOR SHARE.
StartAttempt(a) ==
    /\ attempt[a] = Nothing /\ exam.status = "SCHEDULED" /\ ~Locked
    /\ attempt' = [attempt EXCEPT ![a] = [status |-> "ACTIVE", paper |-> Paper]]
    /\ UNCHANGED <<exam, draftVars, publisher, copyVars, evaluated, releaseVars>>

EndAttempt(a, status) ==
    /\ attempt[a] # Nothing /\ attempt[a].status = "ACTIVE"
    /\ attempt' = [attempt EXCEPT ![a].status = status]
    /\ UNCHANGED <<exam, draftVars, publisher, copyVars, evaluated, releaseVars>>

\* By the consumer, or on demand of a candidate: getCandidateAttemptResult.
EvaluateAttempt(a) ==
    /\ a \notin evaluated /\ attempt[a] # Nothing /\ attempt[a].status # "ACTIVE"
    /\ evaluated' = evaluated \cup {a}
    /\ UNCHANGED <<exam, draftVars, publisher, copyVars, attempt, releaseVars>>

(***************************************************************************)
(* Release of the results.                                                 *)
(***************************************************************************)
\* is_candidate_visible; getCandidateAttemptResult forces it for submitted ones.
Visible(a) ==
    \/ exam.status = "RESULT_PUBLISHED"
    \/ attempt[a].status = "SUBMITTED"
    \/ exam.policy = "IMMEDIATE"
    \/ exam.status = "ENDED" /\ exam.policy = "SCHEDULED" /\ exam.due

ViewResult(a) ==
    /\ a \in evaluated /\ Visible(a)
    /\ seen' = seen \cup {a}
    /\ UNCHANGED <<exam, draftVars, publisher, copyVars, attemptVars, change, changes, overtaken>>

PublishExamResults ==
    /\ ~Locked /\ exam.status = "ENDED"
    /\ exam' = [exam EXCEPT !.status = "RESULT_PUBLISHED"]
    /\ UNCHANGED <<draftVars, publisher, copyVars, attemptVars, releaseVars>>

\* Mutant: IMMEDIATE counts only once the exam has ended, as in the domain's rule.
HasCandidateVisibleResults_Ended == exam.status = "ENDED" /\ \E a \in evaluated : Visible(a)
HasCandidateVisibleResults == \E a \in evaluated : Visible(a)

\* The checks of updateReleasePolicy, with the exam locked.
CheckPolicyChange(p) ==
    /\ ~Locked /\ changes < MaxChanges /\ exam.status # "RESULT_PUBLISHED"
    /\ ~(exam.status = "ENDED" /\ exam.policy = "SCHEDULED" /\ exam.due)
    /\ ~HasCandidateVisibleResults
    /\ change' = [policy |-> p, evaluated |-> evaluated, due |-> exam.due] /\ changes' = changes + 1
    /\ UNCHANGED <<exam, draftVars, publisher, copyVars, attemptVars, seen, overtaken>>

\* The update and the commit.  Results stored, or due, since the checks are not seen.
UpdateReleasePolicy ==
    /\ change # Nothing
    /\ exam' = [exam EXCEPT !.policy = change.policy, !.due = FALSE]
    /\ overtaken' = overtaken \cup {a \in evaluated : a \notin change.evaluated \/ exam.due # change.due}
    /\ change' = Nothing
    /\ UNCHANGED <<draftVars, publisher, copyVars, attemptVars, changes, seen>>

AbandonPolicyChange ==
    /\ change # Nothing /\ change' = Nothing
    /\ UNCHANGED <<exam, draftVars, publisher, copyVars, attemptVars, changes, seen, overtaken>>

ReleaseTimeComes ==
    /\ exam.policy = "SCHEDULED" /\ ~exam.due
    /\ exam' = [exam EXCEPT !.due = TRUE]
    /\ UNCHANGED <<draftVars, publisher, copyVars, attemptVars, releaseVars>>

ExamNext ==
    \/ \E r \in Requests :
          \/ \E e \in {d \in Edit : d.kind = "add" => d.left # {}} : CheckDraft(r, e)
          \/ WriteEdit(r) \/ InsertQuestion(r) \/ DeleteQuestion(r) \/ DropCopy(r)
    \/ ValidateBlueprint \/ PublishExam \/ DropCopyOnPublish
    \/ ReadExam \/ ReadRules \/ CacheExam \/ CopyExpires
    \/ ScheduleSession \/ EndExam
    \/ \E a \in Attempts : \/ StartAttempt(a) \/ EvaluateAttempt(a) \/ ViewResult(a)
                           \/ \E s \in {"SUBMITTED", "TERMINATED"} : EndAttempt(a, s)
    \/ PublishExamResults \/ UpdateReleasePolicy \/ AbandonPolicyChange \/ ReleaseTimeComes
    \/ \E p \in Policies : CheckPolicyChange(p)

ExamSpec == ExamInit /\ [][ExamNext]_examVars

(***************************************************************************)
(* Properties.                                                             *)
(***************************************************************************)
\* A published exam keeps its questions, of which there is at least one, and all its
\* candidates get the same (attempts.service.js:333, validateExamBlueprint), unless
\* an edit that was checked against the draft was written after the publication.
PublishedPaperIsFixed ==
    ~late =>
        /\ exam.status # "DRAFT" => questions # {}
        /\ \A a \in Attempts : attempt[a] # Nothing => attempt[a].paper = questions

\* The cached copy shows the questions and attributes of the exam, unless an edit
\* was written after publication: drafts, whose copies the deletions could miss,
\* are never cached (getExamById against updateDraftExam and the topic rules).
CopyIsCurrent ==
    cache # Nothing /\ ~late =>
        cache.questions = questions /\ cache.duration = exam.duration

\* A result that its candidate has seen is hidden again only by a change of the
\* policy whose checks ran before that result was stored or became due
\* (updateReleasePolicy against getCandidateAttemptResult).
HiddenOnlyByOverlap == \A a \in seen : Visible(a) \/ a \in overtaken

==============================================================================
