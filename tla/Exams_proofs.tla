------------------------------ MODULE Exams_proofs ------------------------------
(***************************************************************************)
(* Proofs about the exams (ExamLifecycle) and their sessions               *)
(* (SessionRoster), each a specification of its own: for every set of      *)
(* candidates, questions, requests, sessions, rooms and people, any        *)
(* capacities, and any number of edits, changes of the policy, commands    *)
(* and transactions.                                                       *)
(***************************************************************************)
EXTENDS ExamLifecycle, SessionRoster, FiniteSetTheorems, TLAPS

(***************************************************************************)
(***************************************************************************)
(* The life of an exam.                                                    *)
(***************************************************************************)
(***************************************************************************)

(***************************************************************************)
(* Type correctness.                                                       *)
(***************************************************************************)
\* What a request of each kind carries.
LEMMA RequestFields ==
    ASSUME ExamTypeOK, NEW r \in Requests, request[r] # Nothing
    PROVE  /\ request[r] \in Request
           /\ request[r].edit.kind = "edit" => request[r].edit.duration \in Durations
           /\ request[r].edit.kind = "add" => request[r].edit.left \subseteq Questions
<1>1. request[r] \in Request BY DEF ExamTypeOK
<1>2. request[r].edit \in Edit BY <1>1 DEF Request
<1>. QED BY <1>1, <1>2 DEF Edit

\* An insertion leaves the request well typed.
LEMMA InsertType ==
    ASSUME ExamTypeOK, NEW r \in Requests, Due(r, "add"), NEW q \in request[r].edit.left
    PROVE  LET left == request[r].edit.left \ {q}
               done == [request EXCEPT ![r].edit.left = left,
                                       ![r].pc = IF left = {} THEN "written" ELSE @]
           IN  done \in [Requests -> Request \cup {Nothing}]
<1>. DEFINE left == request[r].edit.left \ {q}
            old == request[r]
            new == [old EXCEPT !.edit.left = left, !.pc = IF left = {} THEN "written" ELSE @]
            done == [request EXCEPT ![r].edit.left = left,
                                    ![r].pc = IF left = {} THEN "written" ELSE @]
<1>1. old \in Request /\ left \subseteq Questions /\ old.edit.kind = "add"
  BY RequestFields DEF Due
<1>2. old.edit \in Edit BY <1>1 DEF Request
<1>3. old.edit \in [kind : {"add"}, left : SUBSET Questions] BY <1>1, <1>2 DEF Edit
<1>4. [old.edit EXCEPT !.left = left] \in Edit BY <1>1, <1>3 DEF Edit
<1>5. new = [old EXCEPT !.edit = [old.edit EXCEPT !.left = left],
                        !.pc = IF left = {} THEN "written" ELSE old.pc]
  BY <1>1 DEF Request
<1>6. new \in Request BY <1>1, <1>4, <1>5 DEF Request
<1>7. done = [request EXCEPT ![r] = new] BY DEF ExamTypeOK
<1>. HIDE DEF new, done, left
<1>. QED BY <1>6, <1>7 DEF ExamTypeOK, done, left

\* Every step of the system preserves the types.
LEMMA ExamTypeStep == ExamTypeOK /\ [ExamNext]_examVars => ExamTypeOK'
<1>. SUFFICES ASSUME ExamTypeOK, [ExamNext]_examVars PROVE ExamTypeOK' OBVIOUS
<1>1. ASSUME NEW r \in Requests, NEW e \in Edit, CheckDraft(r, e) PROVE ExamTypeOK'
  <2>1. [pc |-> "checked", began |-> exam.status, edit |-> e] \in Request
    BY DEF ExamTypeOK, Exam, Request
  <2>. QED BY <1>1, <2>1 DEF CheckDraft, ExamTypeOK, copyVars, attemptVars, releaseVars
<1>2. ASSUME NEW r \in Requests, WriteEdit(r) PROVE ExamTypeOK'
  <2>1. request[r].edit.duration \in Durations /\ request[r] \in Request
    BY <1>2, RequestFields DEF WriteEdit, Due
  <2>2. exam' \in Exam BY <1>2, <2>1 DEF WriteEdit, ExamTypeOK, Exam
  <2>3. [request[r] EXCEPT !.pc = "written"] \in Request BY <2>1 DEF Request
  <2>4. request' \in [Requests -> Request \cup {Nothing}]
    BY <1>2, <2>3 DEF WriteEdit, ExamTypeOK
  <2>5. late' \in BOOLEAN BY <1>2 DEF WriteEdit, LateAfter, ExamTypeOK
  <2>. QED BY <1>2, <2>2, <2>4, <2>5 DEF WriteEdit, ExamTypeOK, copyVars, attemptVars, releaseVars
<1>3. ASSUME NEW r \in Requests, InsertQuestion(r) PROVE ExamTypeOK'
  <2>1. PICK q \in request[r].edit.left :
          LET left == request[r].edit.left \ {q} IN
          /\ questions' = questions \cup {q}
          /\ request' = [request EXCEPT ![r].edit.left = left,
                                        ![r].pc = IF left = {} THEN "written" ELSE @]
    BY <1>3 DEF InsertQuestion
  <2>2. q \in Questions BY <1>3, <2>1, RequestFields DEF InsertQuestion, Due
  <2>3. request' \in [Requests -> Request \cup {Nothing}]
    BY <1>3, <2>1, InsertType DEF InsertQuestion
  <2>4. late' \in BOOLEAN BY <1>3 DEF InsertQuestion, LateAfter, ExamTypeOK
  <2>. QED
    BY <1>3, <2>1, <2>2, <2>3, <2>4
    DEF InsertQuestion, ExamTypeOK, copyVars, attemptVars, releaseVars
<1>4. ASSUME NEW r \in Requests, DeleteQuestion(r) PROVE ExamTypeOK'
  <2>1. request[r] \in Request BY <1>4, RequestFields DEF DeleteQuestion, Due
  <2>2. [request[r] EXCEPT !.pc = "written"] \in Request BY <2>1 DEF Request
  <2>3. request' \in [Requests -> Request \cup {Nothing}]
    BY <1>4, <2>2 DEF DeleteQuestion, ExamTypeOK
  <2>4. late' \in BOOLEAN BY <1>4 DEF DeleteQuestion, LateAfter, ExamTypeOK
  <2>. QED
    BY <1>4, <2>3, <2>4 DEF DeleteQuestion, ExamTypeOK, copyVars, attemptVars, releaseVars
<1>5. ASSUME NEW r \in Requests, DropCopy(r) PROVE ExamTypeOK'
  BY <1>5 DEF DropCopy, ExamTypeOK, attemptVars, releaseVars
<1>6. CASE ValidateBlueprint
  BY <1>6 DEF ValidateBlueprint, ExamTypeOK, draftVars, copyVars, attemptVars, releaseVars
<1>7. CASE PublishExam
  BY <1>7 DEF PublishExam, ExamTypeOK, Exam, Statuses, draftVars, copyVars, attemptVars, releaseVars
<1>8. CASE DropCopyOnPublish
  BY <1>8 DEF DropCopyOnPublish, ExamTypeOK, draftVars, attemptVars, releaseVars
<1>9. CASE ReadExam
  <2>1. reader' \in [pc : {"exam", "rules"}, copy : Copy]
    BY <1>9 DEF ReadExam, ExamTypeOK, Exam, Copy
  <2>. QED BY <1>9, <2>1 DEF ReadExam, ExamTypeOK, draftVars, attemptVars, releaseVars
<1>10. CASE ReadRules
  <2>1. reader \in [pc : {"exam", "rules"}, copy : Copy] BY <1>10 DEF ReadRules, ExamTypeOK
  <2>2. reader' = [pc |-> "rules", copy |-> [reader.copy EXCEPT !.questions = questions]]
    BY <1>10, <2>1 DEF ReadRules
  <2>3. [reader.copy EXCEPT !.questions = questions] \in Copy BY <2>1 DEF ExamTypeOK, Copy
  <2>. QED BY <1>10, <2>2, <2>3 DEF ReadRules, ExamTypeOK, draftVars, attemptVars, releaseVars
<1>11. CASE CacheExam
  <2>1. reader.copy \in Copy BY <1>11 DEF CacheExam, ExamTypeOK
  <2>. QED
    BY <1>11, <2>1 DEF CacheExam, Cacheable, ExamTypeOK, draftVars, attemptVars, releaseVars
<1>12. CASE CopyExpires
  BY <1>12 DEF CopyExpires, ExamTypeOK, draftVars, attemptVars, releaseVars
<1>13. CASE ScheduleSession \/ EndExam \/ PublishExamResults
  BY <1>13
  DEF ScheduleSession, EndExam, PublishExamResults, ExamTypeOK, Exam, Statuses,
      draftVars, copyVars, attemptVars, releaseVars
<1>14. ASSUME NEW a \in Attempts, StartAttempt(a) PROVE ExamTypeOK'
  <2>1. [status |-> "ACTIVE", paper |-> Paper] \in Attempt BY DEF ExamTypeOK, Paper, Attempt
  <2>. QED BY <1>14, <2>1 DEF StartAttempt, ExamTypeOK, draftVars, copyVars, releaseVars
<1>15. ASSUME NEW a \in Attempts, NEW s \in {"SUBMITTED", "TERMINATED"}, EndAttempt(a, s)
       PROVE ExamTypeOK'
  <2>1. attempt[a] \in Attempt BY <1>15 DEF EndAttempt, ExamTypeOK
  <2>2. [attempt[a] EXCEPT !.status = s] \in Attempt BY <2>1 DEF Attempt
  <2>. QED BY <1>15, <2>2 DEF EndAttempt, ExamTypeOK, draftVars, copyVars, releaseVars
<1>16. ASSUME NEW a \in Attempts, EvaluateAttempt(a) PROVE ExamTypeOK'
  BY <1>16 DEF EvaluateAttempt, ExamTypeOK, draftVars, copyVars, releaseVars
<1>17. ASSUME NEW a \in Attempts, ViewResult(a) PROVE ExamTypeOK'
  BY <1>17 DEF ViewResult, ExamTypeOK, draftVars, copyVars, attemptVars
<1>18. ASSUME NEW p \in Policies, CheckPolicyChange(p) PROVE ExamTypeOK'
  BY <1>18 DEF CheckPolicyChange, ExamTypeOK, Exam, Change, draftVars, copyVars, attemptVars
<1>19. CASE UpdateReleasePolicy
  <2>1. change \in Change BY <1>19 DEF UpdateReleasePolicy, ExamTypeOK
  <2>2. exam' \in Exam BY <1>19, <2>1 DEF UpdateReleasePolicy, ExamTypeOK, Exam, Change
  <2>. QED BY <1>19, <2>2 DEF UpdateReleasePolicy, ExamTypeOK, draftVars, copyVars, attemptVars
<1>20. CASE AbandonPolicyChange
  BY <1>20 DEF AbandonPolicyChange, ExamTypeOK, draftVars, copyVars, attemptVars
<1>21. CASE ReleaseTimeComes
  BY <1>21 DEF ReleaseTimeComes, ExamTypeOK, Exam, draftVars, copyVars, attemptVars, releaseVars
<1>22. CASE UNCHANGED examVars
  BY <1>22 DEF examVars, ExamTypeOK
<1>. QED
  BY <1>1, <1>2, <1>3, <1>4, <1>5, <1>6, <1>7, <1>8, <1>9, <1>10, <1>11, <1>12, <1>13, <1>14,
     <1>15, <1>16, <1>17, <1>18, <1>19, <1>20, <1>21, <1>22
  DEF ExamNext

\* The initial states are well typed.
LEMMA ExamTypeInit == ExamInit => ExamTypeOK
<1>. SUFFICES ASSUME ExamInit PROVE ExamTypeOK OBVIOUS
<1>1. exam \in Exam /\ questions \subseteq Questions
  BY DEF ExamInit, Exam, Statuses, Policies
<1>2. request \in [Requests -> Request \cup {Nothing}] BY DEF ExamInit
<1>3. attempt \in [Attempts -> Attempt \cup {Nothing}] BY DEF ExamInit
<1>. QED BY <1>1, <1>2, <1>3 DEF ExamInit, ExamTypeOK

\* Every reachable state of an exam's life is well typed.
THEOREM ExamTypeCorrect == ExamSpec => []ExamTypeOK
  BY ExamTypeInit, ExamTypeStep, PTL DEF ExamSpec

(***************************************************************************)
(* The published paper and its cached copy.                                *)
(***************************************************************************)
\* What PublishedPaperIsFixed and CopyIsCurrent rest on: a draft has neither
\* attempts nor a cacheable copy, an edit began in DRAFT, and what publishExam has
\* validated stays so unless an edit is late.
PaperInv ==
    /\ \A r \in Requests : request[r] # Nothing /\ request[r].pc = "checked" =>
          request[r].began = "DRAFT"
    /\ publisher = "validated" => exam.status = "DRAFT" /\ (~late => questions # {})
    /\ exam.status = "DRAFT" =>
          /\ \A a \in Attempts : attempt[a] = Nothing
          /\ cache = Nothing
          /\ reader # Nothing => reader.copy.status = "DRAFT"
    /\ reader # Nothing /\ reader.copy.status # "DRAFT" /\ ~late =>
          /\ reader.copy.duration = exam.duration
          /\ reader.pc = "rules" => reader.copy.questions = questions
    /\ PublishedPaperIsFixed
    /\ CopyIsCurrent

\* An edit that is written in time finds a draft that nobody is publishing.
LEMMA TimelyEdit ==
    ASSUME PaperInv, NEW r \in Requests, NEW kind, Due(r, kind), ~LateAfter(r)
    PROVE  ~late /\ exam.status = "DRAFT" /\ publisher # "validated"
  BY DEF PaperInv, Due, LateAfter

LEMMA PaperStep == ExamTypeOK /\ PaperInv /\ [ExamNext]_examVars => PaperInv'
<1>. SUFFICES ASSUME ExamTypeOK, PaperInv, [ExamNext]_examVars PROVE PaperInv' OBVIOUS
<1>. USE DEF PublishedPaperIsFixed, CopyIsCurrent
<1>1. ASSUME NEW r \in Requests, NEW e \in Edit, CheckDraft(r, e) PROVE PaperInv'
  BY <1>1 DEF CheckDraft, Editable, PaperInv, ExamTypeOK, copyVars, attemptVars, releaseVars
<1>2. ASSUME NEW r \in Requests, WriteEdit(r) PROVE PaperInv'
  <2>1. request[r] \in Request BY <1>2, RequestFields DEF WriteEdit, Due
  <2>2. \A s \in Requests : request'[s] # Nothing /\ request'[s].pc = "checked" =>
           request'[s] = request[s]
    BY <1>2, <2>1 DEF WriteEdit, ExamTypeOK, Request
  <2>3. exam'.status = exam.status BY <1>2 DEF WriteEdit, ExamTypeOK, Exam
  <2>4. ~late' => exam.status = "DRAFT" /\ ~late
    BY <1>2, TimelyEdit DEF WriteEdit
  <2>. QED BY <1>2, <2>2, <2>3, <2>4 DEF WriteEdit, PaperInv, ExamTypeOK, Locked, copyVars, attemptVars
<1>3. ASSUME NEW r \in Requests, InsertQuestion(r) PROVE PaperInv'
  <2>1. request[r] \in Request BY <1>3, RequestFields DEF InsertQuestion, Due
  <2>2. \A s \in Requests : request'[s] # Nothing /\ request'[s].pc = "checked" =>
           request[s] # Nothing /\ request[s].pc = "checked" /\ request'[s].began = request[s].began
    BY <1>3, <2>1 DEF InsertQuestion, ExamTypeOK, Request, Due
  <2>3. ~late' => exam.status = "DRAFT" /\ ~late
    BY <1>3, TimelyEdit DEF InsertQuestion
  <2>4. UNCHANGED <<exam, publisher, cache, reader, attempt>> /\ ~Locked
    BY <1>3 DEF InsertQuestion, copyVars, attemptVars
  <2>. QED BY <2>2, <2>3, <2>4 DEF PaperInv, Locked
<1>4. ASSUME NEW r \in Requests, DeleteQuestion(r) PROVE PaperInv'
  <2>1. request[r] \in Request BY <1>4, RequestFields DEF DeleteQuestion, Due
  <2>2. \A s \in Requests : request'[s] # Nothing /\ request'[s].pc = "checked" =>
           request'[s] = request[s]
    BY <1>4, <2>1 DEF DeleteQuestion, ExamTypeOK, Request
  <2>3. ~late' => exam.status = "DRAFT" /\ ~late /\ publisher # "validated"
    BY <1>4, TimelyEdit DEF DeleteQuestion
  <2>4. UNCHANGED <<exam, publisher, cache, reader, attempt>>
    BY <1>4 DEF DeleteQuestion, copyVars, attemptVars
  <2>. QED BY <2>2, <2>3, <2>4 DEF PaperInv
<1>5. ASSUME NEW r \in Requests, DropCopy(r) PROVE PaperInv'
  BY <1>5 DEF DropCopy, PaperInv, ExamTypeOK, attemptVars
<1>6. CASE ValidateBlueprint
  BY <1>6 DEF ValidateBlueprint, BlueprintIsValid, PaperInv, draftVars, copyVars, attemptVars
<1>7. CASE PublishExam
  BY <1>7 DEF PublishExam, PaperInv, ExamTypeOK, Exam, draftVars, copyVars, attemptVars
<1>8. CASE DropCopyOnPublish
  BY <1>8 DEF DropCopyOnPublish, PaperInv, draftVars, attemptVars
<1>9. CASE ReadExam
  BY <1>9 DEF ReadExam, PaperInv, draftVars, attemptVars
<1>10. CASE ReadRules
  <2>1. reader \in [pc : {"exam", "rules"}, copy : Copy] BY <1>10 DEF ReadRules, ExamTypeOK
  <2>2. reader' = [pc |-> "rules", copy |-> [reader.copy EXCEPT !.questions = questions]]
    BY <1>10, <2>1 DEF ReadRules
  <2>3. /\ reader'.copy.status = reader.copy.status
        /\ reader'.copy.duration = reader.copy.duration
        /\ reader'.copy.questions = questions
    BY <2>1, <2>2 DEF Copy
  <2>. QED BY <1>10, <2>3 DEF ReadRules, PaperInv, draftVars, attemptVars
<1>11. CASE CacheExam
  BY <1>11 DEF CacheExam, Cacheable, PaperInv, draftVars, attemptVars
<1>12. CASE CopyExpires
  BY <1>12 DEF CopyExpires, PaperInv, draftVars, attemptVars
<1>13. CASE ScheduleSession \/ EndExam \/ PublishExamResults
  <2>1. exam.status # "DRAFT" /\ exam'.status # "DRAFT" /\ exam'.duration = exam.duration
    BY <1>13 DEF ScheduleSession, EndExam, PublishExamResults, ExamTypeOK, Exam
  <2>. QED
    BY <1>13, <2>1
    DEF ScheduleSession, EndExam, PublishExamResults, PaperInv, draftVars, copyVars, attemptVars
<1>14. ASSUME NEW a \in Attempts, StartAttempt(a) PROVE PaperInv'
  <2>1. ~late => Paper = questions BY <1>14 DEF StartAttempt, Paper, PaperInv
  <2>2. exam.status = "SCHEDULED" BY <1>14 DEF StartAttempt
  <2>. QED BY <1>14, <2>1, <2>2 DEF StartAttempt, PaperInv, ExamTypeOK, draftVars, copyVars
<1>15. ASSUME NEW a \in Attempts, NEW s, EndAttempt(a, s) PROVE PaperInv'
  <2>1. /\ attempt[a] # Nothing /\ attempt[a] \in Attempt
        /\ attempt' = [attempt EXCEPT ![a].status = s]
    BY <1>15 DEF EndAttempt, ExamTypeOK
  <2>2. attempt'[a].paper = attempt[a].paper BY <2>1 DEF ExamTypeOK, Attempt
  <2>3. \A b \in Attempts \ {a} : attempt'[b] = attempt[b] BY <2>1 DEF ExamTypeOK
  <2>4. exam.status # "DRAFT" BY <2>1 DEF PaperInv
  <2>5. UNCHANGED <<exam, questions, request, late, publisher, cache, reader>>
    BY <1>15 DEF EndAttempt, draftVars, copyVars
  <2>. QED BY <2>1, <2>2, <2>3, <2>4, <2>5 DEF PaperInv
<1>16. ASSUME NEW a \in Attempts, EvaluateAttempt(a) \/ ViewResult(a) PROVE PaperInv'
  BY <1>16 DEF EvaluateAttempt, ViewResult, PaperInv, draftVars, copyVars, attemptVars
<1>17. ASSUME NEW p \in Policies, CheckPolicyChange(p) PROVE PaperInv'
  BY <1>17 DEF CheckPolicyChange, PaperInv, draftVars, copyVars, attemptVars
<1>18. CASE UpdateReleasePolicy \/ AbandonPolicyChange \/ ReleaseTimeComes
  <2>1. exam'.status = exam.status /\ exam'.duration = exam.duration
    BY <1>18
    DEF UpdateReleasePolicy, AbandonPolicyChange, ReleaseTimeComes, ExamTypeOK, Exam
  <2>. QED
    BY <1>18, <2>1
    DEF UpdateReleasePolicy, AbandonPolicyChange, ReleaseTimeComes, PaperInv,
        draftVars, copyVars, attemptVars
<1>19. CASE UNCHANGED examVars
  BY <1>19 DEF examVars, PaperInv
<1>. QED
  BY <1>1, <1>2, <1>3, <1>4, <1>5, <1>6, <1>7, <1>8, <1>9, <1>10, <1>11, <1>12, <1>13, <1>14,
     <1>15, <1>16, <1>17, <1>18, <1>19
  DEF ExamNext

LEMMA PaperInit == ExamInit => PaperInv
  BY DEF ExamInit, PaperInv, PublishedPaperIsFixed, CopyIsCurrent

\* However edits, the publication and starts interleave, the questions of a
\* published exam, and every candidate's paper, change only by a late edit.
THEOREM FixedPaper == ExamSpec => []PublishedPaperIsFixed
<1>1. PaperInv => PublishedPaperIsFixed BY DEF PaperInv
<1>. QED BY <1>1, ExamTypeInit, ExamTypeStep, PaperInit, PaperStep, PTL DEF ExamSpec

\* However the reads of a cache miss interleave with edits and the publication, the
\* cached copy is the exam's, but for late edits.
THEOREM CurrentCopy == ExamSpec => []CopyIsCurrent
<1>1. PaperInv => CopyIsCurrent BY DEF PaperInv
<1>. QED BY <1>1, ExamTypeInit, ExamTypeStep, PaperInit, PaperStep, PTL DEF ExamSpec

(***************************************************************************)
(* Release of the results.                                                 *)
(***************************************************************************)
\* What HiddenOnlyByOverlap rests on: only ended attempts are evaluated, only results
\* that exist are seen, the policy change and the publication exclude one another, and
\* while a change is under way, what was evaluated when it was checked stays
\* invisible unless the release time comes.
ReleaseInv ==
    /\ \A a \in evaluated : attempt[a] # Nothing /\ attempt[a].status # "ACTIVE"
    /\ seen \subseteq evaluated
    /\ change # Nothing =>
          /\ publisher # "validated"
          /\ change.evaluated \subseteq evaluated
          /\ change.due => exam.due
          /\ exam.due = change.due => \A a \in change.evaluated : ~Visible(a)
    /\ publisher = "validated" => exam.status = "DRAFT"
    /\ exam.status \in {"DRAFT", "PUBLISHED"} => evaluated = {}
    /\ exam.status = "DRAFT" => \A a \in Attempts : attempt[a] = Nothing
    /\ exam.status = "PUBLISHED" => \A a \in Attempts : attempt[a] = Nothing
    /\ HiddenOnlyByOverlap

\* A step that touches neither attempts, results, policy nor publication.
ReleaseUntouched ==
    /\ exam'.status = exam.status /\ exam'.policy = exam.policy /\ exam'.due = exam.due
    /\ UNCHANGED <<attempt, evaluated, change, seen, overtaken>>

LEMMA ReleaseFrame ==
    ASSUME ReleaseInv, ReleaseUntouched,
           publisher' = "validated" => publisher = "validated" \/ (~Locked /\ exam.status = "DRAFT")
    PROVE  ReleaseInv'
<1>1. \A a : Visible(a)' = Visible(a) BY DEF ReleaseUntouched, Visible
<1>. QED BY <1>1 DEF ReleaseInv, ReleaseUntouched, HiddenOnlyByOverlap, Locked

LEMMA ReleaseStep == ExamTypeOK /\ ReleaseInv /\ [ExamNext]_examVars => ReleaseInv'
<1>. SUFFICES ASSUME ExamTypeOK, ReleaseInv, [ExamNext]_examVars PROVE ReleaseInv' OBVIOUS
<1>0. \A a \in evaluated : a \in Attempts /\ attempt[a] \in Attempt
  BY DEF ReleaseInv, ExamTypeOK
<1>1. ASSUME NEW r \in Requests,
             \/ \E e \in Edit : CheckDraft(r, e)
             \/ WriteEdit(r) \/ InsertQuestion(r)
             \/ DeleteQuestion(r) \/ DropCopy(r)
      PROVE  ReleaseInv'
  <2>1. ReleaseUntouched
    BY <1>1
    DEF CheckDraft, WriteEdit, InsertQuestion, DeleteQuestion, DropCopy, ReleaseUntouched,
        ExamTypeOK, Exam, attemptVars, releaseVars
  <2>2. publisher' = publisher
    BY <1>1 DEF CheckDraft, WriteEdit, InsertQuestion, DeleteQuestion, DropCopy
  <2>. QED BY <2>1, <2>2, ReleaseFrame
<1>2. CASE ReadExam \/ ReadRules \/ CacheExam \/ CopyExpires \/ DropCopyOnPublish \/ ValidateBlueprint
  <2>1. ReleaseUntouched
    BY <1>2
    DEF ReadExam, ReadRules, CacheExam, CopyExpires, DropCopyOnPublish, ValidateBlueprint,
        ReleaseUntouched, attemptVars, releaseVars
  <2>2. publisher' = "validated" => publisher = "validated" \/ (~Locked /\ exam.status = "DRAFT")
    BY <1>2
    DEF ReadExam, ReadRules, CacheExam, CopyExpires, DropCopyOnPublish, ValidateBlueprint
  <2>. QED BY <2>1, <2>2, ReleaseFrame
<1>3. CASE PublishExam
  <2>1. change = Nothing /\ evaluated = {} /\ seen = {}
    BY <1>3 DEF PublishExam, ReleaseInv
  <2>2. exam.status = "DRAFT" /\ exam'.status \in {"DRAFT", "PUBLISHED"}
    BY <1>3 DEF PublishExam, ReleaseInv, ExamTypeOK, Exam
  <2>3. UNCHANGED <<attempt, evaluated, change, seen, overtaken>> /\ publisher' # "validated"
    BY <1>3 DEF PublishExam, attemptVars, releaseVars
  <2>. QED BY <2>1, <2>2, <2>3 DEF ReleaseInv, HiddenOnlyByOverlap
<1>4. CASE ScheduleSession \/ EndExam \/ PublishExamResults
  <2>1. change = Nothing /\ publisher # "validated"
    BY <1>4 DEF ScheduleSession, EndExam, PublishExamResults, Locked
  <2>2. UNCHANGED <<attempt, evaluated, change, seen, overtaken, publisher>>
    BY <1>4 DEF ScheduleSession, EndExam, PublishExamResults, attemptVars, releaseVars
  <2>3. /\ exam'.policy = exam.policy /\ exam'.due = exam.due
        /\ exam'.status \in {"SCHEDULED", "ENDED", "RESULT_PUBLISHED"}
        /\ exam.status = "ENDED" => exam'.status = "RESULT_PUBLISHED"
        /\ exam.status # "RESULT_PUBLISHED"
    BY <1>4 DEF ScheduleSession, EndExam, PublishExamResults, ExamTypeOK, Exam
  <2>4. \A a : Visible(a) => Visible(a)' BY <2>2, <2>3 DEF Visible
  <2>. QED BY <2>1, <2>2, <2>3, <2>4 DEF ReleaseInv, HiddenOnlyByOverlap
<1>5. ASSUME NEW a \in Attempts, StartAttempt(a) PROVE ReleaseInv'
  <2>1. a \notin evaluated BY <1>5 DEF StartAttempt, ReleaseInv
  <2>2. \A b \in evaluated : attempt'[b] = attempt[b]
    BY <1>0, <1>5, <2>1 DEF StartAttempt, ExamTypeOK
  <2>3. /\ UNCHANGED <<exam, publisher, evaluated, change, seen, overtaken>>
        /\ exam.status = "SCHEDULED"
    BY <1>5 DEF StartAttempt, releaseVars
  <2>4. \A b \in evaluated : Visible(b)' = Visible(b) BY <2>2, <2>3 DEF Visible
  <2>. QED BY <2>2, <2>3, <2>4 DEF ReleaseInv, HiddenOnlyByOverlap
<1>6. ASSUME NEW a \in Attempts, NEW s \in {"SUBMITTED", "TERMINATED"}, EndAttempt(a, s)
      PROVE  ReleaseInv'
  <2>1. a \notin evaluated /\ attempt[a] # Nothing BY <1>6 DEF EndAttempt, ReleaseInv
  <2>2. \A b \in evaluated : attempt'[b] = attempt[b]
    BY <1>0, <1>6, <2>1 DEF EndAttempt, ExamTypeOK
  <2>3. UNCHANGED <<exam, publisher, evaluated, change, seen, overtaken>>
    BY <1>6 DEF EndAttempt, releaseVars
  <2>4. \A b \in evaluated : Visible(b)' = Visible(b) BY <2>2, <2>3 DEF Visible
  <2>5. exam.status \notin {"DRAFT", "PUBLISHED"} BY <2>1 DEF ReleaseInv
  <2>. QED BY <2>2, <2>3, <2>4, <2>5 DEF ReleaseInv, HiddenOnlyByOverlap
<1>7. ASSUME NEW a \in Attempts, EvaluateAttempt(a) PROVE ReleaseInv'
  <2>1. UNCHANGED <<exam, publisher, attempt, change, seen, overtaken>>
        /\ evaluated' = evaluated \cup {a} /\ attempt[a] # Nothing /\ attempt[a].status # "ACTIVE"
    BY <1>7 DEF EvaluateAttempt, releaseVars
  <2>2. \A b : Visible(b)' = Visible(b) BY <2>1 DEF Visible
  <2>. QED BY <2>1, <2>2 DEF ReleaseInv, HiddenOnlyByOverlap
<1>8. ASSUME NEW a \in Attempts, ViewResult(a) PROVE ReleaseInv'
  <2>1. UNCHANGED <<exam, publisher, attempt, evaluated, change, overtaken>>
        /\ seen' = seen \cup {a} /\ a \in evaluated /\ Visible(a)
    BY <1>8 DEF ViewResult, attemptVars
  <2>2. \A b : Visible(b)' = Visible(b) BY <2>1 DEF Visible
  <2>. QED BY <2>1, <2>2 DEF ReleaseInv, HiddenOnlyByOverlap
<1>9. ASSUME NEW p \in Policies, CheckPolicyChange(p) PROVE ReleaseInv'
  <2>1. /\ UNCHANGED <<exam, publisher, attempt, evaluated, seen, overtaken>>
        /\ change' = [policy |-> p, evaluated |-> evaluated, due |-> exam.due]
        /\ ~Locked /\ \A a \in evaluated : ~Visible(a)
    BY <1>9 DEF CheckPolicyChange, HasCandidateVisibleResults, attemptVars
  <2>2. \A b : Visible(b)' = Visible(b) BY <2>1 DEF Visible
  <2>. QED BY <2>1, <2>2 DEF ReleaseInv, HiddenOnlyByOverlap, Locked
<1>10. CASE UpdateReleasePolicy
  <2>1. /\ UNCHANGED <<publisher, attempt, evaluated, seen>>
        /\ change # Nothing /\ change' = Nothing /\ exam'.status = exam.status
        /\ overtaken' = overtaken \cup
             {a \in evaluated : a \notin change.evaluated \/ exam.due # change.due}
    BY <1>10 DEF UpdateReleasePolicy, attemptVars, ExamTypeOK, Exam
  <2>2. \A a \in seen : a \in overtaken'
    BY <2>1 DEF ReleaseInv, HiddenOnlyByOverlap
  <2>. QED BY <2>1, <2>2 DEF ReleaseInv, HiddenOnlyByOverlap
<1>11. CASE AbandonPolicyChange
  <2>1. UNCHANGED <<exam, publisher, attempt, evaluated, seen, overtaken>> /\ change' = Nothing
    BY <1>11 DEF AbandonPolicyChange, attemptVars
  <2>2. \A b : Visible(b)' = Visible(b) BY <2>1 DEF Visible
  <2>. QED BY <2>1, <2>2 DEF ReleaseInv, HiddenOnlyByOverlap
<1>12. CASE ReleaseTimeComes
  <2>1. /\ UNCHANGED <<publisher, attempt, evaluated, change, seen, overtaken>>
        /\ exam'.status = exam.status /\ exam'.policy = exam.policy
        /\ exam'.due = TRUE /\ exam.due = FALSE
    BY <1>12 DEF ReleaseTimeComes, attemptVars, releaseVars, ExamTypeOK, Exam
  <2>2. \A a : Visible(a) => Visible(a)' BY <2>1 DEF Visible
  <2>3. change # Nothing => change.due = FALSE
    BY <2>1 DEF ReleaseInv, ExamTypeOK, Change
  <2>. QED BY <2>1, <2>2, <2>3 DEF ReleaseInv, HiddenOnlyByOverlap
<1>13. CASE UNCHANGED examVars
  <2>1. ReleaseUntouched /\ publisher' = publisher BY <1>13 DEF examVars, ReleaseUntouched
  <2>. QED BY <2>1, ReleaseFrame
<1>. QED
  BY <1>1, <1>2, <1>3, <1>4, <1>5, <1>6, <1>7, <1>8, <1>9, <1>10, <1>11, <1>12, <1>13
  DEF ExamNext

LEMMA ReleaseInit == ExamInit => ReleaseInv
  BY DEF ExamInit, ReleaseInv, HiddenOnlyByOverlap

\* For any number of candidates, and whatever evaluations, releases and changes of
\* the policy interleave, a result that was seen is hidden only by the named overlap.
THEOREM HidingOverlaps == ExamSpec => []HiddenOnlyByOverlap
<1>1. ReleaseInv => HiddenOnlyByOverlap BY DEF ReleaseInv
<1>. QED BY <1>1, ExamTypeInit, ExamTypeStep, ReleaseInit, ReleaseStep, PTL DEF ExamSpec

(***************************************************************************)
(***************************************************************************)
(* The sessions of the exams and their rosters.                            *)
(***************************************************************************)
(***************************************************************************)

(***************************************************************************)
(* Type correctness.                                                       *)
(***************************************************************************)
\* What a running transaction carries.
LEMMA TxFields ==
    ASSUME RosterTypeOK, NEW t \in Transactions, Running(t)
    PROVE  /\ tx[t] \in Tx /\ tx[t].session \in Sessions /\ tx[t].held \in 1 .. 3
           /\ tx[t].checked \in BOOLEAN /\ tx[t].command \in Command
           /\ Kind(t) \in {"assign", "remove", "invigilate", "release", "move",
                           "reschedule", "setStatus", "start", "startByExam"}
           /\ Kind(t) = "assign" => tx[t].command.students \subseteq Students
           /\ Kind(t) \in {"remove", "start", "startByExam"} => tx[t].command.student \in Students
           /\ Kind(t) \in {"invigilate", "release"} => tx[t].command.user \in Staff
           /\ Kind(t) = "move" => tx[t].command.room \in Rooms \cup {None}
           /\ Kind(t) = "reschedule" => tx[t].command.slot \in Slots
           /\ Kind(t) = "setStatus" => tx[t].command.status \in {"ACTIVE", "CONCLUDED"}
<1>1. tx[t] \in Tx BY DEF RosterTypeOK, Running
<1>2. tx[t].command \in Command BY <1>1 DEF Tx
<1>. QED BY <1>1, <1>2 DEF Tx, Command, Kind

\* What Commit writes is well typed.
LEMMA WriteTypes ==
    ASSUME RosterTypeOK, NEW t \in Transactions, Running(t)
    PROVE  /\ SetSession(t) \in [Sessions -> Session]
           /\ SetRoster(t) \in [Sessions -> SUBSET Students]
           /\ SetInvigilators(t) \in [Sessions -> SUBSET Staff]
           /\ RacedBy(t) \subseteq Sessions \X Sessions \X People
<1>. USE TxFields
<1>. DEFINE s == tx[t].session
            c == tx[t].command
<1>0. /\ session \in [Sessions -> Session] /\ s \in Sessions
      /\ roster \in [Sessions -> SUBSET Students] /\ invigilators \in [Sessions -> SUBSET Staff]
  BY DEF RosterTypeOK
<1>1. SetSession(t) \in [Sessions -> Session]
  <2>1. ASSUME Kind(t) = "move" PROVE [session[s] EXCEPT !.room = c.room] \in Session
    BY <1>0, <2>1 DEF Session
  <2>2. ASSUME Kind(t) = "reschedule" PROVE [session[s] EXCEPT !.slot = c.slot] \in Session
    BY <1>0, <2>2 DEF Session
  <2>3. ASSUME Kind(t) = "setStatus" PROVE [session[s] EXCEPT !.status = c.status] \in Session
    BY <1>0, <2>3 DEF Session
  <2>. QED BY <1>0, <2>1, <2>2, <2>3 DEF SetSession, Kind
<1>2. SetRoster(t) \in [Sessions -> SUBSET Students]
  BY <1>0 DEF SetRoster, Kind, Starts
<1>3. SetInvigilators(t) \in [Sessions -> SUBSET Staff]
  BY <1>0 DEF SetInvigilators, Kind
<1>4. Adds(t) \subseteq People BY DEF Adds, People, Kind
<1>5. RacedBy(t) \subseteq Sessions \X Sessions \X People
  BY <1>0, <1>4 DEF RacedBy
<1>. QED BY <1>1, <1>2, <1>3, <1>5

\* Whoever has a booking is a person.
LEMMA ClashingType == RosterTypeOK => \A s \in Sessions : Clashing(s) \subseteq People
  BY DEF RosterTypeOK, Clashing, Booked, People

\* Every step of the system preserves the types.
LEMMA RosterTypeStep == RosterTypeOK /\ [RosterNext]_rosterVars => RosterTypeOK'
<1>. SUFFICES ASSUME RosterTypeOK, [RosterNext]_rosterVars PROVE RosterTypeOK' OBVIOUS
<1>1. ASSUME NEW t \in Transactions, NEW s \in Sessions, NEW c \in Command, Give(t, s, c)
      PROVE  RosterTypeOK'
  <2>1. [held |-> 1, checked |-> FALSE, session |-> s, command |-> c, clashing |-> {}] \in Tx
    BY DEF Tx
  <2>. QED BY <1>1, <2>1 DEF Give, RosterTypeOK, tables, history
<1>2. ASSUME NEW t \in Transactions, TakeLock(t) PROVE RosterTypeOK'
  <2>1. tx[t] \in Tx /\ tx[t].held \in 1 .. 3 BY <1>2, TxFields DEF TakeLock
  <2>2. [tx[t] EXCEPT !.held = @ + 1] \in Tx BY <1>2, <2>1 DEF TakeLock, Tx
  <2>3. tx' = [tx EXCEPT ![t] = [tx[t] EXCEPT !.held = @ + 1]] BY <1>2 DEF TakeLock
  <2>4. tx' \in [Transactions -> Tx \cup {None}] BY <2>2, <2>3 DEF RosterTypeOK
  <2>. QED BY <1>2, <2>4 DEF TakeLock, RosterTypeOK, tables, history
<1>3. ASSUME NEW t \in Transactions, Check(t) PROVE RosterTypeOK'
  <2>1. tx[t] \in Tx /\ tx[t].session \in Sessions BY <1>3, TxFields DEF Check
  <2>2. [tx[t] EXCEPT !.checked = TRUE, !.clashing = Clashing(tx[t].session)] \in Tx
    BY <2>1, ClashingType DEF Tx
  <2>3. tx' = [tx EXCEPT ![t] = [tx[t] EXCEPT !.checked = TRUE,
                                              !.clashing = Clashing(tx[t].session)]]
    BY <1>3 DEF Check
  <2>4. tx' \in [Transactions -> Tx \cup {None}] BY <2>2, <2>3 DEF RosterTypeOK
  <2>. QED BY <1>3, <2>4 DEF Check, RosterTypeOK, tables, history
<1>4. ASSUME NEW t \in Transactions, Commit(t) PROVE RosterTypeOK'
  <2>1. Running(t) BY <1>4 DEF Commit
  <2>2. /\ session' \in [Sessions -> Session] /\ roster' \in [Sessions -> SUBSET Students]
        /\ invigilators' \in [Sessions -> SUBSET Staff]
        /\ raced' \subseteq Sessions \X Sessions \X People
    BY <1>4, <2>1, WriteTypes DEF Commit, RosterTypeOK
  <2>3. auto' \in [Sessions -> SUBSET Students] /\ moved' \subseteq Sessions
    BY <1>4, <2>1, TxFields DEF Commit, RosterTypeOK, Kind, Starts
  <2>4. tx' \in [Transactions -> Tx \cup {None}] BY <1>4 DEF Commit, RosterTypeOK
  <2>. QED BY <1>4, <2>2, <2>3, <2>4 DEF Commit, RosterTypeOK
<1>5. ASSUME NEW t \in Transactions, RollBack(t) PROVE RosterTypeOK'
  BY <1>5 DEF RollBack, RosterTypeOK, tables, history
<1>6. ASSUME NEW s \in Sessions, NEW p \in Students, ViewSession(s, p) PROVE RosterTypeOK'
  BY <1>6 DEF ViewSession, RosterTypeOK
<1>7. ASSUME NEW s \in Sessions, NEW r \in Rooms \cup {None}, NEW w \in Slots, CreateSession(s, r, w)
      PROVE  RosterTypeOK'
  <2>1. [status |-> "SCHEDULED", room |-> r, slot |-> w] \in Session BY DEF Session
  <2>. QED BY <1>7, <2>1 DEF CreateSession, RosterTypeOK, history
<1>8. ASSUME NEW s \in Sessions, NEW w \in Slots, NEW P \in SUBSET Students, NEW f \in Staff,
             ScheduleExam(s, w, P, f)
      PROVE  RosterTypeOK'
  <2>1. [status |-> "SCHEDULED", room |-> None, slot |-> w] \in Session BY DEF Session
  <2>2. unchecked' \in [Sessions -> SUBSET People] BY <1>8 DEF ScheduleExam, RosterTypeOK, People
  <2>. QED BY <1>8, <2>1, <2>2 DEF ScheduleExam, RosterTypeOK
<1>9. ASSUME NEW s \in Sessions, SignOff(s) PROVE RosterTypeOK'
  <2>1. [session[s] EXCEPT !.status = "CONCLUDED"] \in Session BY DEF RosterTypeOK, Session
  <2>. QED BY <1>9, <2>1 DEF SignOff, RosterTypeOK, history
<1>10. CASE UNCHANGED rosterVars
  BY <1>10 DEF rosterVars, tables, history, RosterTypeOK
<1>. QED BY <1>1, <1>2, <1>3, <1>4, <1>5, <1>6, <1>7, <1>8, <1>9, <1>10 DEF RosterNext

LEMMA RosterTypeInit == RosterInit => RosterTypeOK
  BY RosterAssumption DEF RosterInit, RosterTypeOK, Session

\* Every reachable state of the rosters is well typed.
THEOREM RosterTypeCorrect == RosterSpec => []RosterTypeOK
  BY RosterTypeInit, RosterTypeStep, PTL DEF RosterSpec

(***************************************************************************)
(* Deadlock.                                                               *)
(***************************************************************************)
\* A transaction waits for one that has taken more locks than itself: sessions,
\* exams and rooms are different things, which all but the starts by exam id lock in this order.
LEMMA WaitsUpwards ==
    ASSUME RosterTypeOK, NEW t \in Transactions, NEW h \in WaitsFor(t),
           \A g \in {t, h} : Running(g) => Kind(g) # "startByExam"
    PROVE  Running(t) /\ Running(h) /\ tx[t].held < tx[h].held
<1>1. Wants(t) \cap Holds(h) # {} /\ h \in Transactions BY DEF WaitsFor
<1>2. Running(t) /\ Running(h) /\ tx[t].held < 3 BY <1>1 DEF Wants, Holds
<1>3. /\ tx[t].held \in 1 .. 3 /\ tx[h].held \in 1 .. 3
      /\ tx[t].session \in Sessions /\ tx[h].session \in Sessions
  BY <1>1, <1>2, TxFields
<1>4. \A g \in {t, h} : /\ LockOrder(g)[1] \subseteq Sessions
                        /\ LockOrder(g)[2] \subseteq Exams /\ LockOrder(g)[3] \subseteq Rooms
  <2>1. examOf[tx[t].session] \in Exams /\ examOf[tx[h].session] \in Exams
    BY <1>3 DEF RosterTypeOK
  <2>2. RoomOf(t) \subseteq Rooms /\ RoomOf(h) \subseteq Rooms
    BY <1>1, <1>2, <1>3, TxFields DEF RoomOf, RosterTypeOK, Session
  <2>3. \A g \in {t, h} : /\ LockOrder(g)[1] = {tx[g].session} /\ LockOrder(g)[3] = RoomOf(g)
                          /\ LockOrder(g)[2] = {examOf[tx[g].session]}
    BY <1>2 DEF LockOrder
  <2>. QED BY <1>3, <2>1, <2>2, <2>3
<1>5. PICK i \in 1 .. tx[h].held : LockOrder(t)[tx[t].held + 1] \cap LockOrder(h)[i] # {}
  BY <1>1, <1>2 DEF Wants, Holds
<1>6. tx[t].held + 1 \in 1 .. 3 /\ i \in 1 .. 3 BY <1>2, <1>3
<1>7. tx[t].held + 1 = i
  <2>. DEFINE j == tx[t].held + 1
  <2>1. PICK x : x \in LockOrder(t)[j] /\ x \in LockOrder(h)[i] BY <1>5
  <2>2. j \in {1, 2, 3} /\ i \in {1, 2, 3} BY <1>6
  <2>. DEFINE Class == <<Sessions, Exams, Rooms>>
  <2>3. \A k \in {1, 2, 3} : LockOrder(t)[k] \subseteq Class[k] /\ LockOrder(h)[k] \subseteq Class[k]
    BY <1>4
  <2>4. \A k, m \in {1, 2, 3} : k # m => Class[k] \cap Class[m] = {}
    BY RosterAssumption
  <2>. HIDE DEF j, Class
  <2>5. x \in Class[j] /\ x \in Class[i] BY <2>1, <2>2, <2>3
  <2>6. j = i BY <2>2, <2>4, <2>5
  <2>. QED BY <2>6 DEF j
<1>. QED BY <1>2, <1>3, <1>7

\* However many transactions run, and whatever they lock, a set of them that deadlocks
\* contains a start by exam id.
THEOREM DeadlocksExplained == RosterSpec => []OnlyExamStartsDeadlock
<1>1. RosterTypeOK => OnlyExamStartsDeadlock
  <2>. SUFFICES ASSUME RosterTypeOK, NEW T \in (SUBSET Transactions) \ {{}},
                       \A t \in T : Running(t) => Kind(t) # "startByExam"
                PROVE  \E t \in T : WaitsFor(t) \cap T = {}
    BY DEF OnlyExamStartsDeadlock
  <2>. DEFINE Top(n) == \E t \in T : Running(t) /\ tx[t].held = n
  <2>0. \A t \in T : Running(t) => tx[t].held \in {1, 2, 3} BY TxFields
  <2>1. ASSUME NEW t \in T, WaitsFor(t) \cap T # {}
        PROVE  \E h \in T : Running(t) /\ Running(h) /\ tx[t].held < tx[h].held
    BY <2>1, WaitsUpwards
  <2>2. CASE Top(3)
    <3>1. PICK t \in T : Running(t) /\ tx[t].held = 3 BY <2>2
    <3>2. ~\E h \in T : Running(h) /\ tx[t].held < tx[h].held BY <2>0, <3>1
    <3>. QED BY <2>1, <3>1, <3>2
  <2>3. CASE ~Top(3) /\ Top(2)
    <3>1. PICK t \in T : Running(t) /\ tx[t].held = 2 BY <2>3
    <3>2. ASSUME NEW h \in T, Running(h) PROVE ~(tx[t].held < tx[h].held)
      <4>1. tx[h].held \in {1, 2, 3} /\ tx[h].held # 3 BY <2>0, <2>3, <3>2
      <4>. QED BY <3>1, <4>1
    <3>3. WaitsFor(t) \cap T = {} BY <2>1, <3>1, <3>2
    <3>. QED BY <3>1, <3>3
  <2>4. CASE ~Top(3) /\ ~Top(2) BY <2>0, <2>1, <2>4
  <2>. QED BY <2>2, <2>3, <2>4
<1>. QED BY <1>1, RosterTypeCorrect, PTL

(***************************************************************************)
(* What the locks protect.                                                 *)
(***************************************************************************)
\* Commands that do not both share work on sessions of different exams once they hold
\* their exams, which every command locks second.
LocksExclude ==
    \A t, h \in Transactions :
        /\ t # h /\ Running(t) /\ Running(h) /\ ~(Shares(t) /\ Shares(h))
        /\ tx[t].held >= 2 /\ tx[h].held >= 2
        => examOf[tx[t].session] # examOf[tx[h].session]

\* A transaction holds its exam once it took its second lock.
LEMMA HoldsExam ==
    ASSUME RosterTypeOK, NEW t \in Transactions, Running(t), tx[t].held >= 2
    PROVE  examOf[tx[t].session] \in Holds(t)
<1>1. tx[t].held \in 1 .. 3 BY TxFields
<1>2. LockOrder(t)[2] \subseteq Holds(t) BY <1>1 DEF Holds
<1>. QED BY <1>2 DEF LockOrder

\* A transaction that has all its locks holds its session.
LEMMA HoldsSession ==
    ASSUME RosterTypeOK, NEW t \in Transactions, Running(t), tx[t].held = 3
    PROVE  tx[t].session \in Holds(t)
<1>1. LockOrder(t)[1] \cup LockOrder(t)[3] \subseteq Holds(t) BY DEF Holds
<1>. QED BY <1>1 DEF LockOrder

\* What a transaction has checked still holds when it commits: all but conflicts
\* with sessions of other exams.
StillAllowed(t) ==
    LET s == tx[t].session
        c == tx[t].command
    IN  /\ tx[t].held = 3
        /\ Kind(t) \notin {"invigilate", "release"} \cup Starts => session[s].status = "SCHEDULED"
        /\ Kind(t) = "start" => session[s].status \in Open
        /\ Kind(t) = "assign" /\ session[s].room # None =>
              Cardinality(roster[s] \cup c.students) <= Capacity[session[s].room]
        /\ Kind(t) = "move" /\ c.room # None => Cardinality(roster[s]) <= Capacity[c.room]
        /\ Adds(t) \cap tx[t].clashing = {}
        /\ \A z \in Sessions : Conflict(s, z) /\ examOf[z] = examOf[s] =>
              Adds(t) \cap Booked(z) \subseteq auto[z]

ChecksHold == \A t \in Transactions : Running(t) /\ tx[t].checked => StillAllowed(t)

\* Transactions work on sessions that are there, and nobody is booked in one that is not.
AbsentHold ==
    /\ \A t \in Transactions : Running(t) => session[tx[t].session].status # "ABSENT"
    /\ \A s \in Sessions : session[s].status = "ABSENT" => Booked(s) = {}

LEMMA LocksStep == RosterTypeOK /\ LocksExclude /\ [RosterNext]_rosterVars => LocksExclude'
<1>. SUFFICES ASSUME RosterTypeOK, LocksExclude, [RosterNext]_rosterVars PROVE LocksExclude' OBVIOUS
<1>1. ASSUME NEW t \in Transactions, NEW s \in Sessions, NEW c \in Command, Give(t, s, c)
      PROVE  LocksExclude'
  <2>1. /\ tx'[t] = [held |-> 1, checked |-> FALSE, session |-> s, command |-> c, clashing |-> {}]
        /\ \A h \in Transactions \ {t} : tx'[h] = tx[h]
        /\ UNCHANGED examOf
    BY <1>1 DEF Give, RosterTypeOK
  <2>2. tx'[t].held = 1 BY <2>1
  <2>3. \A h \in Transactions \ {t} : Running(h)' = Running(h) /\ Shares(h)' = Shares(h)
    BY <2>1 DEF Running, Shares, Kind
  <2>. QED BY <2>1, <2>2, <2>3 DEF LocksExclude
<1>2. ASSUME NEW t \in Transactions, TakeLock(t) PROVE LocksExclude'
  <2>1. /\ Running(t) /\ tx[t].held < 3 /\ WaitsFor(t) = {} /\ tx[t] \in Tx
        /\ tx[t].held \in 1 .. 3
    BY <1>2, TxFields DEF TakeLock
  <2>2. /\ tx'[t] = [tx[t] EXCEPT !.held = @ + 1]
        /\ \A h \in Transactions \ {t} : tx'[h] = tx[h]
        /\ UNCHANGED examOf
    BY <1>2 DEF TakeLock, RosterTypeOK
  <2>3. /\ tx'[t].held = tx[t].held + 1 /\ tx'[t].session = tx[t].session
        /\ tx'[t].command = tx[t].command
    BY <2>1, <2>2 DEF Tx
  <2>4. ASSUME NEW h \in Transactions \ {t}, Running(h), ~(Shares(t) /\ Shares(h)),
               tx[t].held = 1, tx[h].held >= 2
        PROVE  examOf[tx[t].session] # examOf[tx[h].session]
    <3>1. examOf[tx[h].session] \in Holds(h) BY <2>4, HoldsExam
    <3>2. Wants(t) = {examOf[tx[t].session]} BY <2>1, <2>4 DEF Wants, LockOrder
    <3>3. Wants(t) \cap Holds(h) = {} BY <2>1, <2>4 DEF WaitsFor
    <3>. QED BY <3>1, <3>2, <3>3
  <2>5. \A h \in Transactions : Shares(h)' = Shares(h) BY <2>2, <2>3 DEF Shares, Kind
  <2>6. \A h \in Transactions \ {t} : Running(h)' = Running(h) BY <2>2 DEF Running
  <2>7. \A h \in Transactions \ {t} :
          Running(h) /\ ~(Shares(t) /\ Shares(h)) /\ tx[h].held >= 2 =>
            examOf[tx[t].session] # examOf[tx[h].session]
    <3>1. tx[t].held = 1 \/ tx[t].held >= 2 BY <2>1
    <3>. QED BY <2>1, <2>4, <3>1 DEF LocksExclude
  <2>8. \A h \in Transactions \ {t} :
          tx'[h].session = tx[h].session /\ tx'[h].held = tx[h].held
    BY <2>2
  <2>9. \A h \in Transactions : tx'[h].session = tx[h].session BY <2>3, <2>8
  <2>10. ASSUME NEW g \in Transactions, NEW h \in Transactions, g # h, Running(g)', Running(h)',
                ~(Shares(g)' /\ Shares(h)'), tx'[g].held >= 2, tx'[h].held >= 2
         PROVE  examOf'[tx'[g].session] # examOf'[tx'[h].session]
    <3>1. CASE g = t BY <2>2, <2>5, <2>6, <2>7, <2>8, <2>9, <2>10, <3>1
    <3>2. CASE h = t BY <2>2, <2>5, <2>6, <2>7, <2>8, <2>9, <2>10, <3>2
    <3>3. CASE g # t /\ h # t
      BY <2>2, <2>5, <2>6, <2>8, <2>10, <3>3 DEF LocksExclude
    <3>. QED BY <3>1, <3>2, <3>3
  <2>. QED BY <2>10 DEF LocksExclude
<1>3. ASSUME NEW t \in Transactions, Check(t) PROVE LocksExclude'
  <2>1. tx[t] \in Tx /\ Running(t) BY <1>3, TxFields DEF Check
  <2>2. /\ tx'[t] = [tx[t] EXCEPT !.checked = TRUE, !.clashing = Clashing(tx[t].session)]
        /\ \A h \in Transactions \ {t} : tx'[h] = tx[h]
        /\ UNCHANGED examOf
    BY <1>3 DEF Check, RosterTypeOK
  <2>3. /\ tx'[t].held = tx[t].held /\ tx'[t].session = tx[t].session
        /\ tx'[t].command = tx[t].command
    BY <2>1, <2>2 DEF Tx
  <2>4. \A h \in Transactions :
           /\ Shares(h)' = Shares(h) /\ (Running(h)' => Running(h))
           /\ tx'[h].session = tx[h].session /\ tx'[h].held = tx[h].held
    BY <2>1, <2>2, <2>3 DEF Shares, Kind, Running
  <2>. QED BY <2>2, <2>4 DEF LocksExclude
<1>4. ASSUME NEW t \in Transactions, Commit(t) \/ RollBack(t) PROVE LocksExclude'
  <2>1. /\ tx'[t] = None /\ UNCHANGED examOf
        /\ \A h \in Transactions \ {t} : tx'[h] = tx[h]
    BY <1>4 DEF Commit, RollBack, RosterTypeOK
  <2>. QED BY <2>1 DEF LocksExclude, Running, Shares, Kind
<1>5. CASE UNCHANGED <<examOf, tx>>
  BY <1>5 DEF LocksExclude, Running, Shares, Kind
<1>. QED
  BY <1>1, <1>2, <1>3, <1>4, <1>5
  DEF RosterNext, ViewSession, CreateSession, ScheduleExam, SignOff, rosterVars

\* A commit changes the rows of its own session only.
LEMMA CommitFrame ==
    ASSUME RosterTypeOK, NEW t \in Transactions, Commit(t), NEW z \in Sessions, z # tx[t].session
    PROVE  /\ session'[z] = session[z] /\ roster'[z] = roster[z]
           /\ invigilators'[z] = invigilators[z] /\ auto'[z] = auto[z]
  BY DEF Commit, SetSession, SetRoster, SetInvigilators, RosterTypeOK

\* Sessions do not disappear.
LEMMA AbsentStep == RosterTypeOK /\ AbsentHold /\ [RosterNext]_rosterVars => AbsentHold'
<1>. SUFFICES ASSUME RosterTypeOK, AbsentHold, [RosterNext]_rosterVars PROVE AbsentHold' OBVIOUS
<1>1. ASSUME NEW t \in Transactions, NEW s \in Sessions, NEW c \in Command, Give(t, s, c)
      PROVE  AbsentHold'
  BY <1>1 DEF Give, AbsentHold, RosterTypeOK, Running, tables, history, Booked
<1>2. ASSUME NEW t \in Transactions, TakeLock(t) \/ Check(t) PROVE AbsentHold'
  <2>1. Running(t) /\ tx[t] \in Tx BY <1>2, TxFields DEF TakeLock, Check
  <2>2. tx'[t].session = tx[t].session BY <1>2, <2>1 DEF TakeLock, Check, RosterTypeOK, Tx
  <2>3. \A h \in Transactions \ {t} : tx'[h] = tx[h] BY <1>2 DEF TakeLock, Check, RosterTypeOK
  <2>4. UNCHANGED <<session, roster, invigilators>> BY <1>2 DEF TakeLock, Check, tables
  <2>. QED BY <2>1, <2>2, <2>3, <2>4 DEF AbsentHold, Running, Booked
<1>3. ASSUME NEW t \in Transactions, Commit(t) PROVE AbsentHold'
  <2>1. Running(t) /\ tx[t].session \in Sessions BY <1>3, TxFields DEF Commit
  <2>2. \A h \in Transactions : Running(h)' => Running(h) /\ tx'[h] = tx[h]
    BY <1>3 DEF Commit, RosterTypeOK, Running
  <2>3. session'[tx[t].session].status # "ABSENT"
    <3>1. session[tx[t].session].status # "ABSENT" BY <2>1 DEF AbsentHold
    <3>. QED BY <1>3, <2>1, <3>1, TxFields DEF Commit, SetSession, Kind, RosterTypeOK, Session
  <2>4. \A z \in Sessions : z # tx[t].session =>
          /\ session'[z] = session[z] /\ roster'[z] = roster[z] /\ invigilators'[z] = invigilators[z]
    BY <1>3, CommitFrame
  <2>5. \A h \in Transactions : Running(h) => tx[h].session \in Sessions BY TxFields
  <2>. QED BY <2>2, <2>3, <2>4, <2>5 DEF AbsentHold, Booked
<1>4. ASSUME NEW t \in Transactions, RollBack(t) PROVE AbsentHold'
  BY <1>4 DEF RollBack, AbsentHold, RosterTypeOK, Running, tables, Booked
<1>5. ASSUME NEW s \in Sessions, NEW p \in Students, ViewSession(s, p) PROVE AbsentHold'
  BY <1>5 DEF ViewSession, AbsentHold, RosterTypeOK, Running, Booked
<1>6. ASSUME NEW s \in Sessions, session[s].status = "ABSENT" \/ SignOff(s),
             session' = [session EXCEPT ![s] = session'[s]], session'[s].status # "ABSENT",
             \A z \in Sessions \ {s} : Booked(z)' = Booked(z), tx' = tx
      PROVE  AbsentHold'
  <2>1. \A z \in Sessions : session'[z].status = "ABSENT" => z # s /\ session[z].status = "ABSENT"
    BY <1>6 DEF RosterTypeOK
  <2>2. \A t \in Transactions : Running(t) => tx[t].session \in Sessions BY TxFields
  <2>. QED BY <1>6, <2>1, <2>2 DEF AbsentHold, Running
<1>7. ASSUME NEW s \in Sessions, NEW r \in Rooms \cup {None}, NEW w \in Slots, CreateSession(s, r, w)
      PROVE  AbsentHold'
  BY <1>6, <1>7 DEF CreateSession, RosterTypeOK, Booked
<1>8. ASSUME NEW s \in Sessions, NEW w \in Slots, NEW P \in SUBSET Students, NEW f \in Staff,
             ScheduleExam(s, w, P, f)
      PROVE  AbsentHold'
  BY <1>6, <1>8 DEF ScheduleExam, RosterTypeOK, Booked
<1>9. ASSUME NEW s \in Sessions, SignOff(s) PROVE AbsentHold'
  <2>1. session'[s].status = "CONCLUDED" /\ session' = [session EXCEPT ![s] = session'[s]]
    BY <1>9 DEF SignOff, RosterTypeOK, Session
  <2>. QED BY <1>6, <1>9, <2>1 DEF SignOff, Booked
<1>10. CASE UNCHANGED rosterVars
  BY <1>10 DEF rosterVars, AbsentHold, Running, Booked
<1>. QED BY <1>1, <1>2, <1>3, <1>4, <1>5, <1>7, <1>8, <1>9, <1>10 DEF RosterNext

\* The command of a transaction does not depend on the others.
LEMMA OtherTx ==
    ASSUME NEW t, NEW h, tx'[h] = tx[h]
    PROVE  /\ Running(h)' = Running(h) /\ Kind(h)' = Kind(h) /\ Shares(h)' = Shares(h)
  BY DEF Running, Kind, Shares

\* Checks keep holding when the rows of the session, and the bookings of the other
\* sessions of its exam, stay.
LEMMA ChecksFrame ==
    ASSUME RosterTypeOK, NEW h \in Transactions, Running(h), StillAllowed(h),
           tx'[h] = tx[h], UNCHANGED examOf,
           session'[tx[h].session] = session[tx[h].session],
           roster'[tx[h].session] = roster[tx[h].session],
           \A z \in Sessions : z # tx[h].session /\ examOf[z] = examOf[tx[h].session] =>
               /\ session'[z] = session[z] \/ session'[z].status \notin Open
               /\ auto[z] \subseteq auto'[z]
               /\ Booked(z)' \subseteq Booked(z) \cup auto'[z]
    PROVE  StillAllowed(h)'
<1>. DEFINE s == tx[h].session
<1>1. Kind(h)' = Kind(h) /\ Adds(h)' = Adds(h) BY DEF Kind, Adds
<1>2. ASSUME NEW z \in Sessions, Conflict(s, z)', examOf[z] = examOf[s]
      PROVE  Adds(h)' \cap Booked(z)' \subseteq auto'[z]
  <2>1. z # s BY <1>2 DEF Conflict
  <2>2. Conflict(s, z)
    <3>1. session'[z].status \in Open BY <1>2 DEF Conflict
    <3>. QED BY <1>2, <2>1, <3>1 DEF Conflict
  <2>3. Adds(h) \cap Booked(z) \subseteq auto[z] BY <1>2, <2>2 DEF StillAllowed
  <2>. QED BY <1>1, <1>2, <2>1, <2>3
<1>. QED BY <1>1, <1>2 DEF StillAllowed

LEMMA ChecksStep ==
    RosterTypeOK /\ LocksExclude /\ AbsentHold /\ ChecksHold /\ [RosterNext]_rosterVars => ChecksHold'
<1>. SUFFICES ASSUME RosterTypeOK, LocksExclude, AbsentHold, ChecksHold, [RosterNext]_rosterVars,
                     NEW h \in Transactions, Running(h)', tx'[h].checked
              PROVE  StillAllowed(h)'
  BY DEF ChecksHold
<1>1. ASSUME NEW t \in Transactions, NEW s \in Sessions, NEW c \in Command, Give(t, s, c)
      PROVE  StillAllowed(h)'
  <2>1. h # t BY <1>1 DEF Give, RosterTypeOK
  <2>2. tx'[h] = tx[h] BY <1>1, <2>1 DEF Give, RosterTypeOK
  <2>3. StillAllowed(h) BY <2>2 DEF ChecksHold, Running
  <2>. QED BY <1>1, <2>2, <2>3, ChecksFrame DEF Give, Running, tables, history, Booked
<1>2. ASSUME NEW t \in Transactions, TakeLock(t) PROVE StillAllowed(h)'
  <2>1. h # t
    <3>. SUFFICES ASSUME h = t PROVE FALSE OBVIOUS
    <3>1. tx[t] \in Tx /\ Running(t) /\ tx[t].held < 3 BY <1>2, TxFields DEF TakeLock
    <3>2. tx'[t] = [tx[t] EXCEPT !.held = @ + 1] BY <1>2 DEF TakeLock, RosterTypeOK
    <3>3. tx[t].checked BY <3>1, <3>2 DEF Tx
    <3>4. tx[t].held = 3 BY <3>1, <3>3 DEF ChecksHold, StillAllowed
    <3>. QED BY <3>1, <3>4
  <2>2. tx'[h] = tx[h] BY <1>2, <2>1 DEF TakeLock, RosterTypeOK
  <2>3. StillAllowed(h) BY <2>2 DEF ChecksHold, Running
  <2>. QED BY <1>2, <2>2, <2>3, ChecksFrame DEF TakeLock, Running, tables, history, Booked
<1>3. ASSUME NEW t \in Transactions, Check(t) PROVE StillAllowed(h)'
  <2>0. UNCHANGED <<session, roster, invigilators, auto, examOf>>
    BY <1>3 DEF Check, tables, history
  <2>1. CASE h # t
    <3>1. tx'[h] = tx[h] BY <1>3, <2>1 DEF Check, RosterTypeOK
    <3>2. StillAllowed(h) BY <3>1 DEF ChecksHold, Running
    <3>. QED BY <2>0, <3>1, <3>2, ChecksFrame DEF Running, Booked
  <2>2. CASE h = t
    <3>1. tx[t] \in Tx /\ Running(t) /\ tx[t].held = 3 /\ Allowed(t)
      BY <1>3, TxFields DEF Check
    <3>2. /\ tx'[t] = [tx[t] EXCEPT !.checked = TRUE, !.clashing = Clashing(tx[t].session)]
      BY <1>3 DEF Check, RosterTypeOK
    <3>3. /\ tx'[t].held = 3 /\ tx'[t].session = tx[t].session
          /\ tx'[t].command = tx[t].command /\ tx'[t].clashing = Clashing(tx[t].session)
      BY <3>1, <3>2 DEF Tx
    <3>4. Kind(t)' = Kind(t) /\ Adds(t)' = Adds(t) BY <2>0, <3>3 DEF Kind, Adds
    <3>5. Adds(t) \cap Clashing(tx[t].session) = {}
      BY <3>1 DEF Allowed, FreeOf, Adds, Kind
    <3>6. \A z \in Sessions : Conflict(tx[t].session, z) =>
             Booked(z) \subseteq Clashing(tx[t].session)
      BY DEF Clashing
    <3>7. /\ Kind(t) \notin {"invigilate", "release"} \cup Starts =>
                  session[tx[t].session].status = "SCHEDULED"
          /\ Kind(t) = "start" => session[tx[t].session].status \in Open
      BY <3>1, TxFields DEF Allowed, Modifiable, Kind, Starts
    <3>8. Kind(t) = "assign" /\ session[tx[t].session].room # None =>
             Cardinality(roster[tx[t].session] \cup tx[t].command.students)
               <= Capacity[session[tx[t].session].room]
      <4>1. Kind(t) = "assign" => Fits(tx[t].session, Adds(t)) BY <3>1 DEF Allowed, Kind
      <4>2. Kind(t) = "assign" => roster[tx[t].session] \cup Adds(t)
                                  = roster[tx[t].session] \cup tx[t].command.students
        BY DEF Adds
      <4>. QED BY <4>1, <4>2 DEF Fits
    <3>9. Kind(t) = "move" /\ tx[t].command.room # None => Cardinality(roster[tx[t].session]) <= Capacity[tx[t].command.room]
      BY <3>1 DEF Allowed, Kind
    <3>. QED
      BY <2>0, <2>2, <3>3, <3>4, <3>5, <3>6, <3>7, <3>8, <3>9
      DEF StillAllowed, Conflict, Booked
  <2>. QED BY <2>1, <2>2
<1>4. ASSUME NEW t \in Transactions, Commit(t) PROVE StillAllowed(h)'
  <2>1. h # t BY <1>4 DEF Commit, RosterTypeOK, Running
  <2>2. tx'[h] = tx[h] /\ UNCHANGED examOf BY <1>4, <2>1 DEF Commit, RosterTypeOK
  <2>3. Running(h) /\ tx[h].checked /\ StillAllowed(h) BY <2>2 DEF ChecksHold, Running
  <2>4. Running(t) /\ tx[t].checked /\ StillAllowed(t) BY <1>4 DEF Commit, ChecksHold
  <2>5. tx[h].held = 3 /\ tx[t].held = 3 BY <2>3, <2>4 DEF StillAllowed
  <2>6. CASE Shares(h) /\ Shares(t)
    <3>1. /\ session' = session /\ invigilators' = invigilators
          /\ roster' = [roster EXCEPT ![tx[t].session] = @ \cup {tx[t].command.student}]
      BY <1>4, <2>6 DEF Commit, SetSession, SetInvigilators, SetRoster, Shares, Kind, Starts
    <3>2. Kind(h) \in Starts /\ Adds(h) = {} BY <2>6 DEF Shares, Adds, Starts
    <3>3. Kind(h)' = Kind(h) /\ Adds(h)' = {} BY <2>2, <3>2 DEF Kind, Adds, Starts
    <3>. QED BY <2>2, <2>3, <3>1, <3>2, <3>3 DEF StillAllowed, Starts
  <2>7. CASE ~(Shares(h) /\ Shares(t))
    <3>1. examOf[tx[h].session] # examOf[tx[t].session]
      BY <2>1, <2>3, <2>4, <2>5, <2>7 DEF LocksExclude
    <3>2. tx[h].session \in Sessions BY <2>3, TxFields
    <3>3. \A z \in Sessions : z # tx[t].session =>
             /\ session'[z] = session[z] /\ roster'[z] = roster[z]
             /\ invigilators'[z] = invigilators[z] /\ auto'[z] = auto[z]
      BY <1>4, CommitFrame
    <3>. QED BY <2>2, <2>3, <3>1, <3>2, <3>3, ChecksFrame DEF Booked
  <2>. QED BY <2>6, <2>7
<1>5. ASSUME NEW t \in Transactions, RollBack(t) PROVE StillAllowed(h)'
  <2>1. h # t BY <1>5 DEF RollBack, RosterTypeOK, Running
  <2>2. tx'[h] = tx[h] BY <1>5, <2>1 DEF RollBack, RosterTypeOK
  <2>3. StillAllowed(h) BY <2>2 DEF ChecksHold, Running
  <2>. QED BY <1>5, <2>2, <2>3, ChecksFrame DEF RollBack, Running, tables, history, Booked
<1>6. ASSUME NEW s \in Sessions, NEW p \in Students, ViewSession(s, p) PROVE StillAllowed(h)'
  <2>1. /\ UNCHANGED <<examOf, session, invigilators, tx>>
        /\ roster' = [roster EXCEPT ![s] = @ \cup {p}]
        /\ auto' = [auto EXCEPT ![s] = @ \cup {p}]
    BY <1>6 DEF ViewSession
  <2>2. Running(h) /\ StillAllowed(h) BY <2>1 DEF ChecksHold, Running
  <2>3. CASE tx[h].session = s
    <3>3. Shares(h) BY <1>6, <2>2, <2>3, HoldsSession DEF ViewSession, StillAllowed
    <3>4. Kind(h) \in Starts /\ Adds(h) = {} BY <3>3 DEF Shares, Adds, Starts
    <3>5. Kind(h)' = Kind(h) /\ Adds(h)' = {} BY <2>1, <3>4 DEF Kind, Adds, Starts
    <3>. QED BY <2>1, <2>2, <3>4, <3>5 DEF StillAllowed, Starts
  <2>4. CASE tx[h].session # s
    BY <2>1, <2>2, <2>4, ChecksFrame DEF Booked, RosterTypeOK
  <2>. QED BY <2>3, <2>4
<1>7. ASSUME NEW s \in Sessions, NEW r \in Rooms \cup {None}, NEW w \in Slots, CreateSession(s, r, w)
      PROVE  StillAllowed(h)'
  <2>1. /\ UNCHANGED <<examOf, roster, invigilators, auto, tx>>
        /\ \A z \in Sessions \ {s} : session'[z] = session[z]
    BY <1>7 DEF CreateSession, history, RosterTypeOK
  <2>2. Running(h) /\ StillAllowed(h) BY <2>1 DEF ChecksHold, Running
  <2>3. examOf[tx[h].session] \in Holds(h) /\ tx[h].session \in Sessions
    BY <2>2, HoldsExam, TxFields DEF StillAllowed
  <2>4. examOf[tx[h].session] # examOf[s] BY <1>7, <2>3 DEF CreateSession
  <2>. QED BY <2>1, <2>2, <2>3, <2>4, ChecksFrame DEF Booked
<1>8. ASSUME NEW s \in Sessions, NEW w \in Slots, NEW P \in SUBSET Students, NEW f \in Staff,
             ScheduleExam(s, w, P, f)
      PROVE  StillAllowed(h)'
  <2>1. /\ UNCHANGED <<examOf, auto, tx>>
        /\ \A z \in Sessions \ {s} : /\ session'[z] = session[z] /\ roster'[z] = roster[z]
                                      /\ invigilators'[z] = invigilators[z]
    BY <1>8 DEF ScheduleExam, RosterTypeOK
  <2>2. Running(h) /\ StillAllowed(h) BY <2>1 DEF ChecksHold, Running
  <2>3. tx[h].session \in Sessions /\ session[tx[h].session].status # "ABSENT"
    BY <2>2, TxFields DEF AbsentHold
  <2>4. examOf[tx[h].session] # examOf[s] BY <1>8, <2>3 DEF ScheduleExam
  <2>. QED BY <2>1, <2>2, <2>3, <2>4, ChecksFrame DEF Booked
<1>9. ASSUME NEW s \in Sessions, SignOff(s) PROVE StillAllowed(h)'
  <2>1. /\ UNCHANGED <<examOf, roster, invigilators, auto, tx>>
        /\ \A z \in Sessions \ {s} : session'[z] = session[z]
        /\ session'[s] = [session[s] EXCEPT !.status = "CONCLUDED"]
    BY <1>9 DEF SignOff, history, RosterTypeOK
  <2>2. Running(h) /\ StillAllowed(h) BY <2>1 DEF ChecksHold, Running
  <2>3. session'[s].status \notin Open BY <2>1 DEF RosterTypeOK, Session, Open
  <2>4. CASE tx[h].session = s
    <3>1. Kind(h) = "startByExam" BY <1>9, <2>2, <2>4, HoldsSession DEF SignOff, StillAllowed
    <3>2. Kind(h)' = "startByExam" /\ Adds(h)' = {} BY <2>1, <3>1 DEF Kind, Adds
    <3>. QED BY <2>1, <2>2, <3>1, <3>2 DEF StillAllowed, Starts
  <2>5. CASE tx[h].session # s BY <2>1, <2>2, <2>3, <2>5, TxFields, ChecksFrame DEF Booked
  <2>. QED BY <2>4, <2>5
<1>10. CASE UNCHANGED rosterVars
  <2>1. StillAllowed(h) BY <1>10 DEF rosterVars, ChecksHold, Running
  <2>. QED BY <1>10, <2>1, ChecksFrame DEF rosterVars, tables, history, Running, Booked
<1>. QED BY <1>1, <1>2, <1>3, <1>4, <1>5, <1>6, <1>7, <1>8, <1>9, <1>10 DEF RosterNext

LEMMA LocksInit == RosterInit => LocksExclude /\ AbsentHold /\ ChecksHold
  BY DEF RosterInit, LocksExclude, AbsentHold, ChecksHold, Running, Booked

\* The locks keep what was checked, for any number of transactions.
LEMMA ChecksAreKept == RosterSpec => [](RosterTypeOK /\ LocksExclude /\ AbsentHold /\ ChecksHold)
  BY RosterTypeInit, RosterTypeStep, LocksInit, LocksStep, AbsentStep, ChecksStep, PTL DEF RosterSpec

(***************************************************************************)
(* Concluded sessions.                                                     *)
(***************************************************************************)
\* No command changes a concluded session or its roster, whenever it began: only looking at
\* the session and starts by exam id add to the roster.
THEOREM ConcludedKept == RosterSpec => ConcludedRosterIsKept
<1>1. RosterTypeOK /\ AbsentHold /\ ChecksHold /\ [RosterNext]_rosterVars =>
        [\A s \in Sessions : session[s].status = "CONCLUDED" =>
            /\ session'[s] = session[s] /\ roster[s] \subseteq roster'[s]
            /\ \A p \in roster'[s] \ roster[s] : tx' = tx \/ LateStart(s, p)]_rosterVars
  <2>. SUFFICES ASSUME RosterTypeOK, AbsentHold, ChecksHold, RosterNext, NEW s \in Sessions,
                       session[s].status = "CONCLUDED"
                PROVE  /\ session'[s] = session[s] /\ roster[s] \subseteq roster'[s]
                       /\ \A p \in roster'[s] \ roster[s] : tx' = tx \/ LateStart(s, p)
    OBVIOUS
  <2>. DEFINE Kept == /\ session'[s] = session[s] /\ roster[s] \subseteq roster'[s]
                      /\ \A p \in roster'[s] \ roster[s] : tx' = tx \/ LateStart(s, p)
  <2>1. ASSUME NEW t \in Transactions, Commit(t) PROVE Kept
    <3>1. CASE s # tx[t].session BY <2>1, <3>1, CommitFrame
    <3>2. CASE s = tx[t].session
      <4>1. Running(t) /\ StillAllowed(t) BY <2>1 DEF Commit, ChecksHold
      <4>2. Kind(t) \in {"invigilate", "release", "startByExam"}
        BY <3>2, <4>1 DEF StillAllowed, Starts, Open
      <4>3. session' = session BY <2>1, <4>2 DEF Commit, SetSession, Kind
      <4>4. CASE Kind(t) # "startByExam"
        <5>1. roster' = roster BY <2>1, <4>2, <4>4 DEF Commit, SetRoster, Kind, Starts
        <5>. QED BY <4>3, <5>1
      <4>5. CASE Kind(t) = "startByExam"
        <5>1. roster'[s] = roster[s] \cup {tx[t].command.student}
          BY <2>1, <3>2, <4>5 DEF Commit, SetRoster, Kind, Starts, RosterTypeOK
        <5>2. tx'[t] = None BY <2>1 DEF Commit, RosterTypeOK
        <5>. QED BY <3>2, <4>1, <4>3, <4>5, <5>1, <5>2 DEF LateStart
      <4>. QED BY <4>4, <4>5
    <3>. QED BY <3>1, <3>2
  <2>2. ASSUME NEW z \in Sessions, NEW p \in Students, ViewSession(z, p) PROVE Kept
    BY <2>2 DEF ViewSession, RosterTypeOK
  <2>3. ASSUME NEW z \in Sessions, NEW r \in Rooms \cup {None}, NEW w \in Slots,
               CreateSession(z, r, w)
        PROVE  Kept
    BY <2>3 DEF CreateSession, RosterTypeOK
  <2>4. ASSUME NEW z \in Sessions, NEW w \in Slots, NEW P \in SUBSET Students, NEW f \in Staff,
               ScheduleExam(z, w, P, f)
        PROVE  Kept
    BY <2>4 DEF ScheduleExam, RosterTypeOK
  <2>5. ASSUME NEW z \in Sessions, SignOff(z) PROVE Kept
    <3>1. [session[s] EXCEPT !.status = "CONCLUDED"] = session[s]
      <4>1. session[s] \in Session BY DEF RosterTypeOK
      <4>. QED BY <4>1 DEF Session
    <3>. QED BY <2>5, <3>1 DEF SignOff, RosterTypeOK
  <2>6. ASSUME UNCHANGED <<session, roster>> PROVE Kept BY <2>6
  <2>. QED
    BY <2>1, <2>2, <2>3, <2>4, <2>5, <2>6
    DEF RosterNext, Give, TakeLock, Check, RollBack, tables
<1>. QED BY <1>1, ChecksAreKept, PTL DEF RosterSpec, ConcludedRosterIsKept

(***************************************************************************)
(* Capacity.                                                               *)
(***************************************************************************)
LEMMA CapacityStep ==
    RosterTypeOK /\ AbsentHold /\ ChecksHold /\ OverfullOnlyByAutoEnrolment /\ [RosterNext]_rosterVars
      => OverfullOnlyByAutoEnrolment'
<1>. SUFFICES ASSUME RosterTypeOK, AbsentHold, ChecksHold, OverfullOnlyByAutoEnrolment, [RosterNext]_rosterVars,
                     NEW s \in Sessions, session'[s].room # None, auto'[s] = {}
              PROVE  Cardinality(roster'[s]) <= Capacity[session'[s].room]
  BY DEF OverfullOnlyByAutoEnrolment
<1>0. session[s].room # None /\ auto[s] = {} =>
         Cardinality(roster[s]) <= Capacity[session[s].room]
  BY DEF OverfullOnlyByAutoEnrolment
<1>1. ASSUME NEW t \in Transactions, Commit(t)
      PROVE  Cardinality(roster'[s]) <= Capacity[session'[s].room]
  <2>1. auto[s] = {} BY <1>1 DEF Commit, RosterTypeOK
  <2>2. CASE s # tx[t].session BY <1>0, <1>1, <2>1, <2>2, CommitFrame
  <2>3. CASE s = tx[t].session
    <3>0. Running(t) /\ StillAllowed(t) BY <1>1 DEF Commit, ChecksHold
    <3>1. CASE Kind(t) = "assign"
      <4>1. session' = session /\ roster'[s] = roster[s] \cup tx[t].command.students
        BY <1>1, <2>3, <3>1 DEF Commit, SetSession, SetRoster, Kind, Starts, RosterTypeOK
      <4>. QED BY <2>3, <3>0, <3>1, <4>1 DEF StillAllowed
    <3>2. CASE Kind(t) = "move"
      <4>1. session'[s] = [session[s] EXCEPT !.room = tx[t].command.room] /\ roster' = roster
        BY <1>1, <2>3, <3>2 DEF Commit, SetSession, SetRoster, Kind, Starts, RosterTypeOK
      <4>2. session'[s].room = tx[t].command.room BY <4>1 DEF RosterTypeOK, Session
      <4>. QED BY <2>3, <3>0, <3>2, <4>1, <4>2 DEF StillAllowed
    <3>3. CASE Kind(t) = "remove"
      <4>1. session' = session /\ roster'[s] = roster[s] \ {tx[t].command.student}
        BY <1>1, <2>3, <3>3 DEF Commit, SetSession, SetRoster, Kind, Starts, RosterTypeOK
      <4>2. IsFiniteSet(roster[s]) BY RosterAssumption, FS_Subset DEF RosterTypeOK
      <4>3. Cardinality(roster'[s]) <= Cardinality(roster[s])
        BY <4>1, <4>2, FS_Subset
      <4>4. /\ Cardinality(roster[s]) \in Nat /\ Cardinality(roster'[s]) \in Nat
        BY <4>1, <4>2, FS_Subset, FS_CardinalityType
      <4>5. session[s].room \in Rooms BY <4>1 DEF RosterTypeOK, Session
      <4>6. Capacity[session[s].room] \in Nat BY <4>5, RosterAssumption
      <4>. QED BY <1>0, <2>1, <4>1, <4>3, <4>4, <4>6
    <3>4. CASE Kind(t) \in Starts
      <4>1. session' = session /\ roster'[s] = roster[s] \cup {tx[t].command.student}
        BY <1>1, <2>3, <3>4 DEF Commit, SetSession, SetRoster, Kind, Starts, RosterTypeOK
      <4>2. tx[t].command.student \in roster[s]
        BY <1>1, <2>3, <3>4 DEF Commit, Kind, Starts, RosterTypeOK
      <4>3. roster'[s] = roster[s] BY <4>1, <4>2
      <4>. QED BY <1>0, <2>1, <4>1, <4>3
    <3>5. CASE Kind(t) \in {"invigilate", "release", "reschedule", "setStatus"}
      <4>1. roster' = roster /\ session'[s].room = session[s].room
        BY <1>1, <3>5 DEF Commit, SetSession, SetRoster, Kind, Starts, RosterTypeOK, Session
      <4>. QED BY <1>0, <2>1, <4>1
    <3>. QED BY <3>0, <3>1, <3>2, <3>3, <3>4, <3>5, TxFields DEF Starts
  <2>. QED BY <2>2, <2>3
<1>2. ASSUME NEW z \in Sessions, NEW p \in Students, ViewSession(z, p)
      PROVE  Cardinality(roster'[s]) <= Capacity[session'[s].room]
  BY <1>0, <1>2 DEF ViewSession, RosterTypeOK
<1>3. ASSUME NEW z \in Sessions, NEW r \in Rooms \cup {None}, NEW w \in Slots, CreateSession(z, r, w)
      PROVE  Cardinality(roster'[s]) <= Capacity[session'[s].room]
  <2>1. roster' = roster /\ auto' = auto /\ session'[s] \in Session
    BY <1>3, RosterTypeStep DEF CreateSession, history, RosterTypeOK, RosterNext
  <2>2. CASE s = z
    <3>1. Cardinality(roster'[s]) = 0
      BY <1>3, <2>1, <2>2, FS_EmptySet DEF CreateSession, AbsentHold, Booked
    <3>2. Capacity[session'[s].room] \in Nat BY <2>1, RosterAssumption DEF Session
    <3>. QED BY <3>1, <3>2
  <2>3. CASE s # z
    BY <1>0, <1>3, <2>1, <2>3 DEF CreateSession, RosterTypeOK
  <2>. QED BY <2>2, <2>3
<1>4. ASSUME NEW z \in Sessions, NEW w \in Slots, NEW P \in SUBSET Students, NEW f \in Staff,
             ScheduleExam(z, w, P, f)
      PROVE  Cardinality(roster'[s]) <= Capacity[session'[s].room]
  <2>1. s # z BY <1>4 DEF ScheduleExam, RosterTypeOK
  <2>. QED BY <1>0, <1>4, <2>1 DEF ScheduleExam, RosterTypeOK
<1>5. ASSUME NEW z \in Sessions, SignOff(z)
      PROVE  Cardinality(roster'[s]) <= Capacity[session'[s].room]
  <2>1. session'[s].room = session[s].room BY <1>5 DEF SignOff, RosterTypeOK, Session
  <2>. QED BY <1>0, <1>5, <2>1 DEF SignOff, history
<1>. QED
  BY <1>0, <1>1, <1>2, <1>3, <1>4, <1>5 DEF RosterNext, Give, TakeLock, Check, RollBack, rosterVars, tables, history

LEMMA CapacityInit == RosterInit => OverfullOnlyByAutoEnrolment
  BY DEF RosterInit, OverfullOnlyByAutoEnrolment

\* With any rooms and candidates, only automatic enrolment fills a room beyond its capacity.
THEOREM CapacityKept == RosterSpec => []OverfullOnlyByAutoEnrolment
  BY ChecksAreKept, CapacityInit, CapacityStep, PTL DEF RosterSpec

(***************************************************************************)
(* Conflicts of time.                                                      *)
(***************************************************************************)
\* What may explain that p is booked in both s and z at the same time.
Explained(s, z, p) ==
    \/ s \in moved \/ z \in moved
    \/ p \in auto[s] \cup auto[z] \cup unchecked[s] \cup unchecked[z]
    \/ examOf[s] # examOf[z] /\ {<<s, z, p>>, <<z, s, p>>} \cap raced # {}

\* An explanation stays one.
LEMMA ExplainedStays ==
    ASSUME RosterTypeOK, [RosterNext]_rosterVars, NEW s \in Sessions, NEW z \in Sessions, NEW p,
           Explained(s, z, p)
    PROVE  Explained(s, z, p)'
<1>1. ASSUME /\ moved \subseteq moved' /\ raced \subseteq raced' /\ examOf' = examOf
             /\ \A y \in Sessions : auto[y] \subseteq auto'[y] /\ unchecked[y] \subseteq unchecked'[y]
      PROVE  Explained(s, z, p)'
  BY <1>1 DEF Explained
<1>2. ASSUME NEW t \in Transactions, Commit(t) PROVE Explained(s, z, p)'
  BY <1>1, <1>2 DEF Commit, RosterTypeOK
<1>3. ASSUME NEW y \in Sessions, NEW q \in Students, ViewSession(y, q) PROVE Explained(s, z, p)'
  BY <1>1, <1>3 DEF ViewSession, RosterTypeOK
<1>4. ASSUME NEW y \in Sessions, NEW w \in Slots, NEW P \in SUBSET Students, NEW f \in Staff,
             ScheduleExam(y, w, P, f)
      PROVE  Explained(s, z, p)'
  BY <1>1, <1>4 DEF ScheduleExam, RosterTypeOK
<1>5. CASE UNCHANGED <<examOf, auto, unchecked, moved, raced>> BY <1>5 DEF Explained
<1>. QED
  BY <1>2, <1>3, <1>4, <1>5
  DEF RosterNext, Give, TakeLock, Check, RollBack, CreateSession, SignOff, rosterVars, history

\* A commit that books p into its session finds every conflict that it did not check.
LEMMA BookingExplained ==
    ASSUME RosterTypeOK, LocksExclude, ChecksHold, NEW t \in Transactions, Commit(t),
           NEW s \in Sessions, s = tx[t].session, NEW z \in Sessions, Conflict(s, z),
           NEW p \in Adds(t) \cap Booked(z)
    PROVE  Explained(s, z, p)' /\ Explained(z, s, p)'
<1>1. Running(t) /\ StillAllowed(t) BY DEF Commit, ChecksHold
<1>2. /\ auto[z] \subseteq auto'[z] /\ UNCHANGED examOf /\ raced' = raced \cup RacedBy(t)
  BY DEF Commit, RosterTypeOK
<1>3. CASE examOf[z] = examOf[s]
  <2>1. p \in auto[z] BY <1>1, <1>3 DEF StillAllowed
  <2>. QED BY <1>2, <2>1 DEF Explained
<1>4. CASE examOf[z] # examOf[s]
  <2>1. p \notin tx[t].clashing BY <1>1 DEF StillAllowed
  <2>2. p \in Clashing(s) BY DEF Clashing
  <2>3. <<s, z, p>> \in RacedBy(t) BY <2>1, <2>2 DEF RacedBy
  <2>. QED BY <1>2, <1>4, <2>3 DEF Explained
<1>. QED BY <1>3, <1>4

\* A commit adds to its session's bookings only whom its command books, or an enrolled candidate.
LEMMA BookedAfterCommit ==
    ASSUME RosterTypeOK, NEW t \in Transactions, Commit(t), NEW s \in Sessions
    PROVE  Booked(s)' \subseteq Booked(s) \cup auto'[s]
                                \cup (IF s = tx[t].session THEN Adds(t) ELSE {})
<1>1. CASE s # tx[t].session BY <1>1, CommitFrame DEF Booked
<1>2. CASE s = tx[t].session
  <2>1. roster'[s] \subseteq roster[s] \cup auto'[s] \cup Adds(t)
    <3>0. /\ roster' = SetRoster(t) /\ Running(t)
          /\ roster[s] \in SUBSET Students /\ roster \in [Sessions -> SUBSET Students]
      BY DEF Commit, RosterTypeOK
    <3>1. CASE Kind(t) = "assign"
      <4>1. roster' = [roster EXCEPT ![s] = @ \cup tx[t].command.students]
        BY <1>2, <3>0, <3>1 DEF SetRoster, Kind, Starts
      <4>2. Adds(t) = tx[t].command.students \ roster[s]
        BY <1>2, <3>1 DEF Adds
      <4>. QED BY <3>0, <4>1, <4>2
    <3>2. CASE Kind(t) \in Starts
      <4>1. tx[t].command.student \in roster[s] \cup auto'[s]
        BY <1>2, <3>2 DEF Commit, Kind, Starts, RosterTypeOK
      <4>. QED BY <1>2, <3>0, <3>2, <4>1 DEF SetRoster, Kind, Starts
    <3>3. CASE Kind(t) \notin {"assign"} \cup Starts
      BY <1>2, <3>0, <3>3 DEF SetRoster, Kind
    <3>. QED BY <3>1, <3>2, <3>3
  <2>2. invigilators'[s] \subseteq invigilators[s] \cup Adds(t)
    BY <1>2 DEF Commit, SetInvigilators, Adds, Kind, RosterTypeOK
  <2>. QED BY <1>2, <2>1, <2>2 DEF Booked
<1>. QED BY <1>1, <1>2

LEMMA DoubleBookedStep ==
    RosterTypeOK /\ LocksExclude /\ AbsentHold /\ ChecksHold /\ DoubleBookingIsExplained /\ [RosterNext]_rosterVars
      => DoubleBookingIsExplained'
<1>. SUFFICES ASSUME RosterTypeOK, LocksExclude, AbsentHold, ChecksHold, DoubleBookingIsExplained,
                     [RosterNext]_rosterVars,
                     NEW s \in Sessions, NEW z \in Sessions, NEW p \in Booked(s)' \cap Booked(z)',
                     Conflict(s, z)', session'[s].status \in Open
              PROVE  Explained(s, z, p)'
  BY DEF DoubleBookingIsExplained, Explained
<1>0. ASSUME p \in Booked(s), p \in Booked(z), Conflict(s, z), session[s].status \in Open
      PROVE  Explained(s, z, p)'
  <2>1. Explained(s, z, p) BY <1>0 DEF DoubleBookingIsExplained, Explained
  <2>. QED BY <2>1, ExplainedStays
<1>1. s # z BY DEF Conflict
<1>2. ASSUME NEW t \in Transactions, Commit(t) PROVE Explained(s, z, p)'
  <2>0. Running(t) /\ tx[t].session \in Sessions BY <1>2, TxFields DEF Commit
  <2>1. ASSUME NEW y \in {s, z}, session'[y] # session[y],
               session'[y].status \in Open
        PROVE  \/ y \in moved'
               \/ /\ session'[y].slot = session[y].slot
                  /\ session[y].status \in Open
    <3>1. y = tx[t].session BY <1>2, <2>1, CommitFrame
    <3>2. \/ y \in moved'
          \/ /\ session'[y].slot = session[y].slot
             /\ session[y].status \in Open
      <4>1. CASE Kind(t) = "reschedule" BY <1>2, <2>0, <3>1, <4>1 DEF Commit, Kind
      <4>2. CASE Kind(t) # "reschedule"
        <5>1. session'[y].slot = session[y].slot
          BY <1>2, <2>0, <3>1, <4>2 DEF Commit, SetSession, Kind, RosterTypeOK, Session
        <5>2. StillAllowed(t) BY <1>2 DEF Commit, ChecksHold
        <5>3. Kind(t) \in {"move", "setStatus"}
          BY <1>2, <2>1, <4>2 DEF Commit, SetSession, Kind
        <5>4. session[y].status = "SCHEDULED" BY <3>1, <5>2, <5>3 DEF StillAllowed, Starts
        <5>. QED BY <5>1, <5>4 DEF Open
      <4>. QED BY <4>1, <4>2
    <3>. QED BY <3>2
  <2>2. CASE s \in moved' \/ z \in moved' BY <2>2 DEF Explained
  <2>3. CASE p \in auto'[s] \cup auto'[z] BY <2>3 DEF Explained
  <2>4. CASE s \notin moved' /\ z \notin moved' /\ p \notin auto'[s] \cup auto'[z]
    <3>1. Conflict(s, z) /\ session[s].status \in Open /\ session[z].status \in Open
      BY <2>1, <2>4 DEF Conflict
    <3>2. Conflict(z, s) BY <3>1 DEF Conflict
    <3>3. /\ p \in Booked(s) \/ (s = tx[t].session /\ p \in Adds(t))
          /\ p \in Booked(z) \/ (z = tx[t].session /\ p \in Adds(t))
      BY <1>2, <2>4, BookedAfterCommit
    <3>4. CASE p \in Booked(s) /\ p \in Booked(z) BY <1>0, <3>1, <3>4
    <3>5. CASE s = tx[t].session /\ p \in Adds(t) /\ p \in Booked(z)
      BY <1>2, <3>1, <3>5, BookingExplained
    <3>6. CASE z = tx[t].session /\ p \in Adds(t) /\ p \in Booked(s)
      BY <1>2, <3>2, <3>6, BookingExplained
    <3>. QED BY <1>1, <3>3, <3>4, <3>5, <3>6
  <2>. QED BY <2>2, <2>3, <2>4
<1>3. ASSUME NEW y \in Sessions, NEW q \in Students, ViewSession(y, q) PROVE Explained(s, z, p)'
  <2>1. session' = session BY <1>3 DEF ViewSession
  <2>2. \A x \in Sessions : Booked(x)' \subseteq Booked(x) \cup auto'[x]
    <3>1. \A x \in Sessions : roster'[x] \subseteq roster[x] \cup auto'[x]
      BY <1>3 DEF ViewSession, RosterTypeOK
    <3>2. invigilators' = invigilators BY <1>3 DEF ViewSession
    <3>. QED BY <3>1, <3>2 DEF Booked
  <2>3. CASE p \in auto'[s] \cup auto'[z] BY <2>3 DEF Explained
  <2>4. CASE p \notin auto'[s] \cup auto'[z]
    <3>1. p \in Booked(s) /\ p \in Booked(z) BY <2>2, <2>4
    <3>2. Conflict(s, z) /\ session[s].status \in Open BY <2>1 DEF Conflict
    <3>. QED BY <1>0, <3>1, <3>2
  <2>. QED BY <2>3, <2>4
<1>4. CASE UNCHANGED <<session, roster, invigilators>>
  BY <1>0, <1>4 DEF Conflict, Booked
<1>5. ASSUME NEW y \in Sessions, NEW r \in Rooms \cup {None}, NEW w \in Slots, CreateSession(y, r, w)
      PROVE  Explained(s, z, p)'
  <2>1. /\ Booked(s)' = Booked(s) /\ Booked(z)' = Booked(z)
        /\ \A x \in Sessions \ {y} : session'[x] = session[x]
    BY <1>5 DEF CreateSession, Booked, RosterTypeOK
  <2>2. Booked(y) = {} BY <1>5 DEF CreateSession, AbsentHold
  <2>3. s # y /\ z # y BY <2>1, <2>2
  <2>. QED BY <1>0, <2>1, <2>3 DEF Conflict
<1>6. ASSUME NEW y \in Sessions, NEW w \in Slots, NEW P \in SUBSET Students, NEW f \in Staff,
             ScheduleExam(y, w, P, f)
      PROVE  Explained(s, z, p)'
  <2>1. /\ Booked(y)' \subseteq unchecked'[y]
        /\ \A x \in Sessions \ {y} : session'[x] = session[x] /\ Booked(x)' = Booked(x)
    BY <1>6 DEF ScheduleExam, Booked, RosterTypeOK
  <2>2. CASE s = y \/ z = y BY <2>1, <2>2 DEF Explained
  <2>3. CASE s # y /\ z # y BY <1>0, <2>1, <2>3 DEF Conflict
  <2>. QED BY <2>2, <2>3
<1>7. ASSUME NEW y \in Sessions, SignOff(y) PROVE Explained(s, z, p)'
  <2>1. /\ Booked(s)' = Booked(s) /\ Booked(z)' = Booked(z)
        /\ session' = [session EXCEPT ![y] = [session[y] EXCEPT !.status = "CONCLUDED"]]
    BY <1>7 DEF SignOff, Booked
  <2>2. s # y /\ z # y BY <2>1 DEF Conflict, Open, RosterTypeOK, Session
  <2>. QED BY <1>0, <2>1, <2>2 DEF Conflict, RosterTypeOK
<1>. QED
  BY <1>2, <1>3, <1>4, <1>5, <1>6, <1>7 DEF RosterNext, Give, TakeLock, Check, RollBack, rosterVars, tables

LEMMA DoubleBookedInit == RosterInit => DoubleBookingIsExplained
  BY DEF RosterInit, DoubleBookingIsExplained, Booked

\* For any people and sessions, a person who is booked twice at one time was enrolled without
\* being assigned, booked by scheduleExam, which checks nothing, one of the sessions was
\* rescheduled, or sessions of two exams raced.
THEOREM BookingsExplained == RosterSpec => []DoubleBookingIsExplained
  BY ChecksAreKept, DoubleBookedInit, DoubleBookedStep, PTL DEF RosterSpec

=================================================================================
