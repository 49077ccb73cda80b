----------------------------- MODULE ManualGrading -----------------------------
(***************************************************************************)
(* The scores of the SUBMITTED attempts of one exam: evaluation stores the *)
(* first, graders award points to the subjective questions and recompute   *)
(* it (modules/evaluation/manualGrading), and analytics are computed from  *)
(* them and cached (modules/exams/examAnalytics.service.js).               *)
(*                                                                         *)
(* PostgreSQL runs the transactions at READ COMMITTED: every statement     *)
(* sees what was committed when it starts, and its own writes.             *)
(***************************************************************************)
EXTENDS Evaluator, Sequences, FiniteSets, FiniteSetsExt

CONSTANTS
    Attempts,
    Questions,      \* the questions that are graded, whatever their type
    Subjective,     \* those of type SHORT_ANSWER, ESSAY or CODE
    MaxPoints,      \* questions.default_points
    Graders,        \* connections that run saveManualGrade
    Readers,        \* requests for the analytics
    NoResult, NoGrade, NoRow,
    MaxGrades       \* bound on the grades given

ASSUME GradingAssumption ==
    /\ IsFiniteSet(Questions) /\ MaxPoints \in Nat /\ MaxGrades \in Nat
    /\ NoGrade \notin Nat

VARIABLES
    result,     \* results: the score of each attempt
    grade,      \* manual_grades: the points of each question
    audit,      \* manual_grade_audits
    cache,      \* exam_analytics_cache
    tx,         \* the running transactions of saveManualGrade
    report,     \* the running computations of getExamAnalytics
    skewed      \* history: attempts whose score two racing gradings computed

vars == <<result, grade, audit, cache, tx, report, skewed>>
gradingVars == <<grade, audit, tx, skewed>>

Points == 0 .. MaxPoints
Grade == Points \cup {NoGrade}
Grades == [Questions -> Grade]
\* COALESCE(SUM(points_awarded), 0) of the given grades.
ManualScore(points) ==
    LET given == {q \in Questions : points[q] # NoGrade}
    IN  IF given = {} THEN 0 ELSE MapThenSumSet(LAMBDA q : points[q], given)
Total(points) == ObjectiveScore + ManualScore(points)
\* The score that goes with given points: evaluation's until a question is graded.
ScoreFor(points) ==
    IF \A q \in Questions : points[q] = NoGrade THEN AggregateEvaluationResults ELSE Total(points)
Score == {0, AggregateEvaluationResults} \cup {Total(points) : points \in Grades}
ASSUME ScoreAssumption == NoResult \notin Score

\* previous: the points the transaction read (NoGrade: no row); raced: another
\* grading of the attempt committed after this one added up the points; deletes: it
\* deleted the cached report, which is there until the commit.
Grading == [pc : {"locked", "written", "summed", "scored", "waiting", "deleted"},
            attempt : Attempts, question : Questions, points : Points, previous : Grade,
            total : Score, raced : BOOLEAN, deletes : BOOLEAN]
Scores == [Attempts -> Score \cup {NoResult}]
\* behind: attempts whose grading overlapped: it committed while the report was computed,
\* or it found no report to delete and committed when this one was stored.
Report == [scores : Scores, points : [Attempts -> Grades], behind : SUBSET Attempts]

TypeOK ==
    /\ result \in Scores
    /\ grade \in [Attempts -> Grades]
    /\ audit \in [Attempts -> [Questions -> Seq([previous : Points, new : Points])]]
    /\ cache \in Report \cup {NoRow}
    /\ tx \in [Graders -> Grading \cup {NoRow}]
    /\ report \in [Readers -> [pc : {"scored", "itemized"}, data : Report] \cup {NoRow}]
    /\ skewed \subseteq Attempts

Init ==
    /\ result = [a \in Attempts |-> NoResult]
    /\ grade = [a \in Attempts |-> [q \in Questions |-> NoGrade]]
    /\ audit = [a \in Attempts |-> [q \in Questions |-> <<>>]]
    /\ cache = NoRow /\ tx = [g \in Graders |-> NoRow] /\ report = [r \in Readers |-> NoRow]
    /\ skewed = {}

\* evaluateAttempt: only the first result of an attempt is stored, and the
\* analytics cache is not touched.
Evaluate(a) ==
    /\ result[a] = NoResult
    /\ result' = [result EXCEPT ![a] = AggregateEvaluationResults]
    /\ UNCHANGED <<gradingVars, cache, report>>

(***************************************************************************)
(* Manual grading: one transaction, a step per statement.                  *)
(***************************************************************************)
Running(g) == tx[g] # NoRow
\* g has the row of the grade locked (FOR UPDATE found it, or it was inserted).
HoldsGrade(g, a, q) ==
    /\ Running(g) /\ tx[g].attempt = a /\ tx[g].question = q
    /\ tx[g].pc # "locked" \/ tx[g].previous # NoGrade
HoldsResult(g, a) ==
    Running(g) /\ tx[g].attempt = a /\ tx[g].pc \in {"scored", "waiting", "deleted"}

GradesGiven ==
    MapThenSumSet(LAMBDA a : MapThenSumSet(LAMBDA q : Len(audit[a][q]), Questions), Attempts)
    + Cardinality({g \in Graders : Running(g)})

\* Mutant: the grade is read without FOR UPDATE.
Wait_NoLock(g, a, q) == FALSE
Wait(g, a, q) == \E h \in Graders \ {g} : grade[a][q] # NoGrade /\ HoldsGrade(h, a, q)

\* The service has found the result and checked the points; the SELECT ... FOR
\* UPDATE waits for a locked row, and locks nothing when there is none.
LockGrade(g, a, q, p) ==
    /\ ~Running(g) /\ result[a] # NoResult /\ ~Wait(g, a, q) /\ GradesGiven < MaxGrades
    /\ tx' = [tx EXCEPT ![g] = [pc |-> "locked", attempt |-> a, question |-> q, points |-> p,
                                previous |-> grade[a][q], total |-> 0, raced |-> FALSE,
                                deletes |-> FALSE]]
    /\ UNCHANGED <<result, grade, audit, cache, report, skewed>>

At(g, pc) == Running(g) /\ tx[g].pc = pc
Others(g) == {h \in Graders \ {g} : HoldsGrade(h, tx[g].attempt, tx[g].question)}

\* The UPDATE, or the INSERT, which waits for a concurrent INSERT of the same key.
WriteGrade(g) ==
    /\ At(g, "locked") /\ Others(g) = {}
    /\ tx[g].previous = NoGrade => grade[tx[g].attempt][tx[g].question] = NoGrade
    /\ tx' = [tx EXCEPT ![g].pc = "written"]
    /\ UNCHANGED <<result, grade, audit, cache, report, skewed>>

\* Mutant: the sum is computed outside of the transaction.
Sees_Committed(g) == grade[tx[g].attempt]
\* The grades that statements of g see: the committed ones and its own.
Sees(g) == [grade[tx[g].attempt] EXCEPT ![tx[g].question] = tx[g].points]

SumGrades(g) ==
    /\ At(g, "written")
    /\ tx' = [tx EXCEPT ![g].pc = "summed", ![g].total = Total(Sees(g))]
    /\ UNCHANGED <<result, grade, audit, cache, report, skewed>>

\* UPDATE results waits for the row lock of another grading of the attempt.
UpdateScore(g) ==
    /\ At(g, "summed") /\ ~\E h \in Graders \ {g} : HoldsResult(h, tx[g].attempt)
    /\ tx' = [tx EXCEPT ![g].pc = "scored"]
    /\ UNCHANGED <<result, grade, audit, cache, report, skewed>>

AuditOf(t) == [previous |-> IF t.previous = NoGrade THEN 0 ELSE t.previous, new |-> t.points]

\* Another transaction has deleted the cached report and not committed.
CacheLocked(g) == \E h \in Graders \ {g} : Running(h) /\ tx[h].deletes

\* DELETE FROM exam_analytics_cache: waits for another DELETE of the row, and locks
\* nothing when there is none.
DeleteCache(g) ==
    /\ \/ At(g, "scored")
       \/ At(g, "waiting") /\ ~CacheLocked(g)
    /\ tx' = [tx EXCEPT ![g].pc = IF CacheLocked(g) THEN "waiting" ELSE "deleted",
                       ![g].deletes = ~CacheLocked(g) /\ cache # NoRow]
    /\ UNCHANGED <<result, grade, audit, cache, report, skewed>>

\* Mutant: the cache is left as it is.
Invalidated_Kept(g) == cache
\* What the commit leaves of the cached report.
Invalidated(g) ==
    IF tx[g].deletes \/ cache = NoRow THEN NoRow
    ELSE [cache EXCEPT !.behind = @ \cup {tx[g].attempt}]

\* A DELETE that waited for this one finds the row gone.
CommitGrade(g) ==
    LET t == tx[g] IN
    /\ At(g, "deleted")
    /\ grade' = [grade EXCEPT ![t.attempt][t.question] = t.points]
    /\ audit' = [audit EXCEPT ![t.attempt][t.question] = Append(@, AuditOf(t))]
    /\ result' = [result EXCEPT ![t.attempt] = t.total]
    /\ cache' = Invalidated(g)
    /\ tx' = [h \in Graders |->
                IF h = g THEN NoRow
                ELSE IF /\ At(h, "summed") /\ tx[h].attempt = t.attempt
                        /\ tx[h].question # t.question
                     THEN [tx[h] EXCEPT !.raced = TRUE]
                ELSE IF At(h, "waiting") /\ t.deletes
                     THEN [tx[h] EXCEPT !.pc = "deleted"] ELSE tx[h]]
    /\ skewed' = IF t.raced THEN skewed \cup {t.attempt} ELSE skewed \ {t.attempt}
    /\ report' = [r \in Readers |-> IF report[r] = NoRow THEN NoRow
                    ELSE [report[r] EXCEPT !.data.behind = @ \cup {t.attempt}]]

\* The INSERT finds the key taken, a statement fails, or the process dies.
RollBack(g) ==
    /\ Running(g)
    /\ tx' = [tx EXCEPT ![g] = NoRow]
    /\ UNCHANGED <<result, grade, audit, cache, report, skewed>>

(***************************************************************************)
(* Analytics: two queries, then the upsert, without a transaction.         *)
(***************************************************************************)
\* The manual points that a report shows: questions of other types are scored anew.
Shown == [a \in Attempts |->
             [q \in Questions |-> IF q \in Subjective THEN grade[a][q] ELSE NoGrade]]

\* Without forceRefresh the cached row, if there is one, is returned as it is.
ReadScores(r) ==
    /\ report[r] = NoRow
    /\ report' = [report EXCEPT ![r] =
           [pc |-> "scored",
            data |-> [scores |-> result, points |-> Shown, behind |-> {}]]]
    /\ UNCHANGED <<result, gradingVars, cache>>

ReadItems(r) ==
    /\ report[r] # NoRow /\ report[r].pc = "scored"
    /\ report' = [report EXCEPT ![r].pc = "itemized", ![r].data.points = Shown]
    /\ UNCHANGED <<result, gradingVars, cache>>

\* INSERT ... ON CONFLICT DO UPDATE waits for whoever deletes the row that it finds.
StoreReport(r) ==
    /\ report[r] # NoRow /\ report[r].pc = "itemized"
    /\ ~\E g \in Graders : Running(g) /\ tx[g].deletes
    /\ cache' = report[r].data
    /\ report' = [report EXCEPT ![r] = NoRow]
    /\ UNCHANGED <<result, gradingVars>>

Evaluated == {a \in Attempts : result[a] # NoResult}

Next ==
    \/ \E a \in Attempts : Evaluate(a)
    \/ \E g \in Graders :
          \/ \E a \in Attempts, q \in Questions, p \in Points : LockGrade(g, a, q, p)
          \/ WriteGrade(g) \/ SumGrades(g) \/ UpdateScore(g) \/ DeleteCache(g)
          \/ CommitGrade(g) \/ RollBack(g)
    \/ \E r \in Readers : ReadScores(r) \/ ReadItems(r) \/ StoreReport(r)

Spec == Init /\ [][Next]_vars

(***************************************************************************)
(* Properties.                                                             *)
(***************************************************************************)
\* Concurrent grading, first grades and rolled back ones included, leaves for each
\* question a chain of audit records: each starts from the points the one before
\* awarded, and the last awarded the present ones (saveManualGrade).
AuditIsAChain ==
    \A a \in Attempts, q \in Questions :
        LET log == audit[a][q] IN
        /\ \A i \in DOMAIN log : log[i].previous = IF i = 1 THEN 0 ELSE log[i - 1].new
        /\ IF log = <<>> THEN grade[a][q] = NoGrade ELSE grade[a][q] = log[Len(log)].new

\* The score of an attempt is what evaluation stored until it is graded, then the
\* total of its points, unless the last grading to commit had added them up before
\* another grader's grade of another question was committed (the recalculation of
\* saveManualGrade).
ScoreMissesOnlyRacingGrades ==
    \A a \in Evaluated \ skewed : result[a] = ScoreFor(grade[a])

\* If evaluator.js and the SQL of saveManualGrade give each answer of the paper the same
\* points, as they should for questions with one correct option and answers of at most
\* 8 decimals, grading changes the score of an attempt by the manual points only.
GradesOnlyAddPoints ==
    Unambiguous =>
        \A a \in Evaluated \ skewed :
            \/ result[a] = AggregateEvaluationResults + ManualScore(grade[a])
            \/ /\ result[a] = AggregateEvaluationResults
               /\ \A q \in Questions : grade[a][q] = NoGrade

\* A cached report shows the score of an attempt and its manual points as they are, and
\* unless graders raced, or graded a question that is not subjective, the points add up
\* to the score. Exceptions are attempts evaluated since, and those whose grading, from
\* its DELETE to its COMMIT, overlapped the computation (getExamAnalytics against
\* saveManualGrade's invalidation).
CacheMissesOnlyOverlaps ==
    cache # NoRow =>
        \A a \in Attempts \ cache.behind :
            cache.scores[a] # NoResult =>
                /\ cache.scores[a] = result[a] /\ cache.points[a] = Shown[a]
                /\ \/ a \in skewed \/ \E q \in Questions \ Subjective : grade[a][q] # NoGrade
                   \/ result[a] = ScoreFor(cache.points[a])

\* manualGrading.repository.js:171, "Atomic Result Recalculation: Recompute total
\* score across all questions": while no grading runs, each score is the total.
ScoreIsTotal ==
    (\A g \in Graders : ~Running(g)) => \A a \in Evaluated : result[a] = ScoreFor(grade[a])

================================================================================
