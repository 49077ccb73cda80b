------------------------- MODULE ManualGrading_proofs -------------------------
(***************************************************************************)
(* Proofs about ManualGrading for every set of attempts, questions, graders *)
(* and readers, any points and any number of grades.                       *)
(***************************************************************************)
EXTENDS ManualGrading, TLAPS

(***************************************************************************)
(* Totals.                                                                 *)
(***************************************************************************)
Ungraded == [q \in Questions |-> NoGrade]

\* The score that goes with no manual grades is the one of the evaluation.
LEMMA UngradedScore == Ungraded \in Grades /\ ScoreFor(Ungraded) = AggregateEvaluationResults
<1>1. Ungraded \in Grades BY DEF Ungraded, Grades, Grade
<1>2. \A q \in Questions : Ungraded[q] = NoGrade BY DEF Ungraded
<1>. QED BY <1>1, <1>2 DEF ScoreFor

\* Once a question is graded, the score is the total.
LEMMA GradedScore ==
    ASSUME NEW points, NEW q \in Questions, points[q] # NoGrade
    PROVE  ScoreFor(points) = Total(points)
  BY DEF ScoreFor

\* Totals, the score of the evaluation and zero are scores.
LEMMA Totals ==
    /\ 0 \in Score /\ AggregateEvaluationResults \in Score /\ NoResult \notin Score
    /\ \A points \in Grades : Total(points) \in Score
  BY ScoreAssumption DEF Score

(***************************************************************************)
(* Type correctness.                                                       *)
(***************************************************************************)
Steps == {"locked", "written", "summed", "scored", "waiting", "deleted"}
\* The steps once the points are added up.
AddedUp == Steps \ {"locked", "written"}

\* What a running grading carries, and what its statements see.
LEMMA GradingFields ==
    ASSUME TypeOK, NEW g \in Graders, Running(g)
    PROVE  /\ tx[g] \in Grading
           /\ tx[g].attempt \in Attempts /\ tx[g].question \in Questions
           /\ tx[g].points \in Points /\ tx[g].previous \in Grade /\ tx[g].total \in Score
           /\ tx[g].pc \in Steps /\ tx[g].raced \in BOOLEAN /\ tx[g].deletes \in BOOLEAN
           /\ Sees(g) \in Grades
           /\ AuditOf(tx[g]) \in [previous : Points, new : Points]
<1>1. tx[g] \in Grading BY DEF TypeOK, Running
<1>2. /\ tx[g].attempt \in Attempts /\ tx[g].question \in Questions
      /\ tx[g].points \in Points /\ tx[g].previous \in Grade /\ tx[g].total \in Score
      /\ tx[g].pc \in Steps /\ tx[g].raced \in BOOLEAN /\ tx[g].deletes \in BOOLEAN
  BY <1>1 DEF Grading, Steps
<1>3. grade[tx[g].attempt] \in Grades BY <1>2 DEF TypeOK
<1>4. Sees(g) \in Grades BY <1>2, <1>3 DEF Sees, Grades, Grade
<1>5. AuditOf(tx[g]) \in [previous : Points, new : Points]
  BY <1>2, GradingAssumption DEF AuditOf, Grade, Points
<1>. QED BY <1>1, <1>2, <1>4, <1>5

\* A step of one grading that only moves it on, or ends it, keeps the types.
LEMMA OneGrading ==
    ASSUME TypeOK, NEW g \in Graders, NEW t \in Grading \cup {NoRow},
           tx' = [tx EXCEPT ![g] = t],
           UNCHANGED <<result, grade, audit, cache, report, skewed>>
    PROVE  TypeOK'
<1>1. tx' \in [Graders -> Grading \cup {NoRow}] BY DEF TypeOK
<1>. QED BY <1>1 DEF TypeOK

\* The state of one report keeps the types.
LEMMA OneReport ==
    ASSUME TypeOK, NEW r \in Readers,
           NEW d \in [pc : {"scored", "itemized"}, data : Report] \cup {NoRow},
           report' = [report EXCEPT ![r] = d], cache' \in Report \cup {NoRow},
           UNCHANGED <<result, gradingVars>>
    PROVE  TypeOK'
<1>1. report' \in [Readers -> [pc : {"scored", "itemized"}, data : Report] \cup {NoRow}]
  BY DEF TypeOK
<1>. QED BY <1>1 DEF TypeOK, gradingVars

LEMMA TypeInit == Init => TypeOK
<1>. SUFFICES ASSUME Init PROVE TypeOK OBVIOUS
<1>1. <<>> \in Seq([previous : Points, new : Points]) OBVIOUS
<1>. QED BY <1>1 DEF Init, TypeOK, Scores, Grades, Grade

\* What the commit leaves of the cache is a report that lists the attempt, or nothing.
LEMMA InvalidatedReport ==
    ASSUME TypeOK, NEW g \in Graders, Running(g), NEW c, c = Invalidated(g)
    PROVE  /\ c \in Report \cup {NoRow}
           /\ c # NoRow => /\ cache # NoRow /\ c.scores = cache.scores
                           /\ c.points = cache.points
                           /\ c.behind = cache.behind \cup {tx[g].attempt}
<1>1. tx[g].attempt \in Attempts BY GradingFields
<1>2. CASE tx[g].deletes \/ cache = NoRow BY <1>2 DEF Invalidated
<1>3. CASE ~(tx[g].deletes \/ cache = NoRow)
  <2>1. cache \in Report BY <1>3 DEF TypeOK
  <2>2. c = [cache EXCEPT !.behind = @ \cup {tx[g].attempt}] BY <1>3 DEF Invalidated
  <2>. QED BY <1>1, <1>3, <2>1, <2>2 DEF Report
<1>. QED BY <1>2, <1>3

LEMMA CommitType ==
    ASSUME TypeOK, NEW g \in Graders, CommitGrade(g) PROVE TypeOK'
<1>. DEFINE t == tx[g]
            a == t.attempt
            q == t.question
            Entry == [previous : Points, new : Points]
            Data == [pc : {"scored", "itemized"}, data : Report] \cup {NoRow}
<1>0. Running(g) BY DEF CommitGrade, At
<1>1. /\ a \in Attempts /\ q \in Questions /\ t.points \in Points /\ t.total \in Score
      /\ AuditOf(t) \in Entry
  BY <1>0, GradingFields
<1>2. grade' \in [Attempts -> Grades]
  <2>1. [grade[a] EXCEPT ![q] = t.points] \in Grades BY <1>1 DEF TypeOK, Grades, Grade
  <2>2. grade' = [grade EXCEPT ![a] = [grade[a] EXCEPT ![q] = t.points]] BY DEF CommitGrade
  <2>. QED BY <2>1, <2>2 DEF TypeOK
<1>3. audit' \in [Attempts -> [Questions -> Seq(Entry)]]
  <2>1. audit[a] \in [Questions -> Seq(Entry)] /\ audit[a][q] \in Seq(Entry)
    BY <1>1 DEF TypeOK
  <2>2. Append(audit[a][q], AuditOf(t)) \in Seq(Entry)
    <3>1. \A S, log, e : log \in Seq(S) /\ e \in S => Append(log, e) \in Seq(S) OBVIOUS
    <3>. HIDE DEF Entry, a, q, t
    <3>. QED BY <1>1, <2>1, <3>1
  <2>3. [audit[a] EXCEPT ![q] = Append(audit[a][q], AuditOf(t))] \in [Questions -> Seq(Entry)]
    BY <2>1, <2>2
  <2>4. audit' = [audit EXCEPT ![a] = [audit[a] EXCEPT ![q] = Append(audit[a][q], AuditOf(t))]]
    BY DEF CommitGrade
  <2>. QED BY <2>3, <2>4 DEF TypeOK
<1>4. result' \in Scores BY <1>1 DEF CommitGrade, TypeOK, Scores
<1>5. tx' \in [Graders -> Grading \cup {NoRow}]
  <2>1. \A h \in Graders : Running(h) => /\ [tx[h] EXCEPT !.raced = TRUE] \in Grading
                                          /\ [tx[h] EXCEPT !.pc = "deleted"] \in Grading
    BY GradingFields DEF Grading
  <2>. QED BY <2>1 DEF CommitGrade, TypeOK, At
<1>6. report' \in [Readers -> Data]
  <2>1. ASSUME NEW r \in Readers, report[r] # NoRow
        PROVE  [report[r] EXCEPT !.data.behind = @ \cup {a}] \in Data
    <3>1. report[r] \in [pc : {"scored", "itemized"}, data : Report] BY <2>1 DEF TypeOK
    <3>2. [report[r].data EXCEPT !.behind = @ \cup {a}] \in Report
      BY <1>1, <3>1 DEF Report
    <3>. QED BY <3>1, <3>2
  <2>. QED BY <2>1 DEF CommitGrade, TypeOK
<1>7. skewed' \subseteq Attempts /\ cache' \in Report \cup {NoRow}
  BY <1>0, <1>1, InvalidatedReport DEF CommitGrade, TypeOK
<1>. QED BY <1>2, <1>3, <1>4, <1>5, <1>6, <1>7 DEF TypeOK

\* Every step of the system preserves the types.
LEMMA TypeStep == TypeOK /\ [Next]_vars => TypeOK'
<1>. SUFFICES ASSUME TypeOK, [Next]_vars PROVE TypeOK' OBVIOUS
<1>1. ASSUME NEW a \in Attempts, Evaluate(a) PROVE TypeOK'
  BY <1>1, Totals DEF Evaluate, TypeOK, gradingVars, Scores
<1>2. ASSUME NEW g \in Graders, NEW a \in Attempts, NEW q \in Questions, NEW p \in Points,
             LockGrade(g, a, q, p)
      PROVE  TypeOK'
  <2>1. grade[a][q] \in Grade BY DEF TypeOK, Grades
  <2>2. [pc |-> "locked", attempt |-> a, question |-> q, points |-> p,
         previous |-> grade[a][q], total |-> 0, raced |-> FALSE,
         deletes |-> FALSE] \in Grading
    BY <2>1, Totals DEF Grading
  <2>. QED BY <1>2, <2>2, OneGrading DEF LockGrade
<1>3. ASSUME NEW g \in Graders, WriteGrade(g) PROVE TypeOK'
  <2>1. [tx[g] EXCEPT !.pc = "written"] \in Grading
    BY <1>3, GradingFields DEF WriteGrade, At, Grading
  <2>. QED BY <1>3, <2>1, OneGrading DEF WriteGrade
<1>4. ASSUME NEW g \in Graders, SumGrades(g) PROVE TypeOK'
  <2>0. Running(g) BY <1>4 DEF SumGrades, At
  <2>1. tx[g] \in Grading /\ Total(Sees(g)) \in Score BY <2>0, GradingFields, Totals
  <2>. DEFINE n == Total(Sees(g))
  <2>2. tx' = [tx EXCEPT ![g] = [tx[g] EXCEPT !.pc = "summed", !.total = n]]
    BY <1>4 DEF SumGrades
  <2>. HIDE DEF n
  <2>3. n \in Score BY <2>1 DEF n
  <2>4. [tx[g] EXCEPT !.pc = "summed", !.total = n] \in Grading
    BY <2>1, <2>3 DEF Grading
  <2>. QED BY <1>4, <2>2, <2>4, OneGrading DEF SumGrades
<1>5. ASSUME NEW g \in Graders, UpdateScore(g) PROVE TypeOK'
  <2>1. [tx[g] EXCEPT !.pc = "scored"] \in Grading
    BY <1>5, GradingFields DEF UpdateScore, At, Grading
  <2>. QED BY <1>5, <2>1, OneGrading DEF UpdateScore
<1>6. ASSUME NEW g \in Graders, DeleteCache(g) \/ CommitGrade(g) PROVE TypeOK'
  <2>1. CASE DeleteCache(g)
    <3>1. PICK p \in {"waiting", "deleted"}, d \in BOOLEAN :
            tx' = [tx EXCEPT ![g] = [tx[g] EXCEPT !.pc = p, !.deletes = d]]
      BY <2>1 DEF DeleteCache
    <3>2. [tx[g] EXCEPT !.pc = p, !.deletes = d] \in Grading
      BY <2>1, GradingFields DEF DeleteCache, At, Grading
    <3>. QED BY <2>1, <3>1, <3>2, OneGrading DEF DeleteCache
  <2>2. CASE CommitGrade(g) BY <2>2, CommitType
  <2>. QED BY <1>6, <2>1, <2>2
<1>7. ASSUME NEW g \in Graders, RollBack(g) PROVE TypeOK'
  BY <1>7, OneGrading DEF RollBack
<1>0. Shown \in [Attempts -> Grades] BY DEF Shown, TypeOK, Grades, Grade
<1>8. ASSUME NEW r \in Readers, ReadScores(r) PROVE TypeOK'
  <2>1. [scores |-> result, points |-> Shown, behind |-> {}] \in Report
    BY <1>0 DEF TypeOK, Report
  <2>. QED BY <1>8, <2>1, OneReport DEF ReadScores, TypeOK
<1>9. ASSUME NEW r \in Readers, ReadItems(r) PROVE TypeOK'
  <2>1. report[r] \in [pc : {"scored", "itemized"}, data : Report] BY <1>9 DEF ReadItems, TypeOK
  <2>2. [report[r].data EXCEPT !.points = Shown] \in Report BY <1>0, <2>1 DEF TypeOK, Report
  <2>3. [report[r] EXCEPT !.pc = "itemized", !.data.points = Shown]
          \in [pc : {"scored", "itemized"}, data : Report]
    BY <2>1, <2>2
  <2>4. report' = [report EXCEPT
           ![r] = [report[r] EXCEPT !.pc = "itemized", !.data.points = Shown]]
    BY <1>9 DEF ReadItems
  <2>. HIDE DEF TypeOK
  <2>5. cache' \in Report \cup {NoRow} /\ UNCHANGED <<result, gradingVars>>
    BY <1>9 DEF ReadItems, TypeOK
  <2>. QED BY <2>3, <2>4, <2>5, OneReport
<1>10. ASSUME NEW r \in Readers, StoreReport(r) PROVE TypeOK'
  <2>1. report[r].data \in Report BY <1>10 DEF StoreReport, TypeOK
  <2>. QED BY <1>10, <2>1, OneReport DEF StoreReport
<1>11. CASE UNCHANGED vars BY <1>11 DEF vars, TypeOK
<1>. QED BY <1>1, <1>2, <1>3, <1>4, <1>5, <1>6, <1>7, <1>8, <1>9, <1>10, <1>11 DEF Next

\* Every reachable state of results, grades and reports is well typed.
THEOREM TypeCorrect == Spec => []TypeOK
  BY TypeInit, TypeStep, PTL DEF Spec

(***************************************************************************)
(* What the row locks and the audit trail guarantee.                       *)
(***************************************************************************)
\* One grading at a time holds a grade, one the score of an attempt.
RowsLocked ==
    \A g, h \in Graders : g # h =>
        /\ \A a \in Attempts, q \in Questions : ~(HoldsGrade(g, a, q) /\ HoldsGrade(h, a, q))
        /\ \A a \in Attempts : ~(HoldsResult(g, a) /\ HoldsResult(h, a))

\* The points a grading read are those it replaces.
ReadsHold ==
    \A g \in Graders, a \in Attempts, q \in Questions :
        HoldsGrade(g, a, q) => tx[g].previous = grade[a][q]

\* Only what has been evaluated is graded.
GradedHasResult ==
    /\ \A g \in Graders : Running(g) => result[tx[g].attempt] # NoResult
    /\ \A a \in Attempts : result[a] = NoResult => grade[a] = Ungraded

\* Unless another grading of the attempt committed in between, the total of a
\* grading is the one of the grades it will leave.
TotalsHold ==
    \A g \in Graders : Running(g) /\ tx[g].pc \in AddedUp /\ ~tx[g].raced =>
        tx[g].total = Total(Sees(g))

\* What a report, running or cached, says of an attempt that was not graded since.
Explained(data) ==
    \A a \in Attempts \ data.behind :
        data.scores[a] # NoResult => data.scores[a] = result[a] /\ data.points[a] = Shown[a]
ReportsHold ==
    /\ \A r \in Readers : report[r] # NoRow => Explained(report[r].data)
    /\ cache # NoRow => Explained(cache)

IInv == /\ RowsLocked /\ ReadsHold /\ GradedHasResult /\ TotalsHold
        /\ AuditIsAChain /\ ScoreMissesOnlyRacingGrades /\ ReportsHold

LEMMA IInvInit == Init => IInv
  BY DEF Init, IInv, RowsLocked, ReadsHold, GradedHasResult, TotalsHold, AuditIsAChain,
         ScoreMissesOnlyRacingGrades, ReportsHold, Evaluated, Running, HoldsGrade,
         HoldsResult, Ungraded

\* A grading that moves on without touching the tables, the others standing still,
\* disturbs nothing but what is said of itself.
LEMMA OneGradingKeeps ==
    ASSUME TypeOK, IInv, NEW g \in Graders, NEW t,
           tx' = [tx EXCEPT ![g] = t],
           UNCHANGED <<result, grade, audit, cache, report, skewed>>,
           Running(g)' => result[t.attempt] # NoResult,
           \A a \in Attempts, q \in Questions : HoldsGrade(g, a, q)' =>
               /\ \A h \in Graders \ {g} : ~HoldsGrade(h, a, q)
               /\ t.previous = grade[a][q],
           \A a \in Attempts : HoldsResult(g, a)' =>
               \A h \in Graders \ {g} : ~HoldsResult(h, a),
           Running(g)' /\ t.pc \in AddedUp /\ ~t.raced => t.total = Total(Sees(g))'
    PROVE  IInv'
<1>0. tx'[g] = t /\ \A h \in Graders \ {g} : tx'[h] = tx[h] BY DEF TypeOK
<1>1. \A h \in Graders \ {g} :
        /\ Running(h)' = Running(h)
        /\ \A a, q : HoldsGrade(h, a, q)' = HoldsGrade(h, a, q)
        /\ \A a : HoldsResult(h, a)' = HoldsResult(h, a)
  BY <1>0 DEF Running, HoldsGrade, HoldsResult
<1>2. RowsLocked'
  <2>. SUFFICES ASSUME NEW i \in Graders, NEW j \in Graders, i # j
                PROVE  (/\ \A a \in Attempts, q \in Questions :
                              ~(HoldsGrade(i, a, q) /\ HoldsGrade(j, a, q))
                        /\ \A a \in Attempts : ~(HoldsResult(i, a) /\ HoldsResult(j, a)))'
    BY DEF RowsLocked
  <2>. QED BY <1>1 DEF IInv, RowsLocked
<1>3. ReadsHold' BY <1>0, <1>1 DEF IInv, ReadsHold
<1>4. GradedHasResult' BY <1>0, <1>1 DEF IInv, GradedHasResult
<1>5. TotalsHold'
  <2>. SUFFICES ASSUME NEW h \in Graders,
                       (Running(h) /\ tx[h].pc \in AddedUp /\ ~tx[h].raced)'
                PROVE  (tx[h].total = Total(Sees(h)))'
    BY DEF TotalsHold
  <2>1. CASE h = g BY <1>0, <2>1
  <2>2. CASE h # g
    <3>1. Sees(h)' = Sees(h) BY <1>0, <2>2 DEF Sees
    <3>2. Total(Sees(h))' = Total(Sees(h)) BY <3>1
    <3>. QED BY <1>0, <1>1, <2>2, <3>2 DEF IInv, TotalsHold
  <2>. QED BY <2>1, <2>2
<1>6. AuditIsAChain' BY DEF IInv, AuditIsAChain
<1>7. ScoreMissesOnlyRacingGrades'
  BY DEF IInv, ScoreMissesOnlyRacingGrades, Evaluated
<1>8. ReportsHold' BY DEF IInv, ReportsHold, Explained, Shown
<1>. QED BY <1>2, <1>3, <1>4, <1>5, <1>6, <1>7, <1>8 DEF IInv

\* The commit of a grading: its locks make way for the others, its record extends
\* the audit trail, and whoever has added up without it is marked.
LEMMA CommitKeeps ==
    ASSUME TypeOK, IInv, NEW g \in Graders, CommitGrade(g) PROVE IInv'
<1>. DEFINE t == tx[g]
            b == t.attempt
            k == t.question
<1>0. /\ Running(g) /\ t.pc = "deleted" /\ HoldsGrade(g, b, k) /\ HoldsResult(g, b)
      /\ b \in Attempts /\ k \in Questions /\ t.points \in Points /\ t.total \in Score
  BY GradingFields DEF CommitGrade, At, HoldsGrade, HoldsResult
<1>1. ~Running(g)'
  BY DEF CommitGrade, TypeOK, Running
<1>2. ASSUME NEW h \in Graders \ {g}
      PROVE  /\ Running(h) => Running(h)' \/ tx'[h] = NoRow
             /\ Running(h)' => /\ Running(h)
                               /\ tx'[h].attempt = tx[h].attempt
                               /\ tx'[h].question = tx[h].question
                               /\ tx'[h].points = tx[h].points
                               /\ tx'[h].previous = tx[h].previous
                               /\ \/ tx'[h].pc = tx[h].pc
                                  \/ tx[h].pc = "waiting" /\ tx'[h].pc = "deleted"
                               /\ tx'[h].total = tx[h].total
                               /\ tx[h].raced => tx'[h].raced
                               /\ tx[h].pc = "summed" /\ tx[h].attempt = b
                                    /\ tx[h].question # k => tx'[h].raced
  <2>1. CASE At(h, "summed") /\ tx[h].attempt = b /\ tx[h].question # k
    <3>1. tx'[h] = [tx[h] EXCEPT !.raced = TRUE] BY <2>1 DEF CommitGrade
    <3>2. tx[h] \in Grading BY <2>1, GradingFields DEF At
    <3>. QED BY <2>1, <3>1, <3>2 DEF Grading, At, Running
  <2>2. CASE ~(At(h, "summed") /\ tx[h].attempt = b /\ tx[h].question # k)
    <3>1. CASE At(h, "waiting") /\ t.deletes
      <4>1. tx'[h] = [tx[h] EXCEPT !.pc = "deleted"] BY <2>2, <3>1 DEF CommitGrade
      <4>2. tx[h] \in Grading BY <3>1, GradingFields DEF At
      <4>. QED BY <3>1, <4>1, <4>2 DEF Grading, At, Running
    <3>2. CASE ~(At(h, "waiting") /\ t.deletes)
      <4>1. tx'[h] = tx[h] BY <2>2, <3>2 DEF CommitGrade
      <4>. QED BY <2>2, <4>1 DEF Running, At
    <3>. QED BY <3>1, <3>2
  <2>. QED BY <2>1, <2>2
<1>3. \A h \in Graders \ {g} : /\ \A a, q : HoldsGrade(h, a, q)' => HoldsGrade(h, a, q)
                               /\ \A a : HoldsResult(h, a)' => HoldsResult(h, a)
  BY <1>2 DEF HoldsGrade, HoldsResult
<1>4. /\ \A a \in Attempts, q \in Questions :
           grade'[a][q] = IF a = b /\ q = k THEN t.points ELSE grade[a][q]
      /\ \A a \in Attempts : a # b => grade'[a] = grade[a]
      /\ grade'[b] = Sees(g)
      /\ grade'[b] \in Grades
  BY <1>0, GradingFields DEF CommitGrade, TypeOK, Grades, Sees
<1>5. /\ \A a \in Attempts : result'[a] = IF a = b THEN t.total ELSE result[a]
      /\ t.total # NoResult
  BY <1>0, Totals DEF CommitGrade, TypeOK, Scores
<1>6. /\ \A a \in Attempts : a # b => (a \in skewed' <=> a \in skewed)
      /\ b \in skewed' <=> t.raced
  BY DEF CommitGrade
<1>7. RowsLocked'
  <2>. SUFFICES ASSUME NEW i \in Graders, NEW j \in Graders, i # j
                PROVE  (/\ \A a \in Attempts, q \in Questions :
                              ~(HoldsGrade(i, a, q) /\ HoldsGrade(j, a, q))
                        /\ \A a \in Attempts : ~(HoldsResult(i, a) /\ HoldsResult(j, a)))'
    BY DEF RowsLocked
  <2>1. CASE i = g \/ j = g BY <1>1, <2>1 DEF HoldsGrade, HoldsResult
  <2>2. CASE i # g /\ j # g BY <1>3, <2>2 DEF IInv, RowsLocked
  <2>. QED BY <2>1, <2>2
<1>8. ReadsHold'
  <2>. SUFFICES ASSUME NEW h \in Graders, NEW a \in Attempts, NEW q \in Questions,
                       HoldsGrade(h, a, q)'
                PROVE  tx'[h].previous = grade'[a][q]
    BY DEF ReadsHold
  <2>1. h # g BY <1>1 DEF HoldsGrade
  <2>2. HoldsGrade(h, a, q) /\ Running(h)' BY <1>3, <2>1 DEF HoldsGrade
  <2>3. ~(a = b /\ q = k) BY <1>0, <2>1, <2>2 DEF IInv, RowsLocked
  <2>. QED BY <1>2, <1>4, <2>1, <2>2, <2>3 DEF IInv, ReadsHold
<1>9. GradedHasResult'
  BY <1>1, <1>2, <1>4, <1>5, GradingFields DEF IInv, GradedHasResult
<1>10. TotalsHold'
  <2>. SUFFICES ASSUME NEW h \in Graders,
                       (Running(h) /\ tx[h].pc \in AddedUp /\ ~tx[h].raced)'
                PROVE  (tx[h].total = Total(Sees(h)))'
    BY DEF TotalsHold
  <2>1. h # g BY <1>1
  <2>2. /\ Running(h) /\ tx[h].pc \in AddedUp /\ tx[h].raced \in BOOLEAN
        /\ tx[h].attempt \in Attempts /\ tx[h].question \in Questions
    BY <1>2, <2>1, GradingFields DEF AddedUp, Steps
  <2>3. ~tx[h].raced /\ ~(tx[h].pc = "summed" /\ tx[h].attempt = b /\ tx[h].question # k)
    BY <1>2, <2>1
  <2>4. HoldsGrade(h, tx[h].attempt, tx[h].question) BY <2>2 DEF HoldsGrade, AddedUp, Steps
  <2>5. tx[h].attempt # b
    <3>1. tx[h].attempt = b => tx[h].question # k
      BY <1>0, <2>1, <2>4 DEF IInv, RowsLocked
    <3>2. tx[h].attempt = b => tx[h].pc \notin {"scored", "waiting", "deleted"}
      BY <1>0, <2>1, <2>2 DEF IInv, RowsLocked, HoldsResult
    <3>. QED BY <2>2, <2>3, <3>1, <3>2 DEF AddedUp, Steps
  <2>6. grade'[tx[h].attempt] = grade[tx[h].attempt] BY <1>4, <2>2, <2>5
  <2>7. Sees(h)' = Sees(h) BY <1>2, <2>1, <2>6 DEF Sees
  <2>8. Total(Sees(h))' = Total(Sees(h)) BY <2>7
  <2>9. tx'[h].total = tx[h].total BY <1>2, <2>1
  <2>. QED BY <2>2, <2>3, <2>8, <2>9 DEF IInv, TotalsHold
<1>11. AuditIsAChain'
  <2>. SUFFICES ASSUME NEW a \in Attempts, NEW q \in Questions
                PROVE  (LET log == audit[a][q] IN
                        /\ \A i \in DOMAIN log :
                             log[i].previous = IF i = 1 THEN 0 ELSE log[i - 1].new
                        /\ IF log = <<>> THEN grade[a][q] = NoGrade
                           ELSE grade[a][q] = log[Len(log)].new)'
    BY DEF AuditIsAChain
  <2>0. audit[a][q] \in Seq([previous : Points, new : Points]) BY DEF TypeOK
  <2>1. CASE a = b /\ q = k
    <3>. DEFINE log == audit[b][k]
                e == AuditOf(t)
    <3>1. audit'[a][q] = Append(log, e) BY <1>0, <2>1 DEF CommitGrade, TypeOK
    <3>2. /\ \A i \in DOMAIN log : log[i].previous = IF i = 1 THEN 0 ELSE log[i - 1].new
          /\ IF log = <<>> THEN grade[b][k] = NoGrade ELSE grade[b][k] = log[Len(log)].new
      BY <1>0 DEF IInv, AuditIsAChain
    <3>3. t.previous = grade[b][k] BY <1>0 DEF IInv, ReadsHold
    <3>4. log # <<>> => log[Len(log)].new \in Nat
      <4>1. log \in Seq([previous : Points, new : Points]) BY <2>0, <2>1
      <4>. HIDE DEF log, t, b, k
      <4>2. ASSUME log # <<>> PROVE log[Len(log)] \in [previous : Points, new : Points]
        <5>1. \A S, l : l \in Seq(S) /\ l # <<>> => l[Len(l)] \in S OBVIOUS
        <5>. QED BY <4>1, <4>2, <5>1
      <4>. QED BY <4>2, GradingAssumption DEF Points
    <3>5. e.previous = IF log = <<>> THEN 0 ELSE log[Len(log)].new
      BY <3>2, <3>3, <3>4, GradingAssumption DEF AuditOf
    <3>6. e.new = t.points BY DEF AuditOf
    <3>7. grade'[a][q] = t.points BY <1>4, <2>1
    <3>8. log \in Seq([previous : Points, new : Points]) BY <2>0, <2>1
    <3>9. e \in [previous : Points, new : Points] BY <1>0, GradingFields
    <3>. HIDE DEF log, e, t, b, k
    <3>10. \A n, N : n = Append(log, e) => /\ Len(n) = Len(log) + 1 /\ n # <<>>
                                           /\ DOMAIN n = 1 .. Len(log) + 1
                                           /\ n[Len(log) + 1] = e
                                           /\ \A i \in 1 .. Len(log) : n[i] = log[i]
      BY <3>8, <3>9
    <3>11. DOMAIN log = 1 .. Len(log) /\ Len(log) \in Nat /\ (log = <<>> <=> Len(log) = 0)
      BY <3>8
    <3>12. ASSUME NEW n, n = Append(log, e), NEW i \in DOMAIN n
           PROVE  n[i].previous = IF i = 1 THEN 0 ELSE n[i - 1].new
      <4>1. CASE i \in 1 .. Len(log) BY <3>2, <3>10, <3>11, <3>12, <4>1
      <4>2. CASE i = Len(log) + 1
        <5>1. n[i] = e BY <3>10, <3>12, <4>2
        <5>2. ASSUME Len(log) # 0 PROVE n[i - 1] = log[Len(log)]
          <6>1. i - 1 = Len(log) /\ Len(log) \in 1 .. Len(log) BY <3>11, <4>2, <5>2
          <6>. QED BY <3>10, <3>12, <6>1
        <5>. QED BY <3>5, <3>11, <4>2, <5>1, <5>2
      <4>. QED BY <3>10, <3>11, <3>12, <4>1, <4>2
    <3>13. \A n : n = Append(log, e) => n[Len(n)].new = t.points /\ n # <<>>
      BY <3>6, <3>10, <3>11
    <3>. QED BY <3>1, <3>7, <3>12, <3>13
  <2>2. CASE ~(a = b /\ q = k)
    <3>1. audit'[a][q] = audit[a][q] BY <1>0, <2>2 DEF CommitGrade, TypeOK
    <3>2. grade'[a][q] = grade[a][q] BY <1>4, <2>2
    <3>. QED BY <3>1, <3>2 DEF IInv, AuditIsAChain
  <2>. QED BY <2>1, <2>2
<1>12. ScoreMissesOnlyRacingGrades'
  <2>. SUFFICES ASSUME NEW a \in Attempts, result'[a] # NoResult, a \notin skewed'
                PROVE  result'[a] = ScoreFor(grade'[a])
    BY DEF ScoreMissesOnlyRacingGrades, Evaluated
  <2>1. CASE a = b
    <3>1. ~t.raced BY <1>6, <2>1
    <3>2. t.total = Total(Sees(g)) BY <1>0, <3>1 DEF IInv, TotalsHold, AddedUp, Steps
    <3>3. grade'[b][k] = t.points /\ t.points # NoGrade
      BY <1>0, <1>4, GradingAssumption DEF Points
    <3>4. ScoreFor(grade'[b]) = Total(grade'[b]) BY <1>0, <3>3, GradedScore
    <3>. QED BY <1>4, <1>5, <2>1, <3>2, <3>4
  <2>2. CASE a # b
    <3>1. result[a] = ScoreFor(grade[a])
      BY <1>5, <1>6, <2>2 DEF IInv, ScoreMissesOnlyRacingGrades, Evaluated
    <3>. QED BY <1>4, <1>5, <2>2, <3>1
  <2>. QED BY <2>1, <2>2
<1>13. ReportsHold'
  <2>0. \A a \in Attempts : a # b => Shown'[a] = Shown[a] BY <1>4 DEF Shown
  <2>1. ASSUME NEW old \in Report, NEW new \in Report, Explained(old), new.scores = old.scores,
               new.points = old.points, new.behind = old.behind \cup {b}
        PROVE  \A a \in Attempts \ new.behind : new.scores[a] # NoResult =>
                   new.scores[a] = result'[a] /\ new.points[a] = Shown'[a]
    BY <1>5, <2>0, <2>1 DEF Explained
  <2>2. ASSUME NEW r \in Readers, report'[r] # NoRow PROVE Explained(report[r].data)'
    <3>1. report[r] # NoRow
          /\ report'[r] = [report[r] EXCEPT !.data.behind = @ \cup {b}]
      BY <2>2 DEF CommitGrade, TypeOK
    <3>2. report[r] \in [pc : {"scored", "itemized"}, data : Report]
      BY <3>1 DEF TypeOK
    <3>3. /\ report'[r].data.behind = report[r].data.behind \cup {b}
          /\ report'[r].data.scores = report[r].data.scores
          /\ report'[r].data.points = report[r].data.points
          /\ report'[r].data \in Report
      BY <1>0, <3>1, <3>2 DEF Report
    <3>4. Explained(report[r].data) BY <3>1 DEF IInv, ReportsHold
    <3>. QED BY <2>1, <3>2, <3>3, <3>4 DEF Explained
  <2>3. ASSUME cache' # NoRow PROVE Explained(cache)'
    <3>1. cache' = Invalidated(g) BY DEF CommitGrade
    <3>2. /\ cache # NoRow /\ cache' \in Report /\ cache'.scores = cache.scores
          /\ cache'.points = cache.points /\ cache'.behind = cache.behind \cup {b}
      BY <1>0, <2>3, <3>1, InvalidatedReport
    <3>3. cache \in Report /\ Explained(cache) BY <3>2 DEF TypeOK, IInv, ReportsHold
    <3>. QED BY <2>1, <3>2, <3>3 DEF Explained
  <2>. QED BY <2>2, <2>3 DEF ReportsHold
<1>. QED BY <1>7, <1>8, <1>9, <1>10, <1>11, <1>12, <1>13 DEF IInv

\* Every step of the system preserves the invariant.
LEMMA IInvStep == TypeOK /\ IInv /\ [Next]_vars => IInv'
<1>. SUFFICES ASSUME TypeOK, IInv, [Next]_vars PROVE IInv' OBVIOUS
<1>1. ASSUME NEW a \in Attempts, Evaluate(a) PROVE IInv'
  <2>1. /\ result[a] = NoResult /\ result' = [result EXCEPT ![a] = AggregateEvaluationResults]
        /\ UNCHANGED <<grade, audit, tx, skewed, cache, report>>
    BY <1>1 DEF Evaluate, gradingVars
  <2>2. /\ \A b \in Attempts : result'[b] = IF b = a THEN AggregateEvaluationResults ELSE result[b]
        /\ AggregateEvaluationResults # NoResult
    BY <2>1, Totals DEF TypeOK, Scores
  <2>3. RowsLocked' /\ ReadsHold' /\ AuditIsAChain'
    BY <2>1 DEF IInv, RowsLocked, ReadsHold, AuditIsAChain, HoldsGrade, HoldsResult, Running
  <2>4. GradedHasResult'
    BY <2>1, <2>2, GradingFields DEF IInv, GradedHasResult, Running
  <2>5. TotalsHold'
    BY <2>1 DEF IInv, TotalsHold, Running, Sees
  <2>6. ScoreMissesOnlyRacingGrades'
    <3>. SUFFICES ASSUME NEW b \in Attempts, result'[b] # NoResult, b \notin skewed'
                  PROVE  result'[b] = ScoreFor(grade'[b])
      BY DEF ScoreMissesOnlyRacingGrades, Evaluated
    <3>1. CASE b = a
      <4>1. grade'[a] = Ungraded BY <2>1 DEF IInv, GradedHasResult
      <4>. QED BY <2>2, <3>1, <4>1, UngradedScore
    <3>2. CASE b # a
      <4>1. result[b] = ScoreFor(grade[b])
        BY <2>1, <2>2, <3>2 DEF IInv, ScoreMissesOnlyRacingGrades, Evaluated
      <4>. QED BY <2>1, <2>2, <3>2, <4>1
    <3>. QED BY <3>1, <3>2
  <2>7. ReportsHold'
    <3>1. ASSUME NEW d, Explained(d)
          PROVE  \A b \in Attempts \ d.behind : d.scores[b] # NoResult =>
                     d.scores[b] = result'[b] /\ d.points[b] = Shown'[b]
      BY <2>1, <2>2, <3>1 DEF Explained, Shown
    <3>. QED BY <2>1, <3>1 DEF IInv, ReportsHold, Explained
  <2>. QED BY <2>3, <2>4, <2>5, <2>6, <2>7 DEF IInv
<1>2. ASSUME NEW g \in Graders, NEW a \in Attempts, NEW q \in Questions, NEW p \in Points,
             LockGrade(g, a, q, p)
      PROVE  IInv'
  <2>. DEFINE t == [pc |-> "locked", attempt |-> a, question |-> q, points |-> p,
                    previous |-> grade[a][q], total |-> 0, raced |-> FALSE, deletes |-> FALSE]
  <2>1. tx' = [tx EXCEPT ![g] = t] /\ result[a] # NoResult /\ ~Wait(g, a, q)
        /\ UNCHANGED <<result, grade, audit, cache, report, skewed>>
    BY <1>2 DEF LockGrade
  <2>2. tx'[g] = t BY <2>1 DEF TypeOK
  <2>3. ASSUME NEW b \in Attempts, NEW k \in Questions, HoldsGrade(g, b, k)'
        PROVE  /\ \A h \in Graders \ {g} : ~HoldsGrade(h, b, k)
               /\ t.previous = grade[b][k]
    <3>1. b = a /\ k = q /\ grade[a][q] # NoGrade BY <2>2, <2>3 DEF HoldsGrade
    <3>. QED BY <2>1, <3>1 DEF Wait
  <2>4. \A b \in Attempts : ~HoldsResult(g, b)' BY <2>2 DEF HoldsResult
  <2>5. t.attempt = a /\ t.pc = "locked" OBVIOUS
  <2>. HIDE DEF t
  <2>. QED BY <2>1, <2>3, <2>4, <2>5, OneGradingKeeps DEF AddedUp, Steps
<1>3. ASSUME NEW g \in Graders, WriteGrade(g) PROVE IInv'
  <2>. DEFINE t == [tx[g] EXCEPT !.pc = "written"]
  <2>1. /\ tx' = [tx EXCEPT ![g] = t] /\ Others(g) = {} /\ Running(g)
        /\ tx[g].previous = NoGrade => grade[tx[g].attempt][tx[g].question] = NoGrade
        /\ tx[g].pc = "locked"
        /\ UNCHANGED <<result, grade, audit, cache, report, skewed>>
    BY <1>3 DEF WriteGrade, At
  <2>2. tx[g] \in Grading BY <2>1, GradingFields
  <2>3. /\ t.attempt = tx[g].attempt /\ t.question = tx[g].question
        /\ t.previous = tx[g].previous /\ t.pc = "written"
    BY <2>2 DEF Grading
  <2>. HIDE DEF t
  <2>4. tx'[g] = t BY <2>1 DEF TypeOK
  <2>5. ASSUME NEW b \in Attempts, NEW k \in Questions, HoldsGrade(g, b, k)'
        PROVE  /\ \A h \in Graders \ {g} : ~HoldsGrade(h, b, k)
               /\ t.previous = grade[b][k]
    <3>1. b = tx[g].attempt /\ k = tx[g].question BY <2>3, <2>4, <2>5 DEF HoldsGrade
    <3>2. \A h \in Graders \ {g} : ~HoldsGrade(h, b, k) BY <2>1, <3>1 DEF Others
    <3>3. tx[g].previous # NoGrade => HoldsGrade(g, b, k) BY <2>1, <3>1 DEF HoldsGrade
    <3>4. tx[g].previous = grade[b][k] BY <2>1, <3>1, <3>3 DEF IInv, ReadsHold
    <3>. QED BY <2>3, <3>2, <3>4
  <2>6. \A b \in Attempts : ~HoldsResult(g, b)' BY <2>3, <2>4 DEF HoldsResult
  <2>7. result[t.attempt] # NoResult BY <2>1, <2>3 DEF IInv, GradedHasResult
  <2>. QED BY <2>1, <2>3, <2>5, <2>6, <2>7, OneGradingKeeps DEF AddedUp, Steps
<1>4. ASSUME NEW g \in Graders, SumGrades(g) PROVE IInv'
  <2>. DEFINE n == Total(Sees(g))
              t == [tx[g] EXCEPT !.pc = "summed", !.total = n]
  <2>1. /\ tx' = [tx EXCEPT ![g] = t] /\ Running(g) /\ tx[g].pc = "written"
        /\ UNCHANGED <<result, grade, audit, cache, report, skewed>>
    BY <1>4 DEF SumGrades, At
  <2>2. tx[g] \in Grading BY <2>1, GradingFields
  <2>3. /\ t.attempt = tx[g].attempt /\ t.question = tx[g].question /\ t.points = tx[g].points
        /\ t.previous = tx[g].previous /\ t.pc = "summed" /\ t.total = n
    <3>. HIDE DEF n
    <3>. QED BY <2>2 DEF Grading
  <2>. HIDE DEF t, n
  <2>4. tx'[g] = t BY <2>1 DEF TypeOK
  <2>5. ASSUME NEW b \in Attempts, NEW k \in Questions, HoldsGrade(g, b, k)'
        PROVE  /\ \A h \in Graders \ {g} : ~HoldsGrade(h, b, k)
               /\ t.previous = grade[b][k]
    <3>1. HoldsGrade(g, b, k) BY <2>1, <2>3, <2>4, <2>5 DEF HoldsGrade
    <3>. QED BY <2>3, <3>1 DEF IInv, RowsLocked, ReadsHold
  <2>6. \A b \in Attempts : ~HoldsResult(g, b)' BY <2>3, <2>4 DEF HoldsResult
  <2>7. result[t.attempt] # NoResult BY <2>1, <2>3 DEF IInv, GradedHasResult
  <2>8. Sees(g)' = Sees(g) BY <2>1, <2>3, <2>4 DEF Sees
  <2>9. t.total = Total(Sees(g))' BY <2>3, <2>8 DEF n
  <2>. QED BY <2>1, <2>5, <2>6, <2>7, <2>9, OneGradingKeeps
<1>5. ASSUME NEW g \in Graders, UpdateScore(g) PROVE IInv'
  <2>. DEFINE t == [tx[g] EXCEPT !.pc = "scored"]
  <2>1. /\ tx' = [tx EXCEPT ![g] = t] /\ Running(g) /\ tx[g].pc = "summed"
        /\ ~\E h \in Graders \ {g} : HoldsResult(h, tx[g].attempt)
        /\ UNCHANGED <<result, grade, audit, cache, report, skewed>>
    BY <1>5 DEF UpdateScore, At
  <2>2. tx[g] \in Grading BY <2>1, GradingFields
  <2>3. /\ t.attempt = tx[g].attempt /\ t.question = tx[g].question /\ t.points = tx[g].points
        /\ t.previous = tx[g].previous /\ t.pc = "scored" /\ t.total = tx[g].total
        /\ t.raced = tx[g].raced
    BY <2>2 DEF Grading
  <2>. HIDE DEF t
  <2>4. tx'[g] = t BY <2>1 DEF TypeOK
  <2>5. ASSUME NEW b \in Attempts, NEW k \in Questions, HoldsGrade(g, b, k)'
        PROVE  /\ \A h \in Graders \ {g} : ~HoldsGrade(h, b, k)
               /\ t.previous = grade[b][k]
    <3>1. HoldsGrade(g, b, k) BY <2>1, <2>3, <2>4, <2>5 DEF HoldsGrade
    <3>. QED BY <2>3, <3>1 DEF IInv, RowsLocked, ReadsHold
  <2>6. ASSUME NEW b \in Attempts, HoldsResult(g, b)'
        PROVE  \A h \in Graders \ {g} : ~HoldsResult(h, b)
    BY <2>1, <2>3, <2>4, <2>6 DEF HoldsResult
  <2>7. result[t.attempt] # NoResult BY <2>1, <2>3 DEF IInv, GradedHasResult
  <2>8. Sees(g)' = Sees(g) BY <2>1, <2>3, <2>4 DEF Sees
  <2>9. ~t.raced => t.total = Total(Sees(g))' BY <2>1, <2>3, <2>8 DEF IInv, TotalsHold, AddedUp, Steps
  <2>. QED BY <2>1, <2>5, <2>6, <2>7, <2>9, OneGradingKeeps
<1>6. ASSUME NEW g \in Graders, CommitGrade(g) PROVE IInv'
  BY <1>6, CommitKeeps
<1>10. ASSUME NEW g \in Graders, DeleteCache(g) PROVE IInv'
  <2>1. PICK p \in {"waiting", "deleted"}, d \in BOOLEAN :
          tx' = [tx EXCEPT ![g] = [tx[g] EXCEPT !.pc = p, !.deletes = d]]
    BY <1>10 DEF DeleteCache
  <2>. DEFINE t == [tx[g] EXCEPT !.pc = p, !.deletes = d]
  <2>2. /\ tx' = [tx EXCEPT ![g] = t] /\ Running(g) /\ tx[g].pc \in {"scored", "waiting"}
        /\ UNCHANGED <<result, grade, audit, cache, report, skewed>>
    BY <1>10, <2>1 DEF DeleteCache, At
  <2>3. tx[g] \in Grading BY <2>2, GradingFields
  <2>4. /\ t.attempt = tx[g].attempt /\ t.question = tx[g].question /\ t.points = tx[g].points
        /\ t.previous = tx[g].previous /\ t.pc = p /\ t.total = tx[g].total
        /\ t.raced = tx[g].raced
    BY <2>3 DEF Grading
  <2>. HIDE DEF t
  <2>5. tx'[g] = t BY <2>2 DEF TypeOK
  <2>6. ASSUME NEW b \in Attempts, NEW k \in Questions, HoldsGrade(g, b, k)'
        PROVE  /\ \A h \in Graders \ {g} : ~HoldsGrade(h, b, k)
               /\ t.previous = grade[b][k]
    <3>1. HoldsGrade(g, b, k) BY <2>2, <2>4, <2>5, <2>6 DEF HoldsGrade
    <3>. QED BY <2>4, <3>1 DEF IInv, RowsLocked, ReadsHold
  <2>7. ASSUME NEW b \in Attempts, HoldsResult(g, b)'
        PROVE  \A h \in Graders \ {g} : ~HoldsResult(h, b)
    <3>1. HoldsResult(g, b) BY <2>2, <2>4, <2>5, <2>7 DEF HoldsResult
    <3>. QED BY <3>1 DEF IInv, RowsLocked
  <2>8. result[t.attempt] # NoResult BY <2>2, <2>4 DEF IInv, GradedHasResult
  <2>9. Sees(g)' = Sees(g) BY <2>2, <2>4, <2>5 DEF Sees
  <2>10. ~t.raced => t.total = Total(Sees(g))'
    BY <2>2, <2>4, <2>9 DEF IInv, TotalsHold, AddedUp, Steps
  <2>. QED BY <2>2, <2>6, <2>7, <2>8, <2>10, OneGradingKeeps
<1>7. ASSUME NEW g \in Graders, RollBack(g) PROVE IInv'
  <2>1. tx' = [tx EXCEPT ![g] = NoRow]
        /\ UNCHANGED <<result, grade, audit, cache, report, skewed>>
    BY <1>7 DEF RollBack
  <2>2. ~Running(g)' BY <2>1 DEF Running, TypeOK
  <2>3. \A b \in Attempts : ~HoldsResult(g, b)' /\ \A k \in Questions : ~HoldsGrade(g, b, k)'
    BY <2>2 DEF HoldsResult, HoldsGrade
  <2>. QED BY <2>1, <2>2, <2>3, OneGradingKeeps
<1>8. ASSUME NEW r \in Readers, \/ ReadScores(r) \/ ReadItems(r) \/ StoreReport(r)
      PROVE  IInv'
  <2>1. UNCHANGED <<result, grade, audit, tx, skewed>>
    BY <1>8 DEF ReadScores, ReadItems, StoreReport, gradingVars
  <2>2. /\ RowsLocked' /\ ReadsHold' /\ AuditIsAChain' /\ GradedHasResult'
        /\ ScoreMissesOnlyRacingGrades'
    BY <2>1 DEF IInv, RowsLocked, ReadsHold, AuditIsAChain, GradedHasResult,
                ScoreMissesOnlyRacingGrades, Evaluated, HoldsGrade, HoldsResult, Running
  <2>3. TotalsHold' BY <2>1 DEF IInv, TotalsHold, Running, Sees
  <2>4. \A d : Explained(d)' <=> Explained(d) BY <2>1 DEF Explained, Shown
  <2>5. ReportsHold'
    <3>1. CASE ReadScores(r)
      <4>. DEFINE d == [scores |-> result, points |-> Shown, behind |-> {}]
      <4>1. report' = [report EXCEPT ![r] = [pc |-> "scored", data |-> d]] /\ cache' = cache
        BY <3>1 DEF ReadScores
      <4>2. Explained(d) BY DEF Explained
      <4>. HIDE DEF d
      <4>3. \A s \in Readers : report'[s] = IF s = r THEN [pc |-> "scored", data |-> d]
                                            ELSE report[s]
        BY <4>1 DEF TypeOK
      <4>. QED BY <2>4, <4>1, <4>2, <4>3 DEF IInv, ReportsHold
    <3>2. CASE ReadItems(r)
      <4>1. /\ report' = [report EXCEPT ![r] = [report[r] EXCEPT !.pc = "itemized",
                                                                 !.data.points = Shown]]
            /\ report[r] # NoRow /\ cache' = cache
        BY <3>2 DEF ReadItems
      <4>2. report[r] \in [pc : {"scored", "itemized"}, data : Report]
        BY <4>1 DEF TypeOK
      <4>3. \A s \in Readers : s # r => report'[s] = report[s] BY <4>1 DEF TypeOK
      <4>4. /\ report'[r].data.scores = report[r].data.scores
            /\ report'[r].data.behind = report[r].data.behind
            /\ report'[r].data.points = Shown
        BY <4>1, <4>2 DEF TypeOK, Report
      <4>5. Explained(report[r].data) BY <4>1 DEF IInv, ReportsHold
      <4>6. Explained(report[r].data)'
        BY <2>1, <4>4, <4>5 DEF Explained, Shown
      <4>. QED BY <2>4, <4>1, <4>3, <4>6 DEF IInv, ReportsHold
    <3>3. CASE StoreReport(r)
      <4>1. cache' = report[r].data /\ report' = [report EXCEPT ![r] = NoRow] /\ report[r] # NoRow
        BY <3>3 DEF StoreReport
      <4>2. \A s \in Readers : report'[s] # NoRow => report'[s] = report[s]
        BY <4>1 DEF TypeOK
      <4>. QED BY <2>4, <4>1, <4>2 DEF IInv, ReportsHold
    <3>. QED BY <1>8, <3>1, <3>2, <3>3
  <2>. QED BY <2>2, <2>3, <2>5 DEF IInv
<1>9. CASE UNCHANGED vars
  <2>1. UNCHANGED <<result, grade, audit, cache, tx, report, skewed>> BY <1>9 DEF vars
  <2>2. /\ RowsLocked' /\ ReadsHold' /\ AuditIsAChain' /\ GradedHasResult'
        /\ ScoreMissesOnlyRacingGrades'
    BY <2>1 DEF IInv, RowsLocked, ReadsHold, AuditIsAChain, GradedHasResult,
                ScoreMissesOnlyRacingGrades, Evaluated, HoldsGrade, HoldsResult, Running
  <2>3. TotalsHold' BY <2>1 DEF IInv, TotalsHold, Running, Sees
  <2>4. ReportsHold' BY <2>1 DEF IInv, ReportsHold, Explained, Shown
  <2>. QED BY <2>2, <2>3, <2>4 DEF IInv
<1>. QED BY <1>1, <1>2, <1>3, <1>4, <1>5, <1>6, <1>7, <1>8, <1>9, <1>10 DEF Next

LEMMA Invariance == Spec => []IInv
<1>1. Init => IInv BY IInvInit
<1>2. TypeOK /\ IInv /\ [Next]_vars => IInv' BY IInvStep
<1>. QED BY <1>1, <1>2, TypeCorrect, PTL DEF Spec

\* However many graders race, the audit records of a question form a chain that ends
\* in its present points (saveManualGrade's FOR UPDATE, unique key and audit record).
THEOREM AuditChain == Spec => []AuditIsAChain
<1>1. IInv => AuditIsAChain BY DEF IInv
<1>. QED BY <1>1, Invariance, PTL

\* A score differs from the total of the points only when the last grading to commit
\* overlapped another one of the same attempt.
THEOREM ScoresExplained == Spec => []ScoreMissesOnlyRacingGrades
<1>1. IInv => ScoreMissesOnlyRacingGrades BY DEF IInv
<1>. QED BY <1>1, Invariance, PTL

\* Cached analytics are stale only for attempts whose grading, from its DELETE to its
\* COMMIT, overlapped the computation, or which were evaluated since; and what they show
\* adds up unless graders raced or graded a question that is not subjective.
THEOREM CacheExplained == Spec => []CacheMissesOnlyOverlaps
<1>1. TypeOK /\ IInv => CacheMissesOnlyOverlaps
  <2>. SUFFICES ASSUME TypeOK, IInv, cache # NoRow, NEW a \in Attempts \ cache.behind,
                       cache.scores[a] # NoResult
                PROVE  /\ cache.scores[a] = result[a] /\ cache.points[a] = Shown[a]
                       /\ \/ a \in skewed
                          \/ \E q \in Questions \ Subjective : grade[a][q] # NoGrade
                          \/ result[a] = ScoreFor(cache.points[a])
    BY DEF CacheMissesOnlyOverlaps
  <2>1. cache.scores[a] = result[a] /\ cache.points[a] = Shown[a]
    BY DEF IInv, ReportsHold, Explained
  <2>2. ASSUME a \notin skewed, \A q \in Questions \ Subjective : grade[a][q] = NoGrade
        PROVE  result[a] = ScoreFor(cache.points[a])
    <3>1. result[a] = ScoreFor(grade[a])
      BY <2>1, <2>2 DEF IInv, ScoreMissesOnlyRacingGrades, Evaluated
    <3>2. Shown[a] = grade[a] BY <2>2 DEF Shown, TypeOK, Grades
    <3>. QED BY <2>1, <3>1, <3>2
  <2>. QED BY <2>1, <2>2
<1>. QED BY <1>1, Invariance, TypeCorrect, PTL

(***************************************************************************)
(* The two computations of the objective score.                            *)
(***************************************************************************)
\* A question with one correct option, or an answer of at most 8 decimals, is worth
\* the same to evaluator.js and to objectiveSumSql.
LEMMA SamePoints ==
    ASSUME Unambiguous, NEW i \in Paper PROVE EvaluateQuestionAnswer(i) = CaseOf(i)
<1>. DEFINE q == Bank[i]
            answer == Sheet[i]
<1>1. /\ i \in DOMAIN Bank /\ Places(q) \subseteq Nat /\ q.number \in Int
      /\ answer # NoAnswer => ValidateAnswerPayload(q, answer)
  BY EvaluatorAssumption
<1>2. ASSUME answer # NoAnswer, q.type \in Choice
      PROVE  (\E j \in Places(q) : FirstCorrect(q, j) /\ q.options[j].id = answer)
             <=> SelectedIsCorrect(answer)
  <2>1. ASSUME NEW j \in Places(q), FirstCorrect(q, j), q.options[j].id = answer
        PROVE  SelectedIsCorrect(answer)
    BY <1>1, <2>1 DEF FirstCorrect, SelectedIsCorrect
  <2>2. ASSUME SelectedIsCorrect(answer)
        PROVE  \E j \in Places(q) : FirstCorrect(q, j) /\ q.options[j].id = answer
    <3>0. PICK p \in DOMAIN Bank : \E k \in Places(Bank[p]) :
              Bank[p].options[k].id = answer /\ IsCorrectAt(Bank[p], k)
      BY <2>2 DEF SelectedIsCorrect
    <3>1. PICK k \in Places(Bank[p]) :
              Bank[p].options[k].id = answer /\ IsCorrectAt(Bank[p], k)
      BY <3>0
    <3>2. PICK j \in Places(q) : q.options[j].id = answer
      BY <1>1, <1>2 DEF ValidateAnswerPayload
    <3>3. p = i /\ k = j
      BY <1>1, <3>1, <3>2, EvaluatorAssumption DEF OptionsAreUnique
    <3>4. IsCorrectAt(q, j) BY <3>1, <3>3
    <3>5. \A l \in Places(q) : IsCorrectAt(q, l) => l = j
      BY <1>2, <3>2, <3>4 DEF Unambiguous
    <3>6. j <= j BY <1>1, <3>2
    <3>. QED BY <3>2, <3>4, <3>5, <3>6 DEF FirstCorrect
  <2>. QED BY <2>1, <2>2
<1>3. ASSUME answer # NoAnswer, q.type = "NUMERIC"
      PROVE  ToFixed8(Distance(answer, q.number)) = Distance(answer, q.number)
  <2>1. answer \in Int BY <1>1, <1>3 DEF ValidateAnswerPayload
  <2>2. Distance(answer, q.number) \in Int BY <1>1, <2>1 DEF Distance
  <2>3. Distance(answer, q.number) % 10 = 0 BY <1>3 DEF Unambiguous
  <2>4. \A x \in Int : x % 10 = 0 => 10 * ((x + 5) \div 10) = x OBVIOUS
  <2>. QED BY <2>2, <2>3, <2>4 DEF ToFixed8
<1>4. CASE q.type \in Choice
  <2>1. q.type # "NUMERIC" BY <1>4 DEF Choice
  <2>. QED BY <1>2, <1>4, <2>1 DEF EvaluateQuestionAnswer, IsCorrect, CaseOf
<1>5. CASE q.type \notin Choice
  BY <1>3, <1>5 DEF EvaluateQuestionAnswer, IsCorrect, CaseOf
<1>. QED BY <1>4, <1>5

\* For papers whose questions have one correct option, and answers of at most 8
\* decimals, recomputing the objective score while grading gives what evaluation gave
\* (evaluator.js against the CASE of saveManualGrade).
THEOREM ScorersAgree == Unambiguous => AggregateEvaluationResults = ObjectiveScore
<1>. SUFFICES ASSUME Unambiguous PROVE AggregateEvaluationResults = ObjectiveScore OBVIOUS
<1>1. [i \in Paper |-> EvaluateQuestionAnswer(i)] = [i \in Paper |-> CaseOf(i)]
  BY SamePoints
<1>. QED BY <1>1 DEF AggregateEvaluationResults, ObjectiveScore

\* Then a grade changes a score by its own points only: a score is the evaluation's
\* plus the manual grades, except for races of graders.
THEOREM GradesAddUp == Spec => []GradesOnlyAddPoints
<1>1. TypeOK /\ IInv => GradesOnlyAddPoints
  <2>. SUFFICES ASSUME TypeOK, IInv, Unambiguous, NEW a \in Evaluated \ skewed
                PROVE  \/ result[a] = AggregateEvaluationResults + ManualScore(grade[a])
                       \/ /\ result[a] = AggregateEvaluationResults
                          /\ \A q \in Questions : grade[a][q] = NoGrade
    BY DEF GradesOnlyAddPoints
  <2>1. result[a] = ScoreFor(grade[a]) BY DEF IInv, ScoreMissesOnlyRacingGrades
  <2>2. CASE \A q \in Questions : grade[a][q] = NoGrade
    BY <2>1, <2>2 DEF ScoreFor
  <2>3. CASE ~\A q \in Questions : grade[a][q] = NoGrade
    BY <2>1, <2>3, ScorersAgree DEF ScoreFor, Total
  <2>. QED BY <2>2, <2>3
<1>. QED BY <1>1, Invariance, TypeCorrect, PTL

===============================================================================
