------------------------------- MODULE Evaluator -------------------------------
(***************************************************************************)
(* The objective score of an attempt, which the code computes twice: in    *)
(* JavaScript when the attempt is evaluated (modules/evaluation/evaluator, *)
(* domain rules applied to one question after the other), and in SQL when  *)
(* a manual grade is saved (modules/evaluation/manualGrading).             *)
(*                                                                         *)
(* Points count hundredths, numbers count units of 10^-9: what PostgreSQL  *)
(* and the 8 decimals of evaluator.js tell apart.                          *)
(***************************************************************************)
EXTENDS Integers, Functions

CONSTANTS
    Bank,       \* questions, by id: [type, points, options, number]
    Paper,      \* attempt_questions: the ids of the attempt's questions
    Sheet,      \* answers: the option id or the number saved for each of them
    NoAnswer

Choice == {"MCQ", "TRUE_FALSE"}
\* question_options with their question's, in display order.
Places(q) == DOMAIN q.options
IsCorrectAt(q, i) == q.options[i].correct

(***************************************************************************)
(* What authoring and saving let into the tables.                          *)
(***************************************************************************)
\* option_id is the primary key of question_options.
OptionsAreUnique ==
    \A p, q \in DOMAIN Bank : \A i \in Places(Bank[p]), j \in Places(Bank[q]) :
        Bank[p].options[i].id = Bank[q].options[j].id => p = q /\ i = j
\* An MCQ needs at least one correct option, a TRUE_FALSE question exactly one.
ValidateQuestion(q) ==
    /\ q.type \in Choice => \E i \in Places(q) : IsCorrectAt(q, i)
    /\ q.type = "TRUE_FALSE" =>
          \A i, j \in Places(q) : IsCorrectAt(q, i) /\ IsCorrectAt(q, j) => i = j
\* The selected option is one of the question; other types take no answer.
ValidateAnswerPayload(q, answer) ==
    /\ q.type \in Choice \cup {"NUMERIC"}
    /\ q.type \in Choice => \E i \in Places(q) : q.options[i].id = answer
    /\ q.type = "NUMERIC" => answer \in Int

ASSUME EvaluatorAssumption ==
    /\ Paper \subseteq DOMAIN Bank /\ OptionsAreUnique
    /\ \A i \in DOMAIN Bank :
          Places(Bank[i]) \subseteq Nat /\ Bank[i].number \in Int /\ ValidateQuestion(Bank[i])
    /\ \A i \in Paper : Sheet[i] = NoAnswer \/ ValidateAnswerPayload(Bank[i], Sheet[i])

(***************************************************************************)
(* evaluator.js.                                                           *)
(***************************************************************************)
NumericTolerance == 100000
Distance(x, y) == IF x < y THEN y - x ELSE x - y
\* Number(x.toFixed(8)): the nearest multiple of 10^-8, the larger of two.
ToFixed8(x) == 10 * ((x + 5) \div 10)

\* options.find((opt) => opt.is_correct === true).
FirstCorrect(q, i) ==
    IsCorrectAt(q, i) /\ \A j \in Places(q) : IsCorrectAt(q, j) => i <= j

\* SHORT_ANSWER, ESSAY and CODE questions are never correct here.
IsCorrect(q, answer) ==
    /\ answer # NoAnswer
    /\ \/ /\ q.type \in Choice
          /\ \E i \in Places(q) : FirstCorrect(q, i) /\ q.options[i].id = answer
       \/ q.type = "NUMERIC" /\ ToFixed8(Distance(answer, q.number)) < NumericTolerance

EvaluateQuestionAnswer(i) == IF IsCorrect(Bank[i], Sheet[i]) THEN Bank[i].points ELSE 0

\* The score of aggregateEvaluationResults.
AggregateEvaluationResults == SumFunction([i \in Paper |-> EvaluateQuestionAnswer(i)])

(***************************************************************************)
(* objectiveSumSql of saveManualGrade.                                     *)
(***************************************************************************)
\* LEFT JOIN question_options ON selected_option_id = option_id.
SelectedIsCorrect(answer) ==
    \E p \in DOMAIN Bank : \E i \in Places(Bank[p]) :
        Bank[p].options[i].id = answer /\ IsCorrectAt(Bank[p], i)

\* Mutant: the tolerance is inclusive.
CaseOf_Inclusive(i) ==
    LET q == Bank[i] IN
    IF /\ Sheet[i] # NoAnswer
       /\ \/ q.type \in Choice /\ SelectedIsCorrect(Sheet[i])
          \/ q.type = "NUMERIC" /\ Distance(Sheet[i], q.number) <= NumericTolerance
    THEN q.points ELSE 0
CaseOf(i) ==
    LET q == Bank[i] IN
    IF /\ Sheet[i] # NoAnswer
       /\ \/ q.type \in Choice /\ SelectedIsCorrect(Sheet[i])
          \/ q.type = "NUMERIC" /\ Distance(Sheet[i], q.number) < NumericTolerance
    THEN q.points ELSE 0

ObjectiveScore == SumFunction([i \in Paper |-> CaseOf(i)])

(***************************************************************************)
(* Papers for which the two agree: each question has one correct option,   *)
(* and no number is given with more than 8 decimals.                       *)
(***************************************************************************)
Unambiguous ==
    \A i \in Paper : LET q == Bank[i] IN
        /\ q.type \in Choice =>
              \A j, k \in Places(q) : IsCorrectAt(q, j) /\ IsCorrectAt(q, k) => j = k
        /\ q.type = "NUMERIC" /\ Sheet[i] # NoAnswer => Distance(Sheet[i], q.number) % 10 = 0

================================================================================
