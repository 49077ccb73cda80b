--------------------------- MODULE MCManualGrading ---------------------------
\* ManualGrading for TLC: graders, attempts and readers are interchangeable.
EXTENDS ManualGrading, TLC

Symmetry == Permutations(Graders) \cup Permutations(Attempts) \cup Permutations(Readers)

\* A multiple choice question, a true or false question, two numeric ones and an
\* unanswered essay: one option is right and one wrong, the numbers are given one unit
\* within and just at the tolerance. The bank has a question with two correct options,
\* which is not asked.
Option(id, correct) == [id |-> id, correct |-> correct]
MCQuestion(type, points, options, number) ==
    [type |-> type, points |-> points, options |-> options, number |-> number]
MCBank ==
    "mcq" :> MCQuestion("MCQ", 1, <<Option("a", FALSE), Option("b", FALSE), Option("c", TRUE)>>, 0)
    @@ "both" :> MCQuestion("MCQ", 1, <<Option("x", TRUE), Option("y", TRUE)>>, 0)
    @@ "tf" :> MCQuestion("TRUE_FALSE", 2, <<Option("t", TRUE), Option("f", FALSE)>>, 0)
    @@ "in" :> MCQuestion("NUMERIC", 4, <<>>, 1000000)
    @@ "at" :> MCQuestion("NUMERIC", 8, <<>>, 1000000)
    @@ "essay" :> MCQuestion("ESSAY", 16, <<>>, 0)
MCPaper == DOMAIN MCBank \ {"both"}
MCSheet == "mcq" :> "c" @@ "tf" :> "f" @@ "in" :> 1099990 @@ "at" :> 900000 @@ "essay" :> NoAnswer
===============================================================================
