--------------------------- MODULE MCExamLifecycle ---------------------------
\* ExamLifecycle for TLC: attempts, questions, attributes and requests are interchangeable.
EXTENDS ExamLifecycle, TLC

Symmetry == Permutations(Attempts) \cup Permutations(Questions)
            \cup Permutations(Durations) \cup Permutations(Requests)
===============================================================================
