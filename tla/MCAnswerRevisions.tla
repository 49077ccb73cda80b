-------------------------- MODULE MCAnswerRevisions --------------------------
(* Symmetry for checking AnswerRevisions with TLC. *)
EXTENDS AnswerRevisions, TLC

Symmetry == Permutations(Clients) \cup Permutations(Questions) \cup Permutations(Values)
==============================================================================
