------------------------- MODULE MCEvaluationPipeline -------------------------
(* Symmetry for checking the safety of EvaluationPipeline with TLC. *)
EXTENDS EvaluationPipeline, TLC

Symmetry == Permutations(Copies) \cup Permutations(Handlers)
===============================================================================
