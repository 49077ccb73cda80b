-------------------------- MODULE MCAttemptLifecycle --------------------------
(* Constants and symmetry for checking AttemptLifecycle with TLC. *)
EXTENDS AttemptLifecycle, TLC

Symmetry == Permutations(Requests) \cup Permutations(Keys) \cup Permutations(Fingerprints)
===============================================================================
