---------------------------- MODULE MCOutboxRelay ----------------------------
(* Symmetry for checking the safety of OutboxRelay with TLC. *)
EXTENDS OutboxRelay, TLC

Symmetry == Permutations(Events) \cup Permutations(Processes)
==============================================================================
