--------------------------- MODULE MCInterventions ---------------------------
\* Interventions for TLC: the connections are interchangeable.
EXTENDS Interventions, TLC

Symmetry == Permutations(Requests)
===============================================================================
