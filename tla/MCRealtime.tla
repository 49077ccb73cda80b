------------------------------ MODULE MCRealtime ------------------------------
\* Realtime for TLC.
EXTENDS Realtime, TLC

Symmetry == Permutations(Sockets)
================================================================================
