---------------------------- MODULE MCSessionRoster ----------------------------
\* SessionRoster for TLC: everything but the one room is interchangeable.
EXTENDS SessionRoster, TLC

CONSTANTS s1, s2, e1, e2, r1, p1, p2, f1

MCCapacity == [r \in {r1} |-> 1]
Symmetry == Permutations({s1, s2}) \cup Permutations({e1, e2}) \cup Permutations({p1, p2}) \cup Permutations(Transactions)
            \cup Permutations(Slots)
================================================================================
