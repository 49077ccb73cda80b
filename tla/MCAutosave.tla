------------------------------ MODULE MCAutosave ------------------------------
\* Autosave for TLC: questions and values are interchangeable.
EXTENDS Autosave, TLC

Symmetry == Permutations(Questions) \cup Permutations(Values)
===============================================================================
