------------------------------- MODULE MCMenuAdd -------------------------------
EXTENDS MenuAdd, TLC

Symmetry == Permutations(Members) \cup Permutations(Phones) \cup Permutations(Tasks)
===============================================================================
