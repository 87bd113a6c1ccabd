------------------------------ MODULE MCWebCall ------------------------------
EXTENDS WebCall, TLC

\* The objects of one call id are interchangeable.
Symmetry == Permutations(Calls)
=============================================================================
