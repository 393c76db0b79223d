------------------------------ MODULE MC_RunClaim ------------------------------
EXTENDS RunClaim, TLC
Symmetry == Permutations(Calls) \cup Permutations(Runs)
=============================================================================
