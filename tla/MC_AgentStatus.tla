---------------------------- MODULE MC_AgentStatus ----------------------------
EXTENDS AgentStatus, TLC
Symmetry == Permutations(Runs)
=============================================================================
