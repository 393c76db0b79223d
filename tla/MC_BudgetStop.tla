----------------------------- MODULE MC_BudgetStop -----------------------------
EXTENDS BudgetStop, TLC

Symmetry == Permutations(Calls) \cup Permutations(Runs)
=============================================================================
