------------------------------ MODULE MC_Routines ------------------------------
EXTENDS Routines, TLC
Setup(policy, catchUp, edits, crashes, cancels) ==
    [policy |-> policy, catchUp |-> catchUp,
     edits |-> edits, crashes |-> crashes, cancels |-> cancels]
MCSetups == {Setup("coalesce_if_active", "skip_missed", 1, 0, 0),
             Setup("coalesce_if_active", "skip_missed", 0, 0, 1),
             Setup("skip_if_active", "enqueue_missed_with_cap", 0, 1, 0),
             Setup("always_enqueue", "skip_missed", 0, 0, 0)}
Symmetry == Permutations(Calls) \cup Permutations(Issues)
===============================================================================
