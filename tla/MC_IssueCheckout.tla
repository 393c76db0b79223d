---------------------------- MODULE MC_IssueCheckout ----------------------------
EXTENDS IssueCheckout, TLC

CONSTANTS a, b, ra, sa, rb

MCAgentOf == (ra :> a) @@ (sa :> a) @@ (rb :> b)

(* Reassign, unassign, give to the user, leave in_progress.                  *)
MCPatches ==
    {[agent |-> b, user |-> "clear", status |-> "keep"],
     [agent |-> NoAgent, user |-> "keep", status |-> "keep"],
     [agent |-> Keep, user |-> "set", status |-> "keep"],
     [agent |-> Keep, user |-> "keep", status |-> "todo"]}

Symmetry == Permutations(Calls)
=============================================================================
