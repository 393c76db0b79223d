------------------------------- MODULE IssueOwner -------------------------------
(*****************************************************************************)
(* What the checkout of an issue promises: it passes from a run that is      *)
(* still alive to another run only by way of nobody, and to whom it passes   *)
(* from an ended one is left open.                                           *)
(* Source: server/src/services/issues.ts, checkout and assertCheckoutOwner   *)
(*****************************************************************************)
CONSTANTS Runs, NoRun

VARIABLES
    owner,  \* issues.checkoutRunId
    ended   \* the runs with a terminal status

Init == owner \in Runs \cup {NoRun} /\ ended = {}

(* Most statements end one run; a wake may cancel two stale retries at once.  *)
End(over) ==
    /\ over \cap ended = {}
    /\ ended' = ended \cup over
    /\ UNCHANGED owner

(* A run that was taken for ended turns out to be alive.                     *)
Revive(r) ==
    /\ ended' = ended \ {r}
    /\ UNCHANGED owner

Take(r) ==
    /\ owner \in ended \cup {NoRun}
    /\ owner' = r
    /\ UNCHANGED ended

(* The owner leaves it, or the board or an operator takes it away.           *)
Lose ==
    /\ owner' = NoRun
    /\ UNCHANGED ended

Next ==
    \/ Lose
    \/ \E over \in SUBSET Runs : End(over)
    \/ \E r \in Runs : Take(r) \/ Revive(r)

Spec == Init /\ [][Next]_<<owner, ended>>
=============================================================================
