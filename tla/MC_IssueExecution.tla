-------------------------- MODULE MC_IssueExecution --------------------------
EXTENDS IssueExecution, TLC

Symmetry == Permutations(Agents)

(* At most so many rows of runs, and no outside event                        *)
Rows(n) == [[event \in Events |-> 0] EXCEPT !["row"] = n]

CommentsAndFailure ==
    {[Rows(3) EXCEPT !["comment"] = 2], [Rows(3) EXCEPT !["comment"] = 1, !["fail"] = 1]}
OwnerChanges ==
    {[Rows(2) EXCEPT !["assign"] = 2],
     [Rows(2) EXCEPT !["assign"] = 1, !["status"] = 1],
     [Rows(2) EXCEPT !["assign"] = 1, !["block"] = 1],
     [Rows(2) EXCEPT !["status"] = 1, !["block"] = 1]} \cup
    {[Rows(2) EXCEPT !["comment"] = 1, ![other] = 1] : other \in {"status", "assign"}} \cup
    {[Rows(2) EXCEPT !["release"] = 1, ![other] = 1] : other \in {"status", "assign", "comment"}}
Cancellations ==
    {[Rows(2) EXCEPT !["pause"] = 1, !["status"] = 1]} \cup
    {[Rows(2) EXCEPT !["cancel"] = 1, ![other] = 1] : other \in {"fail", "pause", "assign", "comment"}}
AllSafety == CommentsAndFailure \cup OwnerChanges \cup Cancellations

CrashFailureAndHold ==
    {[Rows(3) EXCEPT !["crash"] = 1, !["fail"] = 1], [Rows(3) EXCEPT !["hold"] = 1],
     [Rows(2) EXCEPT !["crash"] = 1, !["detach"] = 1, !["cancel"] = 1]}

(* The agents are interchangeable, and symmetry may not be used for liveness: *)
(* one first assignee stands for all.                                        *)
OneInit == Init /\ issue.assignee = CHOOSE a \in Agents : TRUE
OneStart == OneInit /\ [][Next]_vars /\ Fairness
=============================================================================
