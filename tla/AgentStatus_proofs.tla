-------------------------- MODULE AgentStatus_proofs --------------------------
(*****************************************************************************)
(* What holds of the agent's status whatever the number of runs, of calls    *)
(* and of statuses a PATCH may ask for.                                      *)
(*****************************************************************************)
EXTENDS AgentStatus, TLAPS

(* A finalization begins, and goes on, well formed.                          *)
LEMMA FinalizationTyped ==
    ASSUME NEW r \in Runs, NEW by \in {"executor", "cancel", "reaper"}, NEW bad \in BOOLEAN
    PROVE  Finalization(r, by, bad) \in Finalizations
  BY DEF Finalization, Finalizations, Statuses

LEMMA UpdateAdvances ==
    ASSUME NEW u, NEW step \in {"read", "count", "write"}, NEW next \in Statuses,
           u \in Finalizations
    PROVE  [u EXCEPT !.step = step, !.next = next] \in Finalizations
  BY DEF Finalizations

(* Every write of the agent, its approval and its runs keeps to their types. *)
LEMMA TypeStep ==
    ASSUME TypeOK, [Next]_vars
    PROVE  TypeOK'
<1> USE AgentStatusAssumption
<1> USE DEF Statuses, Ops, Resolvable, Decided
<1>1. ASSUME NEW r \in Runs, Wake(r) PROVE TypeOK'
  BY <1>1 DEF Wake, Goto, NotInvokable, TypeOK
<1>2. ASSUME NEW r \in Runs, Enqueue(r) PROVE TypeOK'
  BY <1>2 DEF Enqueue, Goto, TypeOK
<1>3. ASSUME NEW r \in Runs, ClaimGate(r) PROVE TypeOK'
  <2>1. CASE agent.status \in NotInvokable
    <3>1. row' = [row EXCEPT ![r] = "over"]
          /\ updates' = updates \cup {Finalization(r, "cancel", FALSE)}
          /\ UNCHANGED <<agent, approval, exec, calls, left, admitted, stale>>
      BY <1>3, <2>1 DEF ClaimGate, CancelRun
    <3>2. row' \in [Runs -> {"absent", "queued", "running", "over"}]
      BY <3>1 DEF TypeOK
    <3>3. Finalization(r, "cancel", FALSE) \in Finalizations
      BY FinalizationTyped
    <3>4. updates' \subseteq Finalizations
      BY <3>1, <3>3 DEF TypeOK
    <3> QED
      BY <3>1, <3>2, <3>4 DEF TypeOK
  <2>2. CASE agent.status \notin NotInvokable
    BY <1>3, <2>2 DEF ClaimGate, Goto, TypeOK
  <2> QED
    BY <2>1, <2>2
<1>4. ASSUME NEW r \in Runs, ClaimUpdate(r) PROVE TypeOK'
  BY <1>4 DEF ClaimUpdate, Goto, TypeOK
<1>5. ASSUME NEW r \in Runs, MarkRunning(r) PROVE TypeOK'
  BY <1>5 DEF MarkRunning, Goto, TypeOK
<1>6. ASSUME NEW r \in Runs, RunEnds(r) PROVE TypeOK'
  <2>1. PICK bad \in BOOLEAN : updates' = updates \cup {Finalization(r, "executor", bad)}
    BY <1>6 DEF RunEnds
  <2>2. updates' \subseteq Finalizations
    BY <2>1, FinalizationTyped DEF TypeOK
  <2> QED
    BY <1>6, <2>2 DEF RunEnds, Goto, TypeOK
<1>7. ASSUME NEW r \in Runs, ApiCancel(r) PROVE TypeOK'
  <2>1. row' = [row EXCEPT ![r] = "over"]
        /\ updates' = updates \cup {Finalization(r, "cancel", FALSE)}
        /\ left' \in Nat
        /\ UNCHANGED <<agent, approval, exec, calls, admitted, stale>>
    BY <1>7 DEF ApiCancel, Spend, CancelRun, TypeOK
  <2>2. row' \in [Runs -> {"absent", "queued", "running", "over"}]
    BY <2>1 DEF TypeOK
  <2>3. Finalization(r, "cancel", FALSE) \in Finalizations
    BY FinalizationTyped
  <2>4. updates' \subseteq Finalizations
    BY <2>1, <2>3 DEF TypeOK
  <2> QED
    BY <2>1, <2>2, <2>4 DEF TypeOK
<1>8. ASSUME NEW u \in updates, FinalizeRead(u) PROVE TypeOK'
  <2>1. stale' \in BOOLEAN
    BY <1>8 DEF FinalizeRead, Overtakes, TypeOK
  <2>2. updates' = updates \ {u} \/ updates' = (updates \ {u}) \cup {[u EXCEPT !.step = "count"]}
    BY <1>8 DEF FinalizeRead, Advance
  <2>3. u \in Finalizations
    BY DEF TypeOK
  <2>4. [u EXCEPT !.step = "count"] \in Finalizations
    BY <2>3 DEF Finalizations
  <2>5. updates' \subseteq Finalizations
    BY <2>2, <2>4 DEF TypeOK
  <2> QED
    BY <1>8, <2>1, <2>5 DEF FinalizeRead, TypeOK
<1>9. ASSUME NEW u \in updates, FinalizeCount(u) PROVE TypeOK'
  <2>1. PICK s \in Statuses :
          updates' = (updates \ {u}) \cup {[u EXCEPT !.step = "write", !.next = s]}
    BY <1>9 DEF FinalizeCount, Advance
  <2>2. u \in Finalizations
    BY DEF TypeOK
  <2>3. [u EXCEPT !.step = "write", !.next = s] \in Finalizations
    BY <2>2, UpdateAdvances
  <2>4. updates' \subseteq Finalizations
    BY <2>1, <2>3 DEF TypeOK
  <2> QED
    BY <1>9, <2>4 DEF FinalizeCount, TypeOK
<1>10. ASSUME NEW u \in updates, FinalizeWrite(u) PROVE TypeOK'
  <2>1. u.next \in Statuses
    BY DEF TypeOK, Finalizations
  <2>2. agent' \in [status : Statuses, reason : {"none", "manual", "budget"}]
    BY <1>10, <2>1 DEF FinalizeWrite, TypeOK
  <2>3. stale' \in BOOLEAN
    BY <1>10 DEF FinalizeWrite, Overtakes, TypeOK
  <2> QED
    BY <1>10, <2>2, <2>3 DEF FinalizeWrite, TypeOK
<1>11. ASSUME NEW c \in calls, PauseWrite(c) PROVE TypeOK'
  BY <1>11 DEF PauseWrite, Call, TypeOK
<1>12. ASSUME NEW c \in calls, ResumeWrite(c) PROVE TypeOK'
  BY <1>12 DEF ResumeWrite, TypeOK
<1>13. ASSUME NEW c \in calls, PatchWrite(c) PROVE TypeOK'
  BY <1>13 DEF PatchWrite, TypeOK
<1>14. ASSUME NEW c \in calls, Sweep(c) PROVE TypeOK'
  BY <1>14 DEF Sweep, TypeOK
<1>15. ASSUME NEW c \in calls, ActivateHired(c) PROVE TypeOK'
  BY <1>15 DEF ActivateHired, Activated, TypeOK
<1>16. ASSUME NEW c \in calls, TerminateRejected(c) PROVE TypeOK'
  BY <1>16 DEF TerminateRejected, TypeOK
<1>17. ASSUME NEW c \in calls, ApprovalWrite(c) PROVE TypeOK'
  BY <1>17 DEF ApprovalWrite, Resolvable, Decided, TypeOK
<1>18. ASSUME Pause PROVE TypeOK'
  BY <1>18 DEF Pause, Begin, Call, TypeOK
<1>19. ASSUME Resume PROVE TypeOK'
  BY <1>19 DEF Resume, Begin, Call, TypeOK
<1>20. ASSUME Terminate PROVE TypeOK'
  BY <1>20 DEF Terminate, Begin, Call, TypeOK
<1>21. ASSUME BudgetPause PROVE TypeOK'
  BY <1>21 DEF BudgetPause, Begin, Call, TypeOK
<1>22. ASSUME BudgetResume PROVE TypeOK'
  BY <1>22 DEF BudgetResume, Spend, TypeOK
<1>23. ASSUME ApproveAgent PROVE TypeOK'
  BY <1>23 DEF ApproveAgent, Spend, Activated, TypeOK
<1>24. ASSUME Approve PROVE TypeOK'
  BY <1>24 DEF Approve, Begin, Call, Resolvable, Decided, TypeOK
<1>25. ASSUME Reject PROVE TypeOK'
  BY <1>25 DEF Reject, Begin, Call, Resolvable, Decided, TypeOK
<1>26. ASSUME RequestRevision PROVE TypeOK'
  BY <1>26 DEF RequestRevision, Begin, Call, Resolvable, Decided, TypeOK
<1>27. ASSUME Resubmit PROVE TypeOK'
  BY <1>27 DEF Resubmit, Begin, Call, Resolvable, Decided, TypeOK
<1>28. ASSUME NEW to \in PatchTo, Patch(to) PROVE TypeOK'
  BY <1>28 DEF Patch, Begin, Call, TypeOK
<1>29. CASE UNCHANGED vars
  BY <1>29 DEF vars, TypeOK
<1>30. ASSUME NEW r \in Runs, ClaimThrows(r) PROVE TypeOK'
  BY <1>30 DEF ClaimThrows, Goto, TypeOK
<1>31. ASSUME NEW r \in Runs, BeginExecution(r) PROVE TypeOK'
  BY <1>31 DEF BeginExecution, Goto, TypeOK
<1>32. ASSUME NEW r \in Runs, Reap(r) PROVE TypeOK'
  <2>1. updates' \subseteq Finalizations
    BY <1>32, FinalizationTyped DEF Reap, TypeOK
  <2> QED
    BY <1>32, <2>1 DEF Reap, TypeOK
<1>33. ASSUME Crash PROVE TypeOK'
  BY <1>33 DEF Crash, Spend, TypeOK
<1> QED
  BY <1>1, <1>2, <1>3, <1>4, <1>5, <1>6, <1>7, <1>8, <1>9, <1>10, <1>11, <1>12, <1>13, <1>14, <1>15,
     <1>16, <1>17, <1>18, <1>19, <1>20, <1>21, <1>22, <1>23, <1>24, <1>25, <1>26, <1>27, <1>28,
     <1>29, <1>30, <1>31, <1>32, <1>33
  DEF Next, RunStep, UpdateStep, CallStep, Api

(* The rows and the calls under way are well formed in every reachable state. *)
THEOREM TypesKept == Spec => []TypeOK
<1>1. ASSUME Init PROVE TypeOK
  <2>1. agent \in [status : Statuses, reason : {"none", "manual", "budget"}]
    BY <1>1 DEF Init, Statuses
  <2>2. row \in [Runs -> {"absent", "queued", "running", "over"}]
    BY <1>1 DEF Init
  <2>3. exec \in [Runs -> {"none", "insert", "claim", "begin", "mark", "adapter"}]
    BY <1>1 DEF Init
  <2> QED
    BY <1>1, <2>1, <2>2, <2>3, AgentStatusAssumption DEF Init, TypeOK, Resolvable
<1>2. TypeOK /\ [Next]_vars => TypeOK'
  BY TypeStep
<1> QED
  BY <1>1, <1>2, PTL DEF Spec

(* While nobody has admitted the agent, no step but a pause or an approval    *)
(* leads on.                                                                 *)
LEMMA AdmissionStep ==
    ASSUME TypeOK, NotAdmitted, [Next]_vars
    PROVE  NotAdmitted'
<1> USE AgentStatusAssumption DEF Statuses
<1>1. ASSUME NEW r \in Runs, Wake(r) PROVE NotAdmitted'
  BY <1>1 DEF Wake, Goto, NotInvokable, NotAdmitted, TypeOK
<1>2. ASSUME NEW r \in Runs, Enqueue(r) PROVE NotAdmitted'
  BY <1>2 DEF Enqueue, Goto, NotAdmitted, TypeOK
<1>3. ASSUME NEW r \in Runs, ClaimGate(r) PROVE NotAdmitted'
  BY <1>3 DEF ClaimGate, Goto, NotInvokable, CancelRun, Finalization, NotAdmitted, TypeOK
<1>4. ASSUME NEW r \in Runs, ClaimUpdate(r) PROVE NotAdmitted'
  BY <1>4 DEF ClaimUpdate, Goto, NotAdmitted, TypeOK
<1>5. ASSUME NEW r \in Runs, MarkRunning(r) PROVE NotAdmitted'
  BY <1>5 DEF MarkRunning, Goto, NotAdmitted, TypeOK
<1>6. ASSUME NEW r \in Runs, RunEnds(r) PROVE NotAdmitted'
  BY <1>6 DEF RunEnds, Goto, Finalization, NotAdmitted, TypeOK
<1>7. ASSUME NEW r \in Runs, ApiCancel(r) PROVE NotAdmitted'
  BY <1>7 DEF ApiCancel, Spend, CancelRun, Finalization, NotAdmitted, TypeOK
<1>8. ASSUME NEW u \in updates, FinalizeRead(u) PROVE NotAdmitted'
  BY <1>8 DEF FinalizeRead, Advance, NotAdmitted, TypeOK
<1>9. ASSUME NEW u \in updates, FinalizeCount(u) PROVE NotAdmitted'
  BY <1>9 DEF FinalizeCount, Advance, RunningRuns, NotAdmitted, TypeOK
<1>10. ASSUME NEW u \in updates, FinalizeWrite(u) PROVE NotAdmitted'
  BY <1>10 DEF FinalizeWrite, NotAdmitted, TypeOK
<1>11. ASSUME NEW c \in calls, PauseWrite(c) PROVE NotAdmitted'
  BY <1>11 DEF PauseWrite, Call, NotAdmitted, TypeOK
<1>12. ASSUME NEW c \in calls, ResumeWrite(c) PROVE NotAdmitted'
  BY <1>12 DEF ResumeWrite, NotAdmitted, TypeOK
<1>13. ASSUME NEW c \in calls, PatchWrite(c) PROVE NotAdmitted'
  BY <1>13 DEF PatchWrite, NotAdmitted, TypeOK
<1>14. ASSUME NEW c \in calls, Sweep(c) PROVE NotAdmitted'
  BY <1>14 DEF Sweep, NotAdmitted, TypeOK
<1>15. ASSUME NEW c \in calls, ActivateHired(c) PROVE NotAdmitted'
  BY <1>15 DEF ActivateHired, Activated, NotAdmitted, TypeOK
<1>16. ASSUME NEW c \in calls, TerminateRejected(c) PROVE NotAdmitted'
  BY <1>16 DEF TerminateRejected, NotAdmitted, TypeOK
<1>17. ASSUME NEW c \in calls, ApprovalWrite(c) PROVE NotAdmitted'
  BY <1>17 DEF ApprovalWrite, Resolvable, Decided, NotAdmitted, TypeOK
<1>18. ASSUME Pause PROVE NotAdmitted'
  BY <1>18 DEF Pause, Begin, Call, NotAdmitted, TypeOK
<1>19. ASSUME Resume PROVE NotAdmitted'
  BY <1>19 DEF Resume, Begin, Call, NotAdmitted, TypeOK
<1>20. ASSUME Terminate PROVE NotAdmitted'
  BY <1>20 DEF Terminate, Begin, Call, NotAdmitted, TypeOK
<1>21. ASSUME BudgetPause PROVE NotAdmitted'
  BY <1>21 DEF BudgetPause, Begin, Call, NotAdmitted, TypeOK
<1>22. ASSUME BudgetResume PROVE NotAdmitted'
  BY <1>22 DEF BudgetResume, Spend, NotAdmitted, TypeOK
<1>23. ASSUME ApproveAgent PROVE NotAdmitted'
  BY <1>23 DEF ApproveAgent, Spend, Activated, NotAdmitted, TypeOK
<1>24. ASSUME Approve PROVE NotAdmitted'
  BY <1>24 DEF Approve, Begin, Call, Resolvable, Decided, NotAdmitted, TypeOK
<1>25. ASSUME Reject PROVE NotAdmitted'
  BY <1>25 DEF Reject, Begin, Call, Resolvable, Decided, NotAdmitted, TypeOK
<1>26. ASSUME RequestRevision PROVE NotAdmitted'
  BY <1>26 DEF RequestRevision, Begin, Call, Resolvable, Decided, NotAdmitted, TypeOK
<1>27. ASSUME Resubmit PROVE NotAdmitted'
  BY <1>27 DEF Resubmit, Begin, Call, Resolvable, Decided, NotAdmitted, TypeOK
<1>28. ASSUME NEW to \in PatchTo, Patch(to) PROVE NotAdmitted'
  BY <1>28 DEF Patch, Begin, Call, NotAdmitted, TypeOK
<1>29. CASE UNCHANGED vars
  BY <1>29 DEF vars, NotAdmitted, TypeOK
<1>30. ASSUME NEW r \in Runs, ClaimThrows(r) PROVE NotAdmitted'
  BY <1>30 DEF ClaimThrows, Goto, NotAdmitted, TypeOK
<1>31. ASSUME NEW r \in Runs, BeginExecution(r) PROVE NotAdmitted'
  BY <1>31 DEF BeginExecution, Goto, NotAdmitted, TypeOK
<1>32. ASSUME NEW r \in Runs, Reap(r) PROVE NotAdmitted'
  BY <1>32 DEF Reap, Finalization, NotAdmitted, TypeOK
<1>33. ASSUME Crash PROVE NotAdmitted'
  BY <1>33 DEF Crash, Spend, NotAdmitted, TypeOK
<1> QED
  BY <1>1, <1>2, <1>3, <1>4, <1>5, <1>6, <1>7, <1>8, <1>9, <1>10, <1>11, <1>12, <1>13, <1>14, <1>15,
     <1>16, <1>17, <1>18, <1>19, <1>20, <1>21, <1>22, <1>23, <1>24, <1>25, <1>26, <1>27, <1>28,
     <1>29, <1>30, <1>31, <1>32, <1>33
  DEF Next, RunStep, UpdateStep, CallStep, Api

(* An agent whose hire was never approved neither works nor may work, unless *)
(* it has been paused: pending_approval is respected by the wakes, the claim, *)
(* resume, PATCH and the budget (HiredOnlyByApproval).                       *)
THEOREM WorkNeedsApproval == Spec => []HiredOnlyByApproval
<1>1. Init => NotAdmitted
  BY DEF Init, NotAdmitted
<1>2. TypeOK /\ NotAdmitted /\ [Next]_vars => NotAdmitted'
  BY AdmissionStep
<1>3. NotAdmitted => HiredOnlyByApproval
  BY DEF NotAdmitted, HiredOnlyByApproval
<1> QED
  BY <1>1, <1>2, <1>3, TypesKept, PTL DEF Spec

(* Nothing that begins once the agent is terminated and at rest gets past    *)
(* its guard.                                                                *)
LEMMA SealedStep ==
    ASSUME TypeOK, Sealed, [Next]_vars
    PROVE  Sealed'
<1> USE AgentStatusAssumption DEF Statuses
<1>1. ASSUME NEW r \in Runs, Wake(r) PROVE Sealed'
  BY <1>1 DEF Wake, Goto, NotInvokable, Sealed, TypeOK
<1>2. ASSUME NEW r \in Runs, Enqueue(r) PROVE Sealed'
  BY <1>2 DEF Enqueue, Goto, Sealed, TypeOK
<1>3. ASSUME NEW r \in Runs, ClaimGate(r) PROVE Sealed'
  BY <1>3 DEF ClaimGate, Goto, NotInvokable, CancelRun, Finalization, Sealed, TypeOK
<1>4. ASSUME NEW r \in Runs, ClaimUpdate(r) PROVE Sealed'
  BY <1>4 DEF ClaimUpdate, Goto, Sealed, TypeOK
<1>5. ASSUME NEW r \in Runs, MarkRunning(r) PROVE Sealed'
  BY <1>5 DEF MarkRunning, Goto, Sealed, TypeOK
<1>6. ASSUME NEW r \in Runs, RunEnds(r) PROVE Sealed'
  BY <1>6 DEF RunEnds, Goto, Finalization, Sealed, TypeOK
<1>7. ASSUME NEW r \in Runs, ApiCancel(r) PROVE Sealed'
  BY <1>7 DEF ApiCancel, Spend, CancelRun, Finalization, Sealed, TypeOK
<1>8. ASSUME NEW u \in updates, FinalizeRead(u) PROVE Sealed'
  BY <1>8 DEF FinalizeRead, Advance, Sealed, TypeOK
<1>9. ASSUME NEW u \in updates, FinalizeCount(u) PROVE Sealed'
  BY <1>9 DEF FinalizeCount, Advance, RunningRuns, Sealed, TypeOK
<1>10. ASSUME NEW u \in updates, FinalizeWrite(u) PROVE Sealed'
  BY <1>10 DEF FinalizeWrite, Sealed, TypeOK
<1>11. ASSUME NEW c \in calls, PauseWrite(c) PROVE Sealed'
  BY <1>11 DEF PauseWrite, Call, Sealed, TypeOK
<1>12. ASSUME NEW c \in calls, ResumeWrite(c) PROVE Sealed'
  BY <1>12 DEF ResumeWrite, Sealed, TypeOK
<1>13. ASSUME NEW c \in calls, PatchWrite(c) PROVE Sealed'
  BY <1>13 DEF PatchWrite, Sealed, TypeOK
<1>14. ASSUME NEW c \in calls, Sweep(c) PROVE Sealed'
  BY <1>14 DEF Sweep, Sealed, TypeOK
<1>15. ASSUME NEW c \in calls, ActivateHired(c) PROVE Sealed'
  BY <1>15 DEF ActivateHired, Activated, Sealed, TypeOK
<1>16. ASSUME NEW c \in calls, TerminateRejected(c) PROVE Sealed'
  BY <1>16 DEF TerminateRejected, Sealed, TypeOK
<1>17. ASSUME NEW c \in calls, ApprovalWrite(c) PROVE Sealed'
  BY <1>17 DEF ApprovalWrite, Resolvable, Decided, Sealed, TypeOK
<1>18. ASSUME Pause PROVE Sealed'
  BY <1>18 DEF Pause, Begin, Call, Sealed, TypeOK
<1>19. ASSUME Resume PROVE Sealed'
  BY <1>19 DEF Resume, Begin, Call, Sealed, TypeOK
<1>20. ASSUME Terminate PROVE Sealed'
  BY <1>20 DEF Terminate, Begin, Call, Sealed, TypeOK
<1>21. ASSUME BudgetPause PROVE Sealed'
  BY <1>21 DEF BudgetPause, Begin, Call, Sealed, TypeOK
<1>22. ASSUME BudgetResume PROVE Sealed'
  BY <1>22 DEF BudgetResume, Spend, Sealed, TypeOK
<1>23. ASSUME ApproveAgent PROVE Sealed'
  BY <1>23 DEF ApproveAgent, Spend, Activated, Sealed, TypeOK
<1>24. ASSUME Approve PROVE Sealed'
  BY <1>24 DEF Approve, Begin, Call, Resolvable, Decided, Sealed, TypeOK
<1>25. ASSUME Reject PROVE Sealed'
  BY <1>25 DEF Reject, Begin, Call, Resolvable, Decided, Sealed, TypeOK
<1>26. ASSUME RequestRevision PROVE Sealed'
  BY <1>26 DEF RequestRevision, Begin, Call, Resolvable, Decided, Sealed, TypeOK
<1>27. ASSUME Resubmit PROVE Sealed'
  BY <1>27 DEF Resubmit, Begin, Call, Resolvable, Decided, Sealed, TypeOK
<1>28. ASSUME NEW to \in PatchTo, Patch(to) PROVE Sealed'
  BY <1>28 DEF Patch, Begin, Call, Sealed, TypeOK
<1>29. CASE UNCHANGED vars
  BY <1>29 DEF vars, Sealed, TypeOK
<1>30. ASSUME NEW r \in Runs, ClaimThrows(r) PROVE Sealed'
  BY <1>30 DEF ClaimThrows, Goto, Sealed, TypeOK
<1>31. ASSUME NEW r \in Runs, BeginExecution(r) PROVE Sealed'
  BY <1>31 DEF BeginExecution, Goto, Sealed, TypeOK
<1>32. ASSUME NEW r \in Runs, Reap(r) PROVE Sealed'
  BY <1>32 DEF Reap, Finalization, Sealed, TypeOK
<1>33. ASSUME Crash PROVE Sealed'
  BY <1>33 DEF Crash, Spend, Sealed, TypeOK
<1> QED
  BY <1>1, <1>2, <1>3, <1>4, <1>5, <1>6, <1>7, <1>8, <1>9, <1>10, <1>11, <1>12, <1>13, <1>14, <1>15,
     <1>16, <1>17, <1>18, <1>19, <1>20, <1>21, <1>22, <1>23, <1>24, <1>25, <1>26, <1>27, <1>28,
     <1>29, <1>30, <1>31, <1>32, <1>33
  DEF Next, RunStep, UpdateStep, CallStep, Api

(* Termination is irreversible once what was decided before has come to rest *)
(* (TerminationSettles).                                                     *)
THEOREM TerminationIsKept == Spec => TerminationSettles
<1>1. Settled /\ agent.status = "terminated" /\ agent.reason # "budget" => Sealed
  BY DEF Settled, Sealed
<1>2. TypeOK /\ Sealed /\ [Next]_vars => Sealed'
  BY SealedStep
<1>3. Sealed => agent.status = "terminated"
  BY DEF Sealed
<1> QED
  BY <1>1, <1>2, <1>3, TypesKept, PTL DEF Spec, TerminationSettles

(* A decision on a hire is replaced by no other decision (DecisionKept).     *)
LEMMA DecisionStep ==
    ASSUME TypeOK, Next
    PROVE  approval' # approval /\ approval \in Decided =>
             /\ approval' \in Resolvable
             /\ \E c \in calls \ calls' : c.op \in {"revise", "resubmit"}
<1> DEFINE Kept == approval' # approval /\ approval \in Decided =>
                     /\ approval' \in Resolvable
                     /\ \E c \in calls \ calls' : c.op \in {"revise", "resubmit"}
<1> SUFFICES Kept
  OBVIOUS
<1>1. ASSUME NEW r \in Runs, Wake(r) PROVE Kept
  BY <1>1 DEF Wake, Goto, NotInvokable, Decided, Resolvable
<1>2. ASSUME NEW r \in Runs, Enqueue(r) PROVE Kept
  BY <1>2 DEF Enqueue, Goto, Decided, Resolvable
<1>3. ASSUME NEW r \in Runs, ClaimGate(r) PROVE Kept
  BY <1>3 DEF ClaimGate, Goto, NotInvokable, CancelRun, Finalization, Decided, Resolvable
<1>4. ASSUME NEW r \in Runs, ClaimUpdate(r) PROVE Kept
  BY <1>4 DEF ClaimUpdate, Goto, Decided, Resolvable
<1>5. ASSUME NEW r \in Runs, MarkRunning(r) PROVE Kept
  BY <1>5 DEF MarkRunning, Goto, Decided, Resolvable
<1>6. ASSUME NEW r \in Runs, RunEnds(r) PROVE Kept
  BY <1>6 DEF RunEnds, Goto, Finalization, Decided, Resolvable
<1>7. ASSUME NEW r \in Runs, ApiCancel(r) PROVE Kept
  BY <1>7 DEF ApiCancel, Spend, CancelRun, Finalization, Decided, Resolvable
<1>8. ASSUME NEW u \in updates, FinalizeRead(u) PROVE Kept
  BY <1>8 DEF FinalizeRead, Advance, Decided, Resolvable
<1>9. ASSUME NEW u \in updates, FinalizeCount(u) PROVE Kept
  BY <1>9 DEF FinalizeCount, Advance, RunningRuns, Decided, Resolvable
<1>10. ASSUME NEW u \in updates, FinalizeWrite(u) PROVE Kept
  BY <1>10 DEF FinalizeWrite, Decided, Resolvable
<1>11. ASSUME NEW c \in calls, PauseWrite(c) PROVE Kept
  BY <1>11 DEF PauseWrite, Call, Decided, Resolvable
<1>12. ASSUME NEW c \in calls, ResumeWrite(c) PROVE Kept
  BY <1>12 DEF ResumeWrite, Decided, Resolvable
<1>13. ASSUME NEW c \in calls, PatchWrite(c) PROVE Kept
  BY <1>13 DEF PatchWrite, Decided, Resolvable
<1>14. ASSUME NEW c \in calls, Sweep(c) PROVE Kept
  BY <1>14 DEF Sweep, Decided, Resolvable
<1>15. ASSUME NEW c \in calls, ActivateHired(c) PROVE Kept
  BY <1>15 DEF ActivateHired, Activated, Decided, Resolvable
<1>16. ASSUME NEW c \in calls, TerminateRejected(c) PROVE Kept
  BY <1>16 DEF TerminateRejected, Decided, Resolvable
<1>17. ASSUME NEW c \in calls, ApprovalWrite(c) PROVE Kept
  BY <1>17 DEF ApprovalWrite, Resolvable, Decided
<1>18. ASSUME Pause PROVE Kept
  BY <1>18 DEF Pause, Begin, Call, Decided, Resolvable
<1>19. ASSUME Resume PROVE Kept
  BY <1>19 DEF Resume, Begin, Call, Decided, Resolvable
<1>20. ASSUME Terminate PROVE Kept
  BY <1>20 DEF Terminate, Begin, Call, Decided, Resolvable
<1>21. ASSUME BudgetPause PROVE Kept
  BY <1>21 DEF BudgetPause, Begin, Call, Decided, Resolvable
<1>22. ASSUME BudgetResume PROVE Kept
  BY <1>22 DEF BudgetResume, Spend, Decided, Resolvable
<1>23. ASSUME ApproveAgent PROVE Kept
  BY <1>23 DEF ApproveAgent, Spend, Activated, Decided, Resolvable
<1>24. ASSUME Approve PROVE Kept
  BY <1>24 DEF Approve, Begin, Call, Resolvable, Decided
<1>25. ASSUME Reject PROVE Kept
  BY <1>25 DEF Reject, Begin, Call, Resolvable, Decided
<1>26. ASSUME RequestRevision PROVE Kept
  BY <1>26 DEF RequestRevision, Begin, Call, Resolvable, Decided
<1>27. ASSUME Resubmit PROVE Kept
  BY <1>27 DEF Resubmit, Begin, Call, Resolvable, Decided
<1>28. ASSUME NEW to \in PatchTo, Patch(to) PROVE Kept
  BY <1>28 DEF Patch, Begin, Call, Decided, Resolvable
<1>30. ASSUME NEW r \in Runs, ClaimThrows(r) PROVE Kept
  BY <1>30 DEF ClaimThrows, Goto, Decided, Resolvable
<1>31. ASSUME NEW r \in Runs, BeginExecution(r) PROVE Kept
  BY <1>31 DEF BeginExecution, Goto, Decided, Resolvable
<1>32. ASSUME NEW r \in Runs, Reap(r) PROVE Kept
  BY <1>32 DEF Reap, Finalization, Decided, Resolvable
<1>33. ASSUME Crash PROVE Kept
  BY <1>33 DEF Crash, Spend, Decided, Resolvable
<1> QED
  BY <1>1, <1>2, <1>3, <1>4, <1>5, <1>6, <1>7, <1>8, <1>9, <1>10, <1>11, <1>12, <1>13, <1>14, <1>15,
     <1>16, <1>17, <1>18, <1>19, <1>20, <1>21, <1>22, <1>23, <1>24, <1>25, <1>26, <1>27, <1>28,
     <1>30, <1>31, <1>32, <1>33
  DEF Next, RunStep, UpdateStep, CallStep, Api

THEOREM DecisionsAreKept == Spec => DecisionKept
<1>1. TypeOK /\ Next => (approval' # approval /\ approval \in Decided =>
                            /\ approval' \in Resolvable
                            /\ \E c \in calls \ calls' : c.op \in {"revise", "resubmit"})
  BY DecisionStep
<1>2. UNCHANGED vars => approval' = approval
  BY DEF vars
<1> QED
  BY <1>1, <1>2, TypesKept, PTL DEF Spec, DecisionKept


(* What a call of the API, of the budget or of the approvals may do to the   *)
(* runs: nothing but end their rows; it shows the agent as running only if   *)
(* it was already, or says so in "stale".                                    *)
LEMMA CallsLeaveRuns ==
    ASSUME TypeOK, Api \/ \E c \in calls : CallStep(c)
    PROVE  /\ exec' = exec /\ updates' = updates
           /\ \A r \in Runs : row'[r] # row[r] =>
                /\ row'[r] = "over" /\ row[r] # "absent"
                /\ row[r] = "running" => Executing(r) \/ stale'
           /\ stale => stale'
           /\ agent'.status = "running" => agent.status = "running" \/ stale'
<1> DEFINE Leaves == /\ exec' = exec /\ updates' = updates
                     /\ \A r \in Runs : row'[r] # row[r] =>
                          /\ row'[r] = "over" /\ row[r] # "absent"
                          /\ row[r] = "running" => Executing(r) \/ stale'
                     /\ stale => stale'
                     /\ agent'.status = "running" => agent.status = "running" \/ stale'
<1> SUFFICES Leaves
  OBVIOUS
<1>1. ASSUME NEW c \in calls, PauseWrite(c) PROVE Leaves
  BY <1>1 DEF PauseWrite
<1>2. ASSUME NEW c \in calls, ResumeWrite(c) PROVE Leaves
  BY <1>2 DEF ResumeWrite
<1>3. ASSUME NEW c \in calls, PatchWrite(c) PROVE Leaves
  BY <1>3 DEF PatchWrite, TypeOK
<1>4. ASSUME NEW c \in calls, Sweep(c) PROVE Leaves
  BY <1>4 DEF Sweep, RunningRuns, TypeOK
<1>5. ASSUME NEW c \in calls, ActivateHired(c) PROVE Leaves
  BY <1>5 DEF ActivateHired, Activated, TypeOK
<1>6. ASSUME NEW c \in calls, TerminateRejected(c) PROVE Leaves
  BY <1>6 DEF TerminateRejected
<1>7. ASSUME NEW c \in calls, ApprovalWrite(c) PROVE Leaves
  BY <1>7 DEF ApprovalWrite
<1>8. ASSUME Pause \/ Resume \/ Approve \/ Reject \/ RequestRevision \/ Resubmit PROVE Leaves
  BY <1>8 DEF Pause, Resume, Approve, Reject, RequestRevision, Resubmit
<1>9. ASSUME Terminate PROVE Leaves
  BY <1>9 DEF Terminate
<1>10. ASSUME BudgetPause PROVE Leaves
  BY <1>10 DEF BudgetPause, TypeOK
<1>11. ASSUME BudgetResume PROVE Leaves
  BY <1>11 DEF BudgetResume
<1>12. ASSUME ApproveAgent PROVE Leaves
  BY <1>12 DEF ApproveAgent, Activated, TypeOK
<1>13. ASSUME NEW to \in PatchTo, Patch(to) PROVE Leaves
  BY <1>13 DEF Patch
<1> QED
  BY <1>1, <1>2, <1>3, <1>4, <1>5, <1>6, <1>7, <1>8, <1>9, <1>10, <1>11, <1>12, <1>13
  DEF CallStep, Api

(* A run whose row is yet to be inserted has none.                           *)
LEMMA RunsHeldStep ==
    ASSUME TypeOK, RunsHeld, [Next]_vars
    PROVE  RunsHeld'
<1>1. ASSUME NEW r \in Runs, RunStep(r) PROVE RunsHeld'
  <2>1. CASE Wake(r)
    BY <2>1 DEF Wake, Goto, RunsHeld, TypeOK
  <2>2. CASE Enqueue(r)
    BY <2>2 DEF Enqueue, Goto, RunsHeld, TypeOK
  <2>3. CASE ClaimGate(r)
    BY <2>3 DEF ClaimGate, CancelRun, Goto, RunsHeld, TypeOK
  <2>4. CASE ClaimUpdate(r)
    BY <2>4 DEF ClaimUpdate, Goto, RunsHeld, TypeOK
  <2>5. CASE MarkRunning(r)
    BY <2>5 DEF MarkRunning, Goto, RunsHeld, TypeOK
  <2>6. CASE RunEnds(r)
    BY <2>6 DEF RunEnds, Goto, RunsHeld, TypeOK
  <2>7. CASE ApiCancel(r)
    BY <2>7 DEF ApiCancel, CancelRun, RunsHeld, TypeOK
  <2>8. CASE ClaimThrows(r) \/ BeginExecution(r)
    BY <2>8 DEF ClaimThrows, BeginExecution, Goto, RunsHeld, TypeOK
  <2>9. CASE Reap(r)
    BY <2>9 DEF Reap, RunsHeld, TypeOK
  <2> QED
    BY <1>1, <2>1, <2>2, <2>3, <2>4, <2>5, <2>6, <2>7, <2>8, <2>9 DEF RunStep
<1>2. ASSUME NEW u \in updates, UpdateStep(u) PROVE RunsHeld'
  BY <1>2 DEF UpdateStep, FinalizeRead, FinalizeCount, FinalizeWrite, RunsHeld
<1>3. CASE Api \/ \E c \in calls : CallStep(c)
  BY <1>3, CallsLeaveRuns DEF RunsHeld, TypeOK
<1>4. CASE UNCHANGED vars
  BY <1>4 DEF vars, RunsHeld
<1>5. CASE Crash
  BY <1>5 DEF Crash, RunsHeld
<1> QED
  BY <1>1, <1>2, <1>3, <1>4, <1>5 DEF Next

(* What a finalization is about does not change while it goes on, and what it *)
(* leaves is no other one.                                                   *)
LEMMA OnceKept ==
    ASSUME TypeOK, FinalizedOnce, NEW u \in updates,
           row' = row, exec' = exec,
           \/ updates' = updates \ {u}
           \/ \E s \in {"read", "count", "write"}, n \in Statuses :
                updates' = (updates \ {u}) \cup {[u EXCEPT !.step = s, !.next = n]}
    PROVE  FinalizedOnce'
<1>1. CASE updates' = updates \ {u}
  BY <1>1 DEF FinalizedOnce
<1>2. ASSUME NEW s \in {"read", "count", "write"}, NEW n \in Statuses,
             updates' = (updates \ {u}) \cup {[u EXCEPT !.step = s, !.next = n]}
      PROVE  FinalizedOnce'
  <2>1. u \in Finalizations
    BY DEF TypeOK
  <2> DEFINE w == [u EXCEPT !.step = s, !.next = n]
  <2>2. w.run = u.run /\ w.by = u.by
    BY <2>1 DEF Finalizations
  <2>3. \A v \in updates' : v = w \/ v \in updates \ {u}
    BY <1>2
  <2> HIDE DEF w
  <2>4. ASSUME NEW v \in updates'
        PROVE  row'[v.run] = "over" /\ (v.by = "executor" => exec'[v.run] = "none")
    BY <2>2, <2>3, <2>4 DEF FinalizedOnce
  <2>5. ASSUME NEW v \in updates', NEW x \in updates', v.run = x.run, v.by = x.by
        PROVE  v = x
    <3>1. CASE v = w /\ x # w
      <4>1. x \in updates \ {u} /\ x.run = u.run /\ x.by = u.by
        BY <2>2, <2>3, <2>5, <3>1
      <4> QED
        BY <4>1 DEF FinalizedOnce
    <3>2. CASE x = w /\ v # w
      <4>1. v \in updates \ {u} /\ v.run = u.run /\ v.by = u.by
        BY <2>2, <2>3, <2>5, <3>2
      <4> QED
        BY <4>1 DEF FinalizedOnce
    <3>3. CASE v # w /\ x # w
      <4>1. v \in updates /\ x \in updates
        BY <2>3, <3>3
      <4> QED
        BY <2>5, <4>1 DEF FinalizedOnce
    <3> QED
      BY <3>1, <3>2, <3>3
  <2> QED
    BY <2>4, <2>5 DEF FinalizedOnce
<1> QED
  BY <1>1, <1>2

(* A finalization that begins is of a run that has none by the same hand.    *)
LEMMA OnceBegins ==
    ASSUME TypeOK, FinalizedOnce, NEW r \in Runs, NEW by \in {"executor", "cancel", "reaper"},
           NEW bad \in BOOLEAN,
           by # "executor" => row[r] # "over" /\ exec' = exec,
           by = "executor" => exec[r] # "none" /\ exec' = [exec EXCEPT ![r] = "none"],
           row' = [row EXCEPT ![r] = "over"],
           updates' = updates \cup {Finalization(r, by, bad)}
    PROVE  FinalizedOnce'
<1> DEFINE w == Finalization(r, by, bad)
<1>1. w.run = r /\ w.by = by
  BY DEF Finalization
<1>2. \A v \in updates' : v = w \/ v \in updates
  OBVIOUS
<1> HIDE DEF w
<1>3. ASSUME NEW v \in updates PROVE ~(v.run = r /\ v.by = by)
  BY <1>3 DEF FinalizedOnce
<1>4. row'[r] = "over" /\ \A q \in Runs : q # r => row'[q] = row[q]
  BY DEF TypeOK
<1>5. (by = "executor" => exec'[r] = "none") /\ \A q \in Runs : exec'[q] \in {exec[q], "none"}
  BY DEF TypeOK
<1>6. \A v \in updates : v.run \in Runs
  BY DEF TypeOK, Finalizations
<1>7. ASSUME NEW v \in updates'
      PROVE  row'[v.run] = "over" /\ (v.by = "executor" => exec'[v.run] = "none")
  <2>1. CASE v = w
    BY <2>1, <1>1, <1>4, <1>5
  <2>2. CASE v \in updates
    BY <2>2, <1>4, <1>5, <1>6 DEF FinalizedOnce
  <2> QED
    BY <1>7, <1>2, <2>1, <2>2
<1>8. ASSUME NEW v \in updates', NEW x \in updates', v.run = x.run, v.by = x.by
      PROVE  v = x
  BY <1>8, <1>1, <1>2, <1>3 DEF FinalizedOnce
<1> QED
  BY <1>7, <1>8 DEF FinalizedOnce

(* No run is finalized twice by the same hand.                               *)
LEMMA FinalizedOnceStep ==
    ASSUME TypeOK, RunsHeld, FinalizedOnce, [Next]_vars
    PROVE  FinalizedOnce'
<1> \A u \in updates : u.run \in Runs
  BY DEF TypeOK, Finalizations
<1>1. ASSUME NEW r \in Runs, RunStep(r) PROVE FinalizedOnce'
  <2>1. CASE Wake(r)
    BY <2>1 DEF Wake, Goto, FinalizedOnce, TypeOK
  <2>2. CASE Enqueue(r)
    BY <2>2 DEF Enqueue, Goto, RunsHeld, FinalizedOnce, TypeOK
  <2>3. CASE ClaimGate(r)
    <3>1. CASE agent.status \in NotInvokable
      <4>1. row[r] = "queued" /\ exec' = exec /\ row' = [row EXCEPT ![r] = "over"]
            /\ updates' = updates \cup {Finalization(r, "cancel", FALSE)}
        BY <2>3, <3>1 DEF ClaimGate, CancelRun
      <4> QED
        BY <4>1, OnceBegins
    <3>2. CASE agent.status \notin NotInvokable
      BY <2>3, <3>2 DEF ClaimGate, Goto, FinalizedOnce, TypeOK
    <3> QED
      BY <3>1, <3>2
  <2>4. CASE ClaimUpdate(r)
    BY <2>4 DEF ClaimUpdate, Goto, FinalizedOnce, TypeOK
  <2>5. CASE MarkRunning(r)
    BY <2>5 DEF MarkRunning, Goto, FinalizedOnce, TypeOK
  <2>6. CASE RunEnds(r)
    <3>1. PICK bad \in BOOLEAN : updates' = updates \cup {Finalization(r, "executor", bad)}
      BY <2>6 DEF RunEnds
    <3>2. exec[r] # "none" /\ exec' = [exec EXCEPT ![r] = "none"] /\ row' = [row EXCEPT ![r] = "over"]
      BY <2>6 DEF RunEnds, Goto
    <3> QED
      BY <3>1, <3>2, OnceBegins
  <2>7. CASE ApiCancel(r)
    <3>1. row[r] # "over" /\ exec' = exec /\ row' = [row EXCEPT ![r] = "over"]
          /\ updates' = updates \cup {Finalization(r, "cancel", FALSE)}
      BY <2>7 DEF ApiCancel, CancelRun
    <3> QED
      BY <3>1, OnceBegins
  <2>8. CASE ClaimThrows(r) \/ BeginExecution(r)
    <3>1. row' = row /\ updates' = updates /\ row[r] \in {"absent", "queued", "running", "over"}
      BY <2>8 DEF ClaimThrows, BeginExecution, TypeOK
    <3>2. exec[r] = "begin" /\ exec' \in [Runs -> {exec[q] : q \in Runs} \cup {"none", "mark"}]
          /\ \A q \in Runs : exec[q] = "none" => exec'[q] = "none"
      BY <2>8 DEF ClaimThrows, BeginExecution, Goto, TypeOK
    <3> QED
      BY <3>1, <3>2 DEF FinalizedOnce
  <2>9. CASE Reap(r)
    <3>1. row[r] # "over" /\ exec' = exec /\ row' = [row EXCEPT ![r] = "over"]
          /\ updates' = updates \cup {Finalization(r, "reaper", TRUE)}
      BY <2>9 DEF Reap
    <3> QED
      BY <3>1, OnceBegins
  <2> QED
    BY <1>1, <2>1, <2>2, <2>3, <2>4, <2>5, <2>6, <2>7, <2>8, <2>9 DEF RunStep
<1>2. ASSUME NEW u \in updates, UpdateStep(u) PROVE FinalizedOnce'
  <2>1. u \in Finalizations
    BY <1>2 DEF TypeOK
  <2>2. row' = row /\ exec' = exec
    BY <1>2 DEF UpdateStep, FinalizeRead, FinalizeCount, FinalizeWrite
  <2>3. [u EXCEPT !.step = "count"] = [u EXCEPT !.step = "count", !.next = u.next]
        /\ u.next \in Statuses
    BY <2>1 DEF Finalizations
  <2>4. \/ updates' = updates \ {u}
        \/ \E s \in {"read", "count", "write"}, n \in Statuses :
             updates' = (updates \ {u}) \cup {[u EXCEPT !.step = s, !.next = n]}
    <3>1. CASE FinalizeRead(u)
      BY <3>1, <2>3 DEF FinalizeRead, Advance
    <3>2. CASE FinalizeCount(u)
      BY <3>2 DEF FinalizeCount, Advance, Statuses
    <3>3. CASE FinalizeWrite(u)
      BY <3>3 DEF FinalizeWrite
    <3> QED
      BY <1>2, <3>1, <3>2, <3>3 DEF UpdateStep
  <2> QED
    BY <1>2, <2>2, <2>4, OnceKept
<1>3. CASE Api \/ \E c \in calls : CallStep(c)
  BY <1>3, CallsLeaveRuns DEF FinalizedOnce, TypeOK
<1>4. CASE UNCHANGED vars
  BY <1>4 DEF vars, FinalizedOnce
<1>5. CASE Crash
  BY <1>5 DEF Crash, FinalizedOnce
<1> QED
  BY <1>1, <1>2, <1>3, <1>4, <1>5 DEF Next

(* A step that neither ends an execution nor writes a status keeps LooksAgain *)
(* if it takes no finalization away.                                         *)
LEMMA LooksKept ==
    ASSUME TypeOK, LooksAgain, stale' = stale, updates \subseteq updates',
           \A u \in updates' \ updates : u.step # "write",
           Active => Active' \/ updates' \ updates # {},
           agent'.status = "running" => agent.status = "running" \/ Active' \/ updates' # {}
    PROVE  LooksAgain'
<1> SUFFICES ASSUME ~stale PROVE LooksAgain'
  BY DEF LooksAgain
<1>1. agent'.status = "running" => Active' \/ updates' # {}
  BY DEF LooksAgain
<1>2. ASSUME NEW u \in updates', u.step = "write", u.next = "running"
      PROVE  Active' \/ \E v \in updates' : v # u
  <2>1. u \in updates
    BY <1>2
  <2>2. Active \/ \E v \in updates : v # u
    BY <2>1, <1>2 DEF LooksAgain
  <2> QED
    BY <2>1, <2>2
<1> QED
  BY <1>1, <1>2 DEF LooksAgain

(* Whoever shows the agent as running is followed by someone who looks again. *)
LEMMA LooksAgainStep ==
    ASSUME TypeOK, RunsHeld, FinalizedOnce, LooksAgain, [Next]_vars
    PROVE  LooksAgain'
<1>1. ASSUME NEW r \in Runs, RunStep(r) PROVE LooksAgain'
  <2>1. ASSUME \/ Wake(r) \/ Enqueue(r) \/ ClaimUpdate(r)
               \/ ClaimThrows(r) \/ BeginExecution(r)
        PROVE  LooksAgain'
    <3>1. agent' = agent /\ updates' = updates /\ stale' = stale
      BY <2>1 DEF Wake, Enqueue, ClaimUpdate, ClaimThrows, BeginExecution
    <3>2. \A q \in Runs : /\ Executing(q) => Executing(q)'
                          /\ row[q] = "running" => row'[q] = "running"
      <4>1. CASE Wake(r)
        BY <4>1 DEF Wake, Goto, Executing, TypeOK
      <4>2. CASE Enqueue(r)
        <5>1. row[r] = "absent"
          BY <4>2 DEF Enqueue, RunsHeld
        <5> QED
          BY <4>2, <5>1 DEF Enqueue, Goto, Executing, TypeOK
      <4>3. CASE ClaimUpdate(r)
        BY <4>3 DEF ClaimUpdate, Goto, Executing, TypeOK
      <4>4. CASE ClaimThrows(r) \/ BeginExecution(r)
        BY <4>4 DEF ClaimThrows, BeginExecution, Goto, Executing, TypeOK
      <4> QED
        BY <2>1, <4>1, <4>2, <4>3, <4>4
    <3>3. Active => Active'
      BY <3>2 DEF Active
    <3> QED
      BY <3>1, <3>3, LooksKept
  <2>2. ASSUME NEW by \in {"cancel", "reaper"}, NEW bad \in BOOLEAN, row[r] # "over",
               agent' = agent, stale' = stale, exec' = exec, row' = [row EXCEPT ![r] = "over"],
               updates' = updates \cup {Finalization(r, by, bad)}
        PROVE  LooksAgain'
    <3> DEFINE w == Finalization(r, by, bad)
    <3>1. w.run = r /\ w.by = by /\ w.step = "read"
      BY DEF Finalization
    <3> HIDE DEF w
    <3>2. w \in updates' \ updates
      BY <2>2, <3>1 DEF FinalizedOnce, w
    <3>3. updates \subseteq updates' /\ \A u \in updates' \ updates : u.step # "write"
      BY <2>2, <3>1 DEF w
    <3> QED
      BY <2>2, <3>2, <3>3, LooksKept
  <2>5. ASSUME ClaimGate(r) PROVE LooksAgain'
    <3>1. CASE agent.status \in NotInvokable
      <4>1. row[r] # "over" /\ agent' = agent /\ stale' = stale /\ exec' = exec
            /\ row' = [row EXCEPT ![r] = "over"]
            /\ updates' = updates \cup {Finalization(r, "cancel", FALSE)}
        BY <2>5, <3>1 DEF ClaimGate, CancelRun
      <4> QED
        BY <4>1, <2>2
    <3>2. CASE agent.status \notin NotInvokable
      <4>1. agent' = agent /\ stale' = stale /\ row' = row /\ updates' = updates
        BY <2>5, <3>2 DEF ClaimGate
      <4>2. \A q \in Runs : Executing(q) => Executing(q)'
        BY <2>5, <3>2 DEF ClaimGate, Goto, Executing, TypeOK
      <4> QED
        BY <4>1, <4>2, LooksKept DEF Active
    <3> QED
      BY <3>1, <3>2
  <2>6. ASSUME ApiCancel(r) PROVE LooksAgain'
    <3>1. row[r] # "over" /\ agent' = agent /\ stale' = stale /\ exec' = exec
          /\ row' = [row EXCEPT ![r] = "over"]
          /\ updates' = updates \cup {Finalization(r, "cancel", FALSE)}
      BY <2>6 DEF ApiCancel, CancelRun
    <3> QED
      BY <3>1, <2>2
  <2>7. ASSUME Reap(r) PROVE LooksAgain'
    <3>1. row[r] # "over" /\ agent' = agent /\ stale' = stale /\ exec' = exec
          /\ row' = [row EXCEPT ![r] = "over"]
          /\ updates' = updates \cup {Finalization(r, "reaper", TRUE)}
      BY <2>7 DEF Reap
    <3> QED
      BY <3>1, <2>2
  <2>3. ASSUME MarkRunning(r) PROVE LooksAgain'
    <3>1. updates' = updates /\ stale' = stale
      BY <2>3 DEF MarkRunning
    <3>2. Active'
      BY <2>3 DEF MarkRunning, Goto, Active, Executing, TypeOK
    <3> QED
      BY <3>1, <3>2, LooksKept
  <2>4. ASSUME RunEnds(r) PROVE LooksAgain'
    <3>1. PICK bad \in BOOLEAN : updates' = updates \cup {Finalization(r, "executor", bad)}
      BY <2>4 DEF RunEnds
    <3> DEFINE w == Finalization(r, "executor", bad)
    <3>2. w.run = r /\ w.by = "executor" /\ w.step = "read"
      BY DEF Finalization
    <3> HIDE DEF w
    <3>3. agent' = agent /\ stale' = stale /\ exec[r] # "none"
      BY <2>4 DEF RunEnds
    <3>4. w \in updates' \ updates
      BY <3>1, <3>2, <3>3 DEF FinalizedOnce, w
    <3>5. updates \subseteq updates' /\ \A u \in updates' \ updates : u.step # "write"
      BY <3>1, <3>2 DEF w
    <3> QED
      BY <3>3, <3>4, <3>5, LooksKept
  <2> QED
    BY <1>1, <2>1, <2>3, <2>4, <2>5, <2>6, <2>7 DEF RunStep
<1>2. ASSUME NEW u \in updates, UpdateStep(u) PROVE LooksAgain'
  <2> SUFFICES ASSUME ~stale' PROVE LooksAgain'
    BY DEF LooksAgain
  <2>0. ~stale
    BY <1>2 DEF UpdateStep, FinalizeRead, FinalizeCount, FinalizeWrite
  <2>1. Active' <=> Active
    BY <1>2 DEF UpdateStep, FinalizeRead, FinalizeCount, FinalizeWrite, Active, Executing
  <2>2. u \in Finalizations
    BY <1>2 DEF TypeOK
  <2>3. ASSUME updates' = updates \ {u}, ~Overtakes(u) PROVE LooksAgain'
    <3>1. ASSUME NEW v \in updates' PROVE v.step # "write"
      BY <3>1, <2>3 DEF Overtakes
    <3>2. agent'.status = "running" => Active' \/ updates' # {}
      <4>1. CASE FinalizeRead(u)
        <5>1. agent' = agent /\ updates' = updates \ {u}
              /\ (agent.status \in {"paused", "terminated"} \/ [u EXCEPT !.step = "count"] \in updates')
          BY <4>1, <2>3 DEF FinalizeRead, Advance
        <5> QED
          BY <5>1
      <4>2. CASE FinalizeCount(u)
        BY <4>2 DEF FinalizeCount, Advance
      <4>3. CASE FinalizeWrite(u)
        <5>1. agent'.status = u.next /\ u.step = "write"
          BY <4>3 DEF FinalizeWrite, TypeOK
        <5>2. u.next = "running" => Active \/ \E v \in updates : v # u
          BY <5>1, <2>0, <1>2 DEF LooksAgain
        <5> QED
          BY <5>1, <5>2, <2>1, <2>3
      <4> QED
        BY <1>2, <4>1, <4>2, <4>3 DEF UpdateStep
    <3> QED
      BY <3>1, <3>2 DEF LooksAgain
  <2>4. ASSUME NEW s \in {"read", "count", "write"}, NEW n \in Statuses,
               updates' = (updates \ {u}) \cup {[u EXCEPT !.step = s, !.next = n]},
               s = "write" /\ n = "running" => Active, agent' = agent
        PROVE  LooksAgain'
    <3> DEFINE w == [u EXCEPT !.step = s, !.next = n]
    <3>1. w.run = u.run /\ w.by = u.by /\ w.step = s /\ w.next = n
      BY <2>2 DEF Finalizations
    <3>2. w \in updates' /\ \A v \in updates' : v = w \/ v \in updates \ {u}
      BY <2>4
    <3>3. \A v \in updates \ {u} : v \in updates' /\ v # w
      <4> HIDE DEF w
      <4> QED
        BY <2>4, <3>1 DEF FinalizedOnce, w
    <3> HIDE DEF w
    <3>4. ASSUME NEW v \in updates', v.step = "write", v.next = "running"
          PROVE  Active' \/ \E x \in updates' : x # v
      <4>1. CASE v = w
        BY <4>1, <3>4, <3>1, <2>4, <2>1
      <4>2. CASE v # w
        BY <4>2, <3>2
      <4> QED
        BY <4>1, <4>2
    <3>5. agent'.status = "running" => Active' \/ updates' # {}
      BY <3>2
    <3> QED
      BY <3>4, <3>5 DEF LooksAgain
  <2>5. CASE FinalizeRead(u)
    <3>1. CASE agent.status \in {"paused", "terminated"}
      BY <2>5, <3>1, <2>3 DEF FinalizeRead
    <3>2. CASE agent.status \notin {"paused", "terminated"}
      <4>1. updates' = (updates \ {u}) \cup {[u EXCEPT !.step = "count", !.next = u.next]}
            /\ u.next \in Statuses /\ agent' = agent
        BY <2>5, <3>2, <2>2 DEF FinalizeRead, Advance, Finalizations
      <4> QED
        BY <4>1, <2>4
    <3> QED
      BY <3>1, <3>2
  <2>6. CASE FinalizeCount(u)
    <3>1. RunningRuns # {} => Active
      BY DEF RunningRuns, Active
    <3>2. CASE RunningRuns # {}
      <4>1. updates' = (updates \ {u}) \cup {[u EXCEPT !.step = "write", !.next = "running"]}
            /\ agent' = agent
        BY <2>6, <3>2 DEF FinalizeCount, Advance
      <4> QED
        BY <4>1, <3>1, <3>2, <2>4 DEF Statuses
    <3>3. CASE RunningRuns = {}
      <4>1. \E n \in {"error", "idle"} :
              updates' = (updates \ {u}) \cup {[u EXCEPT !.step = "write", !.next = n]}
        BY <2>6, <3>3 DEF FinalizeCount, Advance
      <4>2. agent' = agent
        BY <2>6 DEF FinalizeCount
      <4> QED
        BY <4>1, <4>2, <2>4 DEF Statuses
    <3> QED
      BY <3>2, <3>3
  <2>7. CASE FinalizeWrite(u)
    BY <2>7, <2>3 DEF FinalizeWrite
  <2> QED
    BY <1>2, <2>5, <2>6, <2>7 DEF UpdateStep
<1>3. CASE Api \/ \E c \in calls : CallStep(c)
  <2>1. Active => Active' \/ stale'
    BY <1>3, CallsLeaveRuns DEF Active, Executing
  <2> QED
    BY <1>3, <2>1, CallsLeaveRuns DEF LooksAgain
<1>4. CASE UNCHANGED vars
  BY <1>4 DEF vars, LooksAgain, Active, Executing
<1>5. CASE Crash
  <2> SUFFICES ASSUME ~stale' PROVE LooksAgain'
    BY DEF LooksAgain
  <2>1. ~stale /\ updates = {} /\ agent' = agent /\ row' = row /\ updates' = {}
        /\ \A r \in Runs : Executing(r) => row[r] = "running"
    BY <1>5 DEF Crash, RunningRuns
  <2>2. Active => Active'
    BY <2>1 DEF Active
  <2> QED
    BY <2>1, <2>2 DEF LooksAgain
<1> QED
  BY <1>1, <1>2, <1>3, <1>4, <1>5 DEF Next

(* An agent at rest is not shown as running (IdleAtRest): whoever ends a run *)
(* that may have been counted, but for the four events it names, is followed *)
(* by a finalization, and the last of them sees that none runs.              *)
THEOREM RestsIdle == Spec => []IdleAtRest
<1> DEFINE Inv == RunsHeld /\ FinalizedOnce /\ LooksAgain
<1>1. Init => Inv
  BY DEF Init, RunsHeld, FinalizedOnce, LooksAgain
<1>2. TypeOK /\ Inv /\ [Next]_vars => Inv'
  BY RunsHeldStep, FinalizedOnceStep, LooksAgainStep
<1>3. Inv => IdleAtRest
  BY DEF LooksAgain, Active, Executing, RunningRuns, Settled, IdleAtRest
<1> QED
  BY <1>1, <1>2, <1>3, TypesKept, PTL DEF Spec
=============================================================================
