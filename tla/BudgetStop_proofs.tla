-------------------------- MODULE BudgetStop_proofs --------------------------
(*****************************************************************************)
(* What holds of a budget's hard stop whatever the number of callers, runs   *)
(* and months, and whatever amounts the board asks for.                      *)
(*****************************************************************************)
EXTENDS BudgetStop, TLAPS

(* A call goes on, and ends, well formed.                                    *)
LEMMA GoByTyped ==
    ASSUME call \in [Calls -> CallRecords], NEW c \in Calls,
           NEW step \in Steps, NEW limit \in Nat, GoBy(c, step, limit)
    PROVE  call' \in [Calls -> CallRecords]
<1>1. [call[c] EXCEPT !.step = step, !.limit = limit] \in CallRecords
  BY DEF CallRecords
<1>2. call' = [call EXCEPT ![c] = [call[c] EXCEPT !.step = step, !.limit = limit]]
  BY DEF GoBy, CallRecords
<1> QED
  BY <1>1, <1>2

LEMMA GotoTyped ==
    ASSUME call \in [Calls -> CallRecords], NEW c \in Calls, NEW step \in Steps, Goto(c, step)
    PROVE  call' \in [Calls -> CallRecords]
<1>1. [call[c] EXCEPT !.step = step] \in CallRecords
  BY DEF CallRecords
<1>2. call' = [call EXCEPT ![c] = [call[c] EXCEPT !.step = step]]
  BY DEF Goto, CallRecords
<1> QED
  BY <1>1, <1>2

LEMMA IdleTyped == Idle \in CallRecords
  BY BudgetAssumption DEF Idle, CallRecords, Steps, Months

LEMMA DoneTyped ==
    ASSUME call \in [Calls -> CallRecords], NEW c \in Calls, Done(c)
    PROVE  call' \in [Calls -> CallRecords]
  BY IdleTyped DEF Done

LEMMA WeighedTyped ==
    ASSUME call \in [Calls -> CallRecords], NEW c \in Calls, NEW over \in BOOLEAN,
           Weighed(c, over)
    PROVE  /\ call' \in [Calls -> CallRecords]
           /\ call'[c].step \in {"warn", "find", "none"} /\ call'[c].over = over
           /\ over => call'[c].step # "none"
<1> DEFINE rec == [call[c] EXCEPT !.step = call'[c].step, !.limit = 0, !.over = over]
<1>1. call[c] \in CallRecords
  OBVIOUS
<1>2. /\ call'[c].step \in {"warn", "find", "none"} /\ call'[c].over = over
      /\ over => call'[c].step # "none"
      /\ call' = [call EXCEPT ![c] = rec]
  BY <1>1 DEF Weighed, CallRecords
<1>3. rec \in CallRecords
  BY <1>1, <1>2 DEF CallRecords, Steps
<1> QED
  BY <1>2, <1>3

(* So does a pass through the gates.                                         *)
LEMMA PassTyped ==
    ASSUME gate \in [Runs -> GateRecords], NEW r \in Runs,
           NEW step \in {"none", "scope", "policy", "spend", "pass", "refuse"}, Pass(r, step)
    PROVE  gate' \in [Runs -> GateRecords]
  BY DEF Pass, GateRecords

LEMMA NoGateTyped == NoGate \in GateRecords
  BY DEF NoGate, GateRecords

LEMMA RefuseTyped ==
    ASSUME TypeOK, NEW r \in Runs, Refuse(r)
    PROVE  /\ gate' \in [Runs -> GateRecords]
           /\ row' \in [Runs -> {"absent", "queued", "running", "over"}]
           /\ exec' \in [Runs -> {"none", "begin", "work", "read", "write", "note"}]
  BY NoGateTyped DEF Refuse, Stage, TypeOK

(* A status written over a pause leaves the pause's reason.                  *)
LEMMA StatusTyped ==
    ASSUME TypeOK, StatusWritten
    PROVE  /\ scope' \in [paused : BOOLEAN, reason : {"none", "manual", "budget"}]
           /\ scope'.reason = scope.reason
           /\ amiss' \subseteq {"late", "lifted", "blind", "unseen"}
  BY DEF StatusWritten, TypeOK

(* Every statement keeps the rows and the calls under way to their types.    *)
LEMMA TypeStep ==
    ASSUME TypeOK, [Next]_vars
    PROVE  TypeOK'
<1> USE BudgetAssumption DEF Steps
<1>1. ASSUME NEW c \in Calls, Report(c) PROVE TypeOK'
  <2>1. call' \in [Calls -> CallRecords]
    BY <1>1, GoByTyped DEF Report, Begin, Months, TypeOK
  <2> QED
    BY <1>1, <2>1 DEF Report, Begin, TypeOK
<1>2. ASSUME NEW c \in Calls, ReadPolicy(c) PROVE TypeOK'
  <2>1. call' \in [Calls -> CallRecords]
    BY <1>2, GoByTyped, DoneTyped DEF ReadPolicy, Months, TypeOK
  <2> QED
    BY <1>2, <2>1 DEF ReadPolicy, TypeOK
<1>3. ASSUME NEW c \in Calls, Observe(c) PROVE TypeOK'
  <2>1. Limits(call[c].limit) \in BOOLEAN
    BY DEF Limits
  <2>2. call' \in [Calls -> CallRecords]
    BY <1>3, <2>1, WeighedTyped DEF Observe, TypeOK
  <2> QED
    BY <1>3, <2>2 DEF Observe, TypeOK
<1>4. ASSUME NEW c \in Calls, Find(c) PROVE TypeOK'
  <2> DEFINE rec == [call[c] EXCEPT !.step = call'[c].step, !.window = Window]
  <2>1. Window \in Months
    BY DEF Window, Months, TypeOK
  <2>2. call[c] \in CallRecords
    BY DEF TypeOK
  <2>3. call'[c].step \in {"insert", "pause"} /\ call' = [call EXCEPT ![c] = rec]
    <3>1. PICK step \in {"insert", "pause"} :
            call' = [call EXCEPT ![c] = [call[c] EXCEPT !.step = step, !.window = Window]]
      BY <1>4 DEF Find
    <3>2. call'[c].step = step
      BY <2>2, <3>1 DEF TypeOK, CallRecords
    <3> QED
      BY <3>1, <3>2
  <2>4. rec \in CallRecords
    BY <2>1, <2>2, <2>3 DEF CallRecords
  <2> QED
    BY <1>4, <2>3, <2>4 DEF Find, TypeOK
<1>5. ASSUME NEW c \in Calls, Insert(c) PROVE TypeOK'
  <2>1. call' \in [Calls -> CallRecords]
    BY <1>5, GotoTyped, DoneTyped DEF Insert, Months, TypeOK
  <2> QED
    BY <1>5, <2>1 DEF Insert, TypeOK, CallRecords
<1>6. ASSUME NEW c \in Calls, PauseScope(c) PROVE TypeOK'
  <2>1. call' \in [Calls -> CallRecords]
    BY <1>6, GotoTyped DEF PauseScope, TypeOK
  <2>2. scope' \in [paused : BOOLEAN, reason : {"none", "manual", "budget"}]
    <3>1. scope' = scope \/ scope' = [paused |-> TRUE, reason |-> "budget"]
      BY <1>6 DEF PauseScope
    <3>2. [paused |-> TRUE, reason |-> "budget"] \in [paused : BOOLEAN, reason : {"none", "manual", "budget"}]
      OBVIOUS
    <3> QED
      BY <3>1, <3>2 DEF TypeOK
  <2>3. amiss' \subseteq {"late", "lifted", "blind", "unseen"}
    BY <1>6 DEF PauseScope, TypeOK
  <2> QED
    BY <1>6, <2>1, <2>2, <2>3 DEF PauseScope, TypeOK
<1>7. ASSUME NEW c \in Calls, Sweep(c) PROVE TypeOK'
  <2> DEFINE rec == [call[c] EXCEPT !.step = "cancel", !.found = Cancellable(Runs)]
  <2>3. Cancellable(Runs) \in SUBSET Runs
    BY DEF Cancellable
  <2>4. call[c] \in CallRecords
    BY DEF TypeOK
  <2>1. rec \in CallRecords
    BY <2>3, <2>4 DEF CallRecords
  <2>2. call' = [call EXCEPT ![c] = rec]
    BY <1>7 DEF Sweep, TypeOK, CallRecords
  <2> QED
    BY <1>7, <2>1, <2>2 DEF Sweep, TypeOK
<1>8. ASSUME NEW c \in Calls, CancelFound(c) PROVE TypeOK'
  <2>1. call' \in [Calls -> CallRecords]
    BY <1>8, DoneTyped DEF CancelFound, Cancellable, Months, TypeOK
  <2> QED
    BY <1>8, <2>1 DEF CancelFound, Cancellable, TypeOK
<1>9. ASSUME NEW c \in Calls, Measure(c) PROVE TypeOK'
  <2>1. call' \in [Calls -> CallRecords]
    BY <1>9, GoByTyped, WeighedTyped DEF Measure, Months, TypeOK
  <2> QED
    BY <1>9, <2>1 DEF Measure, TypeOK
<1>10. ASSUME NEW c \in Calls, CheckRaise(c) PROVE TypeOK'
  <2>1. call' \in [Calls -> CallRecords]
    BY <1>10, GotoTyped, DoneTyped DEF CheckRaise, Months, TypeOK
  <2> QED
    BY <1>10, <2>1 DEF CheckRaise, TypeOK
<1>11. ASSUME NEW c \in Calls, WriteRaise(c) PROVE TypeOK'
  <2>1. call' \in [Calls -> CallRecords]
    BY <1>11, GoByTyped DEF WriteRaise, TypeOK
  <2>2. policy' \in [amount : Nat, active : BOOLEAN]
    BY <1>11 DEF WriteRaise, TypeOK, CallRecords
  <2>3. amiss' \subseteq {"late", "lifted", "blind", "unseen"}
    BY <1>11 DEF WriteRaise, TypeOK
  <2> QED
    BY <1>11, <2>1, <2>2, <2>3 DEF WriteRaise, TypeOK
<1>12. ASSUME NEW c \in Calls, Resume(c) PROVE TypeOK'
  <2>1. call' \in [Calls -> CallRecords]
    BY <1>12, GotoTyped DEF Resume, TypeOK
  <2>2. scope' \in [paused : BOOLEAN, reason : {"none", "manual", "budget"}]
    <3>1. scope' = scope \/ scope' = [paused |-> FALSE, reason |-> "none"]
      BY <1>12 DEF Resume
    <3>2. [paused |-> FALSE, reason |-> "none"] \in [paused : BOOLEAN, reason : {"none", "manual", "budget"}]
      OBVIOUS
    <3> QED
      BY <3>1, <3>2 DEF TypeOK
  <2>3. amiss' \subseteq {"late", "lifted", "blind", "unseen"}
    BY <1>12 DEF Resume, TypeOK
  <2> QED
    BY <1>12, <2>1, <2>2, <2>3 DEF Resume, TypeOK
<1>13. ASSUME NEW c \in Calls, ResolveOpen(c) PROVE TypeOK'
  <2>1. call' \in [Calls -> CallRecords]
    BY <1>13, DoneTyped DEF ResolveOpen, Months, TypeOK
  <2> QED
    BY <1>13, <2>1 DEF ResolveOpen, TypeOK
<1>14. ASSUME NEW c \in Calls, NEW amount \in Amounts, NEW active \in BOOLEAN, Upsert(c, amount, active)
       PROVE  TypeOK'
  <2>1. call' \in [Calls -> CallRecords]
    BY <1>14, GoByTyped DEF Upsert, Begin, TypeOK
  <2>2. amount \in Nat /\ (amount > 0 /\ active) \in BOOLEAN
    OBVIOUS
  <2>3. policy' \in [amount : Nat, active : BOOLEAN]
    BY <1>14, <2>2 DEF Upsert
  <2>4. left' \in Nat
    BY <1>14 DEF Upsert, Act, TypeOK
  <2> QED
    BY <1>14, <2>1, <2>3, <2>4 DEF Upsert, TypeOK
<1>15. ASSUME NEW c \in Calls, NEW amount \in Amounts, RaiseAndResume(c, amount) PROVE TypeOK'
  <2>1. call' \in [Calls -> CallRecords]
    BY <1>15, GoByTyped DEF RaiseAndResume, Act, Begin, Months, TypeOK
  <2> QED
    BY <1>15, <2>1 DEF RaiseAndResume, Act, Begin, TypeOK
<1>16. ASSUME NEW c \in Calls, BoardPause(c) PROVE TypeOK'
  <2>1. call' \in [Calls -> CallRecords]
    BY <1>16, GoByTyped DEF BoardPause, Act, Begin, Months, TypeOK
  <2> QED
    BY <1>16, <2>1 DEF BoardPause, Act, Begin, TypeOK
<1>17. ASSUME NEW m \in Months, KeepPaused(m) \/ DismissSoft(m) PROVE TypeOK'
  <2>1. CASE KeepPaused(m)
    BY <2>1 DEF KeepPaused, Act, TypeOK
  <2>2. CASE DismissSoft(m)
    BY <2>2 DEF DismissSoft, Act, TypeOK
  <2> QED
    BY <1>17, <2>1, <2>2
<1>18. ASSUME BoardResume PROVE TypeOK'
  BY <1>18 DEF BoardResume, Act, Months, TypeOK
<1>19. ASSUME NextMonth PROVE TypeOK'
  BY <1>19 DEF NextMonth, Act, Months, TypeOK
<1>20. ASSUME Crash PROVE TypeOK'
  <2>1. call' \in [Calls -> CallRecords]
    BY <1>20, IdleTyped DEF Crash
  <2>2. gate' \in [Runs -> GateRecords]
    BY <1>20, NoGateTyped DEF Crash
  <2> QED
    BY <1>20, <2>1, <2>2 DEF Crash, Act, TypeOK
<1>21. ASSUME NEW r \in Runs, Enter(r) \/ GatePolicy(r) PROVE TypeOK'
  <2>1. gate' \in [Runs -> GateRecords]
    BY <1>21, PassTyped DEF Enter, GatePolicy, GateRecords, TypeOK
  <2>2. UNCHANGED <<kind, policy, scope, spend, month, incident, kept, soft, call, left, amiss,
                    row, exec>>
    BY <1>21 DEF Enter, GatePolicy
  <2> QED
    BY <2>1, <2>2 DEF TypeOK
<1>22. ASSUME NEW r \in Runs, GateScope(r) \/ GateSpend(r) \/ GateRefuse(r) PROVE TypeOK'
  <2>1. UNCHANGED <<kind, policy, scope, spend, month, incident, kept, soft, call, left, amiss>>
    BY <1>22 DEF GateScope, GateSpend, GateRefuse
  <2>2. /\ gate' \in [Runs -> GateRecords]
        /\ row' \in [Runs -> {"absent", "queued", "running", "over"}]
        /\ exec' \in [Runs -> {"none", "begin", "work", "read", "write", "note"}]
    <3>1. CASE Refuse(r)
      BY <3>1, RefuseTyped
    <3>2. CASE ~Refuse(r)
      <4>1. gate' \in [Runs -> GateRecords]
        BY <1>22, <3>2, PassTyped DEF GateScope, GateSpend, GateRefuse, TypeOK
      <4>2. row' = row /\ exec' = exec
        BY <1>22, <3>2 DEF GateScope, GateSpend, GateRefuse
      <4> QED
        BY <4>1, <4>2 DEF TypeOK
    <3> QED
      BY <3>1, <3>2
  <2> QED
    BY <2>1, <2>2 DEF TypeOK
<1>23. ASSUME NEW r \in Runs, Admit(r) PROVE TypeOK'
  BY <1>23, NoGateTyped DEF Admit, Stage, TypeOK
<1>24. ASSUME NEW r \in Runs,
              ReturnQuietly(r) \/ RunEnds(r) \/ FinalizeRead(r) \/ Reap(r) \/ FindDetached(r)
       PROVE  TypeOK'
  <2>1. UNCHANGED <<kind, policy, scope, spend, month, incident, kept, soft, call, gate, left, amiss>>
    BY <1>24 DEF ReturnQuietly, RunEnds, FinalizeRead, Reap, FindDetached, Ends
  <2>2. row' = row \/ row' = [row EXCEPT ![r] = "over"]
    BY <1>24 DEF ReturnQuietly, RunEnds, FinalizeRead, Reap, FindDetached, Ends
  <2>3. \E step \in {"none", "read", "write", "note"} : exec' = [exec EXCEPT ![r] = step]
    BY <1>24 DEF ReturnQuietly, RunEnds, FinalizeRead, Reap, FindDetached, Ends, Stage
  <2> QED
    BY <2>1, <2>2, <2>3 DEF TypeOK
<1>25. ASSUME NEW r \in Runs, MarkRunning(r) \/ FinalizeWrite(r) PROVE TypeOK'
  <2>1. /\ scope' \in [paused : BOOLEAN, reason : {"none", "manual", "budget"}]
        /\ amiss' \subseteq {"late", "lifted", "blind", "unseen"}
    BY <1>25, StatusTyped DEF MarkRunning, FinalizeWrite, TypeOK
  <2> QED
    BY <1>25, <2>1 DEF MarkRunning, FinalizeWrite, Stage, TypeOK
<1>26. ASSUME NEW r \in Runs, NoteDetached(r) PROVE TypeOK'
  BY <1>26 DEF NoteDetached, Stage, TypeOK
<1>27. ASSUME NEW c \in Calls, FindSoft(c) \/ InsertSoft(c) PROVE TypeOK'
  <2>1. CASE call' = [call EXCEPT ![c].step = "notify", ![c].window = Window]
    <3>1. [call[c] EXCEPT !.step = "notify", !.window = Window] \in CallRecords
      <4>1. Window \in Months /\ call[c] \in CallRecords
        BY DEF Window, Months, TypeOK
      <4> QED
        BY <4>1 DEF CallRecords
    <3>2. call' = [call EXCEPT ![c] = [call[c] EXCEPT !.step = "notify", !.window = Window]]
      BY <2>1 DEF TypeOK, CallRecords
    <3>3. call' \in [Calls -> CallRecords]
      BY <3>1, <3>2 DEF TypeOK
    <3> QED
      BY <1>27, <3>3 DEF FindSoft, InsertSoft, TypeOK, CallRecords
  <2>2. CASE AfterSoft(c) \/ Done(c)
    <3>1. call' \in [Calls -> CallRecords]
      BY <2>2, GotoTyped, DoneTyped DEF AfterSoft, TypeOK
    <3> QED
      BY <1>27, <3>1 DEF FindSoft, InsertSoft, TypeOK, CallRecords
  <2> QED
    BY <1>27, <2>1, <2>2 DEF FindSoft, InsertSoft
<1>28. ASSUME NEW paused \in BOOLEAN, BoardPatch(paused) PROVE TypeOK'
  BY <1>28 DEF BoardPatch, Act, TypeOK
<1>29. CASE UNCHANGED vars
  BY <1>29 DEF vars, TypeOK
<1> QED
  BY <1>1, <1>2, <1>3, <1>4, <1>5, <1>6, <1>7, <1>8, <1>9, <1>10, <1>11, <1>12, <1>13, <1>14, <1>15,
     <1>16, <1>17, <1>18, <1>19, <1>20, <1>21, <1>22, <1>23, <1>24, <1>25, <1>26, <1>27, <1>28, <1>29
  DEF Next, CallStep, Board, GateStep, RunStep

(* The rows and the calls under way are well formed in every reachable state. *)
THEOREM TypesKept == Spec => []TypeOK
<1>1. ASSUME Init PROVE TypeOK
  <2>1. call \in [Calls -> CallRecords]
    BY <1>1, IdleTyped DEF Init
  <2>2. gate \in [Runs -> GateRecords]
    BY <1>1, NoGateTyped DEF Init
  <2> QED
    BY <1>1, <2>1, <2>2, BudgetAssumption DEF Init, TypeOK, Months
<1>2. TypeOK /\ [Next]_vars => TypeOK'
  BY TypeStep
<1> QED
  BY <1>1, <1>2, PTL DEF Spec

(* The gates and the runs touch nothing of the budget but its scope.         *)
LEMMA RunsKeep ==
    ASSUME NEW r \in Runs, GateStep(r) \/ RunStep(r)
    PROVE  UNCHANGED <<kind, policy, spend, month, incident, kept, soft, call, left>>
<1>1. CASE GateStep(r)
  BY <1>1 DEF GateStep, Enter, GateScope, GatePolicy, GateSpend, GateRefuse, Admit
<1>2. CASE RunStep(r)
  BY <1>2 DEF RunStep, ReturnQuietly, MarkRunning, RunEnds, Ends, FinalizeRead, FinalizeWrite,
              Reap, FindDetached, NoteDetached
<1> QED
  BY <1>1, <1>2

(* Two of their steps write a status, and one ends what was not to be seen.  *)
LEMMA RunsWrite ==
    ASSUME TypeOK, NEW r \in Runs, GateStep(r) \/ RunStep(r)
    PROVE  \/ scope' = scope /\ amiss' = amiss
           \/ /\ exec[r] \in {"begin", "write"} /\ exec'[r] # exec[r] /\ row' = row /\ gate' = gate
              /\ StatusWritten
           \/ NoteDetached(r)
<1>1. CASE GateStep(r)
  BY <1>1 DEF GateStep, Enter, GateScope, GatePolicy, GateSpend, GateRefuse, Admit
<1>2. CASE ReturnQuietly(r) \/ RunEnds(r) \/ FinalizeRead(r) \/ Reap(r) \/ FindDetached(r)
  BY <1>2 DEF ReturnQuietly, RunEnds, Ends, FinalizeRead, Reap, FindDetached
<1> QED
  BY <1>1, <1>2 DEF RunStep, MarkRunning, FinalizeWrite, Stage, TypeOK

(* An incident is never forgotten: it is open or resolved, or kept.          *)
LEMMA StopStep ==
    ASSUME TypeOK, StopInv, [Next]_vars
    PROVE  StopInv'
<1> USE BudgetAssumption DEF StopInv, PausedWithIncident
<1>1. ASSUME NEW c \in Calls, Report(c) PROVE StopInv'
  BY <1>1 DEF Report, Begin, GoBy, At, Known, Months, Window, CallRecords, TypeOK
<1>2. ASSUME NEW c \in Calls, ReadPolicy(c) PROVE StopInv'
  <2>1. call'[c].step # "pause"
    BY <1>2 DEF ReadPolicy, GoBy, Done, Idle, TypeOK, CallRecords
  <2>2. \A d \in Calls \ {c} : call'[d] = call[d]
    BY <1>2 DEF ReadPolicy, GoBy, Done, TypeOK
  <2> QED
    BY <1>2, <2>1, <2>2 DEF ReadPolicy, At, Known
<1>3. ASSUME NEW c \in Calls, Observe(c) PROVE StopInv'
  <2>1. call'[c].step # "pause"
    BY <1>3 DEF Observe, Weighed, TypeOK, CallRecords
  <2>2. \A d \in Calls \ {c} : call'[d] = call[d]
    BY <1>3 DEF Observe, Weighed, TypeOK
  <2> QED
    BY <1>3, <2>1, <2>2 DEF Observe, At, Known
<1>4. ASSUME NEW c \in Calls, Find(c) PROVE StopInv'
  <2>1. call'[c].step = "pause" => Known
    <3>1. Window \in Months
      BY DEF Window, Months, TypeOK
    <3> QED
      BY <1>4, <3>1 DEF Find, Goto, Known, TypeOK, CallRecords
  <2>2. \A d \in Calls \ {c} : call'[d] = call[d]
    BY <1>4 DEF Find, Goto, TypeOK
  <2> QED
    BY <1>4, <2>1, <2>2 DEF Find, At, Known
<1>5. ASSUME NEW c \in Calls, Insert(c) PROVE StopInv'
  <2>1. call'[c].step = "pause" => Known'
    <3>1. call[c].window \in Months
      BY DEF TypeOK, CallRecords
    <3> QED
      BY <1>5, <3>1 DEF Insert, Done, Idle, Known, TypeOK, CallRecords
  <2>2. \A d \in Calls \ {c} : call'[d] = call[d]
    BY <1>5 DEF Insert, Goto, Done, TypeOK
  <2>3. Known => Known'
    <3>1. call[c].window \in Months
      BY DEF TypeOK, CallRecords
    <3> QED
      BY <1>5, <3>1 DEF Insert, Known, TypeOK
  <2> QED
    BY <1>5, <2>1, <2>2, <2>3 DEF Insert, At
<1>6. ASSUME NEW c \in Calls, PauseScope(c) PROVE StopInv'
  BY <1>6 DEF PauseScope, Goto, At, Known, Months, Window, CallRecords, TypeOK
<1>7. ASSUME NEW c \in Calls, Sweep(c) PROVE StopInv'
  BY <1>7 DEF Sweep, Cancellable, At, Known, Months, Window, CallRecords, TypeOK
<1>8. ASSUME NEW c \in Calls, CancelFound(c) PROVE StopInv'
  BY <1>8 DEF CancelFound, Cancellable, Done, Idle, At, Known, Months, Window, CallRecords, TypeOK
<1>9. ASSUME NEW c \in Calls, Measure(c) PROVE StopInv'
  <2>1. call'[c].step # "pause"
    BY <1>9 DEF Measure, Weighed, GoBy, TypeOK, CallRecords
  <2>2. \A d \in Calls \ {c} : call'[d] = call[d]
    BY <1>9 DEF Measure, Weighed, GoBy, TypeOK
  <2> QED
    BY <1>9, <2>1, <2>2 DEF Measure, At, Known
<1>10. ASSUME NEW c \in Calls, CheckRaise(c) PROVE StopInv'
  <2>1. call'[c].step # "pause"
    BY <1>10 DEF CheckRaise, Goto, Done, Idle, TypeOK, CallRecords
  <2>2. \A d \in Calls \ {c} : call'[d] = call[d]
    BY <1>10 DEF CheckRaise, Goto, Done, TypeOK
  <2> QED
    BY <1>10, <2>1, <2>2 DEF CheckRaise, At, Known
<1>11. ASSUME NEW c \in Calls, WriteRaise(c) PROVE StopInv'
  BY <1>11 DEF WriteRaise, GoBy, At, Known, Months, Window, CallRecords, TypeOK
<1>12. ASSUME NEW c \in Calls, Resume(c) PROVE StopInv'
  BY <1>12 DEF Resume, Goto, At, Known, Months, Window, CallRecords, TypeOK
<1>13. ASSUME NEW c \in Calls, ResolveOpen(c) PROVE StopInv'
  BY <1>13 DEF ResolveOpen, Done, Idle, At, Known, Months, Window, CallRecords, TypeOK
<1>14. ASSUME NEW c \in Calls, NEW amount \in Amounts, NEW active \in BOOLEAN, Upsert(c, amount, active)
       PROVE  StopInv'
  BY <1>14 DEF Upsert, Act, Begin, GoBy, At, Known, Months, Window, CallRecords, TypeOK
<1>15. ASSUME NEW c \in Calls, NEW amount \in Amounts, RaiseAndResume(c, amount) PROVE StopInv'
  BY <1>15 DEF RaiseAndResume, Act, Begin, GoBy, At, Known, Months, Window, CallRecords, TypeOK
<1>16. ASSUME NEW c \in Calls, BoardPause(c) PROVE StopInv'
  <2>1. call'[c].step = "pause" => call[c].step = "pause"
    BY <1>16 DEF BoardPause, Begin, GoBy, TypeOK, CallRecords
  <2>2. \A d \in Calls \ {c} : call'[d] = call[d]
    BY <1>16 DEF BoardPause, Begin, GoBy, TypeOK
  <2>3. kept' = kept /\ incident' = incident /\ kind' = kind
    BY <1>16 DEF BoardPause
  <2>4. scope'.reason = "budget" => scope.reason = "budget"
    BY <1>16 DEF BoardPause, TypeOK
  <2> QED
    BY <2>1, <2>2, <2>3, <2>4 DEF At, Known
<1>17. ASSUME NEW m \in Months, KeepPaused(m) \/ DismissSoft(m) PROVE StopInv'
  BY <1>17 DEF KeepPaused, DismissSoft, At, Known, Months, TypeOK
<1>18. ASSUME BoardResume PROVE StopInv'
  BY <1>18 DEF BoardResume, At, Known
<1>19. ASSUME NextMonth PROVE StopInv'
  BY <1>19 DEF NextMonth, At, Known
<1>20. ASSUME Crash PROVE StopInv'
  BY <1>20 DEF Crash, Idle, At, Known
<1>21. ASSUME NEW r \in Runs, GateStep(r) \/ RunStep(r) PROVE StopInv'
  <2>1. scope'.reason = scope.reason
    BY <1>21, RunsWrite, StatusTyped DEF NoteDetached
  <2> QED
    BY <1>21, <2>1, RunsKeep DEF At, Known
<1>22. ASSUME NEW c \in Calls, FindSoft(c) \/ InsertSoft(c) PROVE StopInv'
  <2>1. call'[c].step # "pause"
    BY <1>22 DEF FindSoft, InsertSoft, AfterSoft, Goto, Done, Idle, TypeOK, CallRecords
  <2>2. \A d \in Calls \ {c} : call'[d] = call[d]
    BY <1>22 DEF FindSoft, InsertSoft, AfterSoft, Goto, Done, TypeOK
  <2> QED
    BY <1>22, <2>1, <2>2 DEF FindSoft, InsertSoft, At, Known
<1>23. ASSUME NEW paused \in BOOLEAN, BoardPatch(paused) PROVE StopInv'
  BY <1>23 DEF BoardPatch, At, Known, TypeOK
<1>24. CASE UNCHANGED vars
  BY <1>24 DEF vars, At, Known
<1> QED
  BY <1>1, <1>2, <1>3, <1>4, <1>5, <1>6, <1>7, <1>8, <1>9, <1>10, <1>11, <1>12, <1>13, <1>14, <1>15,
     <1>16, <1>17, <1>18, <1>19, <1>20, <1>21, <1>22, <1>23, <1>24
  DEF Next, CallStep, Board

LEMMA StopInvariant == Spec => [](TypeOK /\ StopInv)
<1>1. Init => StopInv
  BY DEF Init, StopInv, PausedWithIncident, At, Idle
<1>2. TypeOK /\ StopInv /\ [Next]_vars => StopInv'
  BY StopStep
<1> QED
  BY <1>1, <1>2, TypesKept, PTL DEF Spec

(* A scope is never paused for its budget without an incident of which the   *)
(* board has disposed or may dispose (PausedWithIncident).                   *)
THEOREM PauseHasIncident == Spec => []PausedWithIncident
<1>1. StopInv => PausedWithIncident
  BY DEF StopInv
<1> QED
  BY <1>1, StopInvariant, PTL

(* The amount, the spend and what is left undone change in few places.       *)
LEMMA PolicyMoves ==
    ASSUME Next
    PROVE  \/ policy' = policy /\ spend' = spend
           \/ \E c \in Calls : Report(c) \/ WriteRaise(c)
           \/ \E c \in Calls, amount \in Amounts, active \in BOOLEAN : Upsert(c, amount, active)
           \/ NextMonth
<1> DEFINE Same == policy' = policy /\ spend' = spend
<1>1. ASSUME NEW c \in Calls, CallStep(c), ~WriteRaise(c) PROVE Same
  BY <1>1 DEF CallStep, ReadPolicy, Observe, FindSoft, InsertSoft, Find, Insert, PauseScope,
              Sweep, CancelFound, Measure, CheckRaise, Resume, ResolveOpen
<1>2. ASSUME NEW c \in Calls, BoardPause(c) \/ \E amount \in Amounts : RaiseAndResume(c, amount)
      PROVE  Same
  BY <1>2 DEF BoardPause, RaiseAndResume
<1>3. ASSUME NEW m \in Months, KeepPaused(m) \/ DismissSoft(m) PROVE Same
  BY <1>3 DEF KeepPaused, DismissSoft
<1>4. ASSUME BoardResume \/ Crash \/ \E paused \in BOOLEAN : BoardPatch(paused) PROVE Same
  BY <1>4 DEF BoardResume, Crash, BoardPatch
<1>5. ASSUME NEW r \in Runs, GateStep(r) \/ RunStep(r) PROVE Same
  BY <1>5, RunsKeep
<1> QED
  BY <1>1, <1>2, <1>3, <1>4, <1>5 DEF Next, Board

(* So do the scope's row and what is amiss.                                  *)
LEMMA ScopeMoves ==
    ASSUME Next
    PROVE  \/ scope' = scope /\ amiss' = amiss
           \/ \E c \in Calls : \/ PauseScope(c) \/ WriteRaise(c) \/ Resume(c) \/ BoardPause(c)
                               \/ InsertSoft(c)
           \/ \E paused \in BOOLEAN : BoardPatch(paused)
           \/ \E r \in Runs : GateStep(r) \/ RunStep(r)
           \/ BoardResume \/ NextMonth \/ Crash
<1> DEFINE Same == scope' = scope /\ amiss' = amiss
<1>1. ASSUME NEW c \in Calls, CallStep(c), ~PauseScope(c), ~WriteRaise(c), ~Resume(c),
             ~InsertSoft(c)
      PROVE  Same
  BY <1>1 DEF CallStep, ReadPolicy, Observe, FindSoft, Find, Insert, Sweep, CancelFound,
              Measure, CheckRaise, ResolveOpen
<1>2. ASSUME NEW c \in Calls, Report(c) PROVE Same
  BY <1>2 DEF Report
<1>3. ASSUME NEW c \in Calls, NEW amount \in Amounts,
             RaiseAndResume(c, amount) \/ \E active \in BOOLEAN : Upsert(c, amount, active)
      PROVE  Same
  BY <1>3 DEF RaiseAndResume, Upsert
<1>4. ASSUME NEW m \in Months, KeepPaused(m) \/ DismissSoft(m) PROVE Same
  BY <1>4 DEF KeepPaused, DismissSoft
<1> QED
  BY <1>1, <1>2, <1>3, <1>4 DEF Next, Board

(* What the board paused by hand no raise, upsert or evaluation resumes      *)
(* (ManualPauseKept).                                                        *)
LEMMA ManualStep ==
    ASSUME TypeOK, Next, kind = "agent", scope.reason = "manual", scope.paused, ~scope'.paused
    PROVE  \/ left' # left /\ call' = call
           \/ \E r \in Runs : exec[r] # exec'[r] /\ exec[r] \in {"begin", "write"}
<1> DEFINE ByBoard == left' # left /\ call' = call
           ByRun == \E r \in Runs : exec[r] # exec'[r] /\ exec[r] \in {"begin", "write"}
<1>1. ASSUME NEW c \in Calls, PauseScope(c) \/ WriteRaise(c) \/ Resume(c) \/ InsertSoft(c)
      PROVE  FALSE
  BY <1>1 DEF PauseScope, WriteRaise, Resume, InsertSoft
<1>2. ASSUME NEW c \in Calls, BoardPause(c) PROVE FALSE
  BY <1>2 DEF BoardPause
<1>3. ASSUME BoardResume \/ \E paused \in BOOLEAN : BoardPatch(paused) PROVE ByBoard
  BY <1>3 DEF BoardResume, BoardPatch, Act, TypeOK
<1>4. ASSUME NextMonth \/ Crash PROVE FALSE
  BY <1>4 DEF NextMonth, Crash
<1>5. ASSUME NEW r \in Runs, GateStep(r) \/ RunStep(r) PROVE ByRun
  BY <1>5, RunsWrite DEF NoteDetached
<1> QED
  BY <1>1, <1>2, <1>3, <1>4, <1>5, ScopeMoves

(* Only the board, and a run that was on its way, lifts the board's pause of *)
(* an agent (ManualPauseKept).                                               *)
THEOREM ManualPausesKept == Spec => ManualPauseKept
<1>1. TypeOK /\ Next /\ kind = "agent" /\ scope.reason = "manual" /\ scope.paused /\ ~scope'.paused
        => \/ left' # left /\ call' = call
           \/ \E r \in Runs : exec[r] # exec'[r] /\ exec[r] \in {"begin", "write"}
  BY ManualStep
<1>2. UNCHANGED vars => scope' = scope
  BY DEF vars
<1> QED
  BY <1>1, <1>2, TypesKept, PTL DEF Spec, ManualPauseKept

(* Only a pause makes good what has gone amiss, but for one that was late.   *)
LEMMA AmissStays ==
    ASSUME TypeOK, Next, \A c \in Calls : ~PauseScope(c)
    PROVE  amiss \ {"late"} \subseteq amiss'
<1>1. ASSUME NEW c \in Calls, WriteRaise(c) \/ Resume(c) \/ BoardPause(c) \/ InsertSoft(c)
      PROVE  amiss \ {"late"} \subseteq amiss'
  BY <1>1 DEF WriteRaise, Resume, BoardPause, InsertSoft
<1>2. ASSUME \E paused \in BOOLEAN : BoardPatch(paused) PROVE amiss \ {"late"} \subseteq amiss'
  BY <1>2 DEF BoardPatch
<1>3. ASSUME BoardResume \/ NextMonth \/ Crash PROVE amiss \ {"late"} \subseteq amiss'
  BY <1>3 DEF BoardResume, NextMonth, Crash
<1>4. ASSUME NEW r \in Runs, GateStep(r) \/ RunStep(r) PROVE amiss \ {"late"} \subseteq amiss'
  BY <1>4, RunsWrite DEF StatusWritten, NoteDetached
<1> QED
  BY <1>1, <1>2, <1>3, <1>4, ScopeMoves

(* A crash that cuts nothing short changes no call.                          *)
LEMMA CrashSeen ==
    ASSUME Crash, "unseen" \notin amiss' \/ "late" \notin amiss'
    PROVE  /\ amiss' = amiss /\ scope' = scope
           /\ call' = call /\ \A c \in Calls : call[c] = Idle
  BY DEF Crash

(* A call leaves the others where they are.                                  *)
LEMMA OneCall ==
    ASSUME TypeOK, NEW c \in Calls, Report(c) \/ CallStep(c) \/ Board(c), NEW d \in Calls, d # c
    PROVE  call'[d] = call[d]
<1> USE DEF TypeOK
<1>1. CASE Report(c)
  BY <1>1 DEF Report, Begin, GoBy
<1>2. ASSUME NEW amount \in Amounts,
             RaiseAndResume(c, amount) \/ \E active \in BOOLEAN : Upsert(c, amount, active)
      PROVE  call'[d] = call[d]
  BY <1>2 DEF RaiseAndResume, Upsert, Begin, GoBy
<1>3. CASE BoardPause(c)
  BY <1>3 DEF BoardPause, Begin, GoBy
<1>4. CASE ReadPolicy(c) \/ Observe(c) \/ Measure(c) \/ WriteRaise(c)
  BY <1>4 DEF ReadPolicy, Observe, Measure, WriteRaise, Weighed, GoBy, Done
<1>5. CASE Find(c) \/ Sweep(c)
  BY <1>5 DEF Find, Sweep
<1>6. CASE Insert(c) \/ PauseScope(c) \/ CheckRaise(c) \/ Resume(c)
  BY <1>6 DEF Insert, PauseScope, CheckRaise, Resume, Goto, Done
<1>7. CASE CancelFound(c) \/ ResolveOpen(c)
  BY <1>7 DEF CancelFound, ResolveOpen, Done
<1>8. CASE FindSoft(c) \/ InsertSoft(c)
  BY <1>8 DEF FindSoft, InsertSoft, AfterSoft, Goto, Done
<1> QED
  BY <1>1, <1>2, <1>3, <1>4, <1>5, <1>6, <1>7, <1>8 DEF CallStep, Board

(* A call that is bound to pause goes on until it does.                      *)
LEMMA StopsAct ==
    ASSUME TypeOK, Exceeded, NEW c \in Calls, Stops(c), CallStep(c)
    PROVE  Stops(c)' \/ PauseScope(c) \/ "unseen" \in amiss'
<1> USE DEF Stops, At, Limits
<1>0. call[c] \in CallRecords /\ call \in [Calls -> CallRecords] /\ policy.amount \in Nat /\ spend \in Nat
  BY DEF TypeOK
<1>1. CASE ReadPolicy(c)
  BY <1>1, <1>0 DEF ReadPolicy, GoBy, Exceeded, CallRecords
<1>2. CASE Observe(c)
  BY <1>2, <1>0, WeighedTyped DEF Observe
<1>3. CASE Find(c)
  BY <1>3, <1>0 DEF Find, CallRecords
<1>4. CASE Insert(c)
  BY <1>4, <1>0 DEF Insert, Goto, CallRecords
<1>5. CASE Measure(c)
  BY <1>5, <1>0, WeighedTyped DEF Measure
<1>6. CASE Sweep(c) \/ CancelFound(c) \/ CheckRaise(c) \/ WriteRaise(c) \/ Resume(c) \/ ResolveOpen(c)
  BY <1>6 DEF Sweep, CancelFound, CheckRaise, WriteRaise, Resume, ResolveOpen
<1>7. CASE FindSoft(c)
  BY <1>7, <1>0 DEF FindSoft, AfterSoft, Goto, CallRecords
<1>8. CASE InsertSoft(c)
  BY <1>8, <1>0 DEF InsertSoft, AfterSoft, Goto, CallRecords
<1> QED
  BY <1>1, <1>2, <1>3, <1>4, <1>5, <1>6, <1>7, <1>8 DEF CallStep

(* And does not mind what others do: the spend only grows, and an incident   *)
(* it was to insert is missing still.                                        *)
LEMMA StopsStay ==
    ASSUME TypeOK, NEW d \in Calls, Stops(d), call'[d] = call[d], spend' \in Nat, spend' >= spend,
           \A m \in Months : incident[m] = "none" => incident'[m] = "none"
    PROVE  Stops(d)'
<1>1. call[d].limit \in Nat /\ call[d].window \in Months /\ spend \in Nat
  BY DEF TypeOK, CallRecords
<1>2. Limits(call[d].limit) => Limits(call[d].limit)'
  BY <1>1 DEF Limits
<1> QED
  BY <1>1, <1>2 DEF Stops, At

(* While the budget is exceeded somebody goes on towards the pause.          *)
LEMMA StopsCarry ==
    ASSUME TypeOK, Exceeded, Exceeded', Next, "unseen" \notin amiss', NEW d \in Calls, Stops(d)
    PROVE  PauseScope(d) \/ \E e \in Calls : Stops(e)'
<1>0. spend \in Nat
  BY DEF TypeOK
<1>1. ASSUME NEW c \in Calls, Report(c) \/ CallStep(c) \/ Board(c)
      PROVE  PauseScope(d) \/ \E e \in Calls : Stops(e)'
  <2>1. spend' \in Nat /\ spend' >= spend
    <3>1. CASE Report(c)
      BY <3>1, <1>0 DEF Report
    <3>2. CASE CallStep(c)
      <4>1. spend' = spend
        BY <3>2
        DEF CallStep, ReadPolicy, Observe, FindSoft, InsertSoft, Find, Insert, PauseScope, Sweep,
            CancelFound, Measure, CheckRaise, WriteRaise, Resume, ResolveOpen
      <4> QED
        BY <4>1, <1>0
    <3>3. CASE Board(c)
      BY <3>3, <1>0 DEF Board, Upsert, RaiseAndResume, BoardPause
    <3> QED
      BY <1>1, <3>1, <3>2, <3>3
  <2>2. CASE Insert(c) /\ incident[call[c].window] = "none"
    <3>1. call'[c].step = "pause"
      BY <2>2 DEF Insert, Goto, TypeOK, CallRecords
    <3> QED
      BY <3>1 DEF Stops, At
  <2>3. CASE ~(Insert(c) /\ incident[call[c].window] = "none")
    <3>1. \A m \in Months : incident[m] = "none" => incident'[m] = "none"
      <4>1. CASE Report(c)
        BY <4>1 DEF Report
      <4>2. CASE CallStep(c)
        <5>1. CASE ResolveOpen(c)
          BY <5>1 DEF ResolveOpen, TypeOK
        <5>2. CASE ~ResolveOpen(c)
          BY <4>2, <5>2, <2>3
          DEF CallStep, ReadPolicy, Observe, FindSoft, InsertSoft, Find, Insert, PauseScope, Sweep,
              CancelFound, Measure, CheckRaise, WriteRaise, Resume
        <5> QED
          BY <5>1, <5>2
      <4>3. CASE Board(c)
        BY <4>3 DEF Board, Upsert, RaiseAndResume, BoardPause
      <4> QED
        BY <1>1, <4>1, <4>2, <4>3
    <3>2. CASE call'[d] = call[d]
      BY <2>1, <3>1, <3>2, StopsStay
    <3>3. CASE d = c /\ CallStep(c)
      BY <3>3, StopsAct
    <3>4. CASE d = c /\ call[c] = Idle
      BY <3>4 DEF Stops, At, Idle
    <3>5. Report(c) \/ Board(c) => call[c] = Idle \/ call' = call
      BY DEF Report, Board, Upsert, RaiseAndResume, BoardPause, Begin
    <3> QED
      BY <1>1, <3>2, <3>3, <3>4, <3>5, OneCall
  <2> QED
    BY <2>2, <2>3
<1>2. ASSUME NEW m \in Months, KeepPaused(m) \/ DismissSoft(m) PROVE Stops(d)'
  <2>1. call' = call /\ spend' = spend
    BY <1>2 DEF KeepPaused, DismissSoft
  <2>2. \A n \in Months : incident[n] = "none" => incident'[n] = "none"
    BY <1>2 DEF KeepPaused, DismissSoft, TypeOK
  <2> QED
    BY <2>1, <2>2, <1>0, StopsStay
<1>3. ASSUME BoardResume \/ \E paused \in BOOLEAN : BoardPatch(paused) PROVE Stops(d)'
  <2>1. call' = call /\ incident' = incident /\ spend' = spend
    BY <1>3 DEF BoardResume, BoardPatch
  <2> QED
    BY <2>1, <1>0, StopsStay
<1>4. ASSUME NextMonth PROVE Stops(d)'
  <2>1. call' = call /\ incident' = incident /\ policy' = policy
    BY <1>4 DEF NextMonth
  <2>2. spend' = spend \/ spend' = 0
    BY <1>4 DEF NextMonth
  <2>3. spend' = spend
    BY <2>1, <2>2, <1>0 DEF Exceeded, Limits, TypeOK
  <2> QED
    BY <2>1, <2>3, <1>0, StopsStay
<1>5. ASSUME NEW r \in Runs, GateStep(r) \/ RunStep(r) PROVE Stops(d)'
  <2>1. call' = call /\ incident' = incident /\ spend' = spend
    BY <1>5, RunsKeep
  <2> QED
    BY <2>1, <1>0, StopsStay
<1>6. ASSUME Crash PROVE FALSE
  <2>1. call[d] = Idle
    BY <1>6, CrashSeen
  <2> QED
    BY <2>1 DEF Stops, At, Idle
<1> QED
  BY <1>1, <1>2, <1>3, <1>4, <1>5, <1>6 DEF Next

(* An overrun begins with a cost event or a lower limit, and with a call that *)
(* looks at it; or with a raise that was checked too early.                  *)
LEMMA OverrunBegins ==
    ASSUME TypeOK, ~Exceeded, Exceeded', Next
    PROVE  "blind" \in amiss' \/ \E c \in Calls : Stops(c)'
<1>1. CASE policy' = policy /\ spend' = spend
  BY <1>1 DEF Exceeded, Limits
<1>2. ASSUME NEW c \in Calls, Report(c) PROVE Stops(c)'
  <2>1. call'[c].step = "policy"
    BY <1>2 DEF Report, Begin, GoBy, TypeOK, CallRecords
  <2> QED
    BY <2>1 DEF Stops, At
<1>3. ASSUME NEW c \in Calls, WriteRaise(c) PROVE "blind" \in amiss'
  <2>1. policy'.amount = call[c].limit /\ spend' = spend
    BY <1>3 DEF WriteRaise
  <2>2. Limits(call[c].limit)
    BY <2>1 DEF Exceeded, Limits
  <2> QED
    BY <1>3, <2>2 DEF WriteRaise
<1>4. ASSUME NEW c \in Calls, NEW amount \in Amounts, NEW active \in BOOLEAN,
             Upsert(c, amount, active)
      PROVE  Stops(c)'
  <2>1. policy'.amount = amount /\ spend' = spend
    BY <1>4 DEF Upsert
  <2>2. amount > 0 /\ spend' >= amount
    BY <2>1 DEF Exceeded, Limits
  <2>3. call'[c].step = "measure" /\ call'[c].limit = amount
    BY <1>4, <2>2 DEF Upsert, Begin, GoBy, TypeOK, CallRecords
  <2> QED
    BY <2>2, <2>3 DEF Stops, Limits
<1>5. CASE NextMonth
  <2>1. policy' = policy /\ (spend' = spend \/ spend' = 0)
    BY <1>5 DEF NextMonth
  <2> QED
    BY <2>1 DEF Exceeded, Limits, TypeOK
<1> QED
  BY <1>1, <1>2, <1>3, <1>4, <1>5, PolicyMoves

(* An overrun whose scope is not paused yet has a call that will pause it.   *)
LEMMA OverrunStep ==
    ASSUME TypeOK, OverrunIsMet, [Next]_vars
    PROVE  OverrunIsMet'
<1>1. CASE UNCHANGED vars
  <2>1. Exceeded' = Exceeded /\ amiss' = amiss /\ scope' = scope
    BY <1>1 DEF vars, Exceeded, Limits
  <2>2. \A c \in Calls : Stops(c) => Stops(c)'
    BY <1>1 DEF vars, Stops, At, Limits
  <2> QED
    BY <2>1, <2>2 DEF OverrunIsMet
<1>2. CASE Next
  <2> SUFFICES ASSUME Exceeded', amiss' \cap {"lifted", "blind", "unseen"} = {}
               PROVE  scope'.paused \/ \E c \in Calls : Stops(c)'
    BY DEF OverrunIsMet
  <2>1. CASE ~Exceeded
    BY <2>1, <1>2, OverrunBegins
  <2>2. ASSUME NEW c \in Calls, PauseScope(c) PROVE scope'.paused
    BY <2>2 DEF PauseScope
  <2>3. ASSUME Exceeded, \A c \in Calls : ~PauseScope(c)
        PROVE  scope'.paused \/ \E c \in Calls : Stops(c)'
    <3>1. amiss \cap {"lifted", "blind", "unseen"} = {}
      BY <1>2, <2>3, AmissStays
    <3>2. CASE scope.paused
      <4>1. ASSUME NEW c \in Calls, WriteRaise(c) \/ Resume(c) \/ BoardPause(c) \/ InsertSoft(c)
            PROVE  scope'.paused
        BY <4>1, <3>2, <2>3 DEF WriteRaise, Resume, BoardPause, InsertSoft
      <4>2. ASSUME NEW paused \in BOOLEAN, BoardPatch(paused) PROVE scope'.paused
        BY <4>2 DEF BoardPatch, TypeOK
      <4>3. ASSUME NEW r \in Runs, GateStep(r) \/ RunStep(r) PROVE scope' = scope
        BY <4>3, <2>3, RunsWrite DEF StatusWritten, NoteDetached
      <4>4. ASSUME BoardResume \/ NextMonth \/ Crash PROVE scope' = scope
        BY <4>4 DEF BoardResume, NextMonth, Crash
      <4> QED
        BY <1>2, <2>3, <3>2, <4>1, <4>2, <4>3, <4>4, ScopeMoves
    <3>3. ASSUME NEW d \in Calls, Stops(d) PROVE \E c \in Calls : Stops(c)'
      BY <3>3, <2>3, <1>2, StopsCarry
    <3> QED
      BY <2>3, <3>1, <3>2, <3>3 DEF OverrunIsMet
  <2> QED
    BY <2>1, <2>2, <2>3
<1> QED
  BY <1>1, <1>2

(* An exceeded budget has stopped its scope when nothing is under way,       *)
(* unless somebody lifted the pause, raised the limit blindly, or the        *)
(* evaluation ended before its pause (OverrunStops).                         *)
THEOREM OverrunsAreStopped == Spec => []OverrunStops
<1>1. Init => OverrunIsMet
  BY BudgetAssumption DEF Init, OverrunIsMet, Exceeded, Limits
<1>2. TypeOK /\ OverrunIsMet /\ [Next]_vars => OverrunIsMet'
  BY OverrunStep
<1>3. OverrunIsMet => OverrunStops
  BY DEF OverrunIsMet, OverrunStops, Settled, Stops, At, Idle
<1> QED
  BY <1>1, <1>2, <1>3, TypesKept, PTL DEF Spec


(* Only the calls, the board and a crash touch what is under way; the runs   *)
(* and the calendar do not.                                                  *)
LEMMA CallMoves ==
    ASSUME Next
    PROVE  call' = call \/ Crash \/ \E c \in Calls : Report(c) \/ CallStep(c) \/ Board(c)
<1>1. ASSUME NEW r \in Runs, GateStep(r) \/ RunStep(r) PROVE call' = call
  BY <1>1, RunsKeep
<1> QED
  BY <1>1 DEF Next, KeepPaused, DismissSoft, BoardResume, BoardPatch, NextMonth

(* While the budget stays exceeded no run slips past the gate.               *)
LEMMA HotBefore ==
    ASSUME TypeOK, Exceeded, Exceeded', Next, "unseen" \notin amiss', NEW r \in Runs, Hot(r)'
    PROVE  Hot(r)
<1>0. spend \in Nat /\ gate[r].limit \in Nat /\ policy.amount \in Nat
  BY DEF TypeOK, GateRecords
<1>1. ASSUME gate'[r] = gate[r], row'[r] = row[r] \/ row'[r] = "over", kind' = kind,
             spend' \in Nat, spend' >= spend
      PROVE  Hot(r)
  BY <1>0, <1>1 DEF Hot, PastTheSpend, Limits
<1>2. ASSUME NEW c \in Calls, Report(c) \/ CallStep(c) \/ Board(c) PROVE Hot(r)
  <2>1. CASE Report(c)
    BY <2>1, <1>0, <1>1 DEF Report
  <2>2. CASE CancelFound(c)
    <3>1. row'[r] = row[r] \/ row'[r] = "over"
      BY <2>2 DEF CancelFound
    <3> QED
      BY <2>2, <3>1, <1>0, <1>1 DEF CancelFound
  <2>3. CASE CallStep(c) /\ ~CancelFound(c)
    <3>1. gate' = gate /\ row' = row /\ kind' = kind /\ spend' = spend
      BY <2>3 DEF CallStep, ReadPolicy, Observe, FindSoft, InsertSoft, Find, Insert, PauseScope, Sweep,
              Measure, CheckRaise, WriteRaise, Resume, ResolveOpen
    <3> QED
      BY <3>1, <1>0, <1>1
  <2>4. CASE Board(c)
    <3>1. gate' = gate /\ row' = row /\ kind' = kind /\ spend' = spend
      BY <2>4 DEF Board, Upsert, RaiseAndResume, BoardPause
    <3> QED
      BY <3>1, <1>0, <1>1
  <2> QED
    BY <1>2, <2>1, <2>2, <2>3, <2>4
<1>3. ASSUME NEW m \in Months, KeepPaused(m) \/ DismissSoft(m) PROVE Hot(r)
  <2>1. gate' = gate /\ row' = row /\ kind' = kind /\ spend' = spend
    BY <1>3 DEF KeepPaused, DismissSoft
  <2> QED
    BY <2>1, <1>0, <1>1
<1>4. ASSUME BoardResume \/ \E paused \in BOOLEAN : BoardPatch(paused) PROVE Hot(r)
  <2>1. gate' = gate /\ row' = row /\ kind' = kind /\ spend' = spend
    BY <1>4 DEF BoardResume, BoardPatch
  <2> QED
    BY <2>1, <1>0, <1>1
<1>5. ASSUME NextMonth PROVE Hot(r)
  <2>1. gate' = gate /\ row' = row /\ kind' = kind /\ policy' = policy
        /\ (spend' = spend \/ spend' = 0)
    BY <1>5 DEF NextMonth
  <2>2. spend' = spend
    BY <2>1, <1>0 DEF Exceeded, Limits
  <2> QED
    BY <2>1, <2>2, <1>0, <1>1
<1>6. ASSUME Crash PROVE Hot(r)
  <2>1. gate'[r].step = "none" /\ row' = row
    BY <1>6 DEF Crash, NoGate
  <2> QED
    BY <2>1 DEF Hot, PastTheSpend
<1>7. ASSUME NEW q \in Runs, GateStep(q) \/ RunStep(q) PROVE Hot(r)
  <2>0. kind' = kind /\ spend' = spend
    BY <1>7, RunsKeep
  <2>1. CASE q # r
    <3>1. CASE GateStep(q)
      BY <2>0, <2>1, <3>1, <1>0, <1>1
      DEF GateStep, Enter, GateScope, GatePolicy, GateSpend, GateRefuse, Admit, Pass, Refuse, TypeOK
    <3>2. CASE RunStep(q)
      BY <2>0, <2>1, <3>2, <1>0, <1>1
      DEF RunStep, ReturnQuietly, MarkRunning, RunEnds, Ends, FinalizeRead, FinalizeWrite,
          Reap, FindDetached, NoteDetached, TypeOK
    <3> QED
      BY <1>7, <3>1, <3>2
  <2>2. CASE q = r /\ Enter(r)
    <3>1. row' = row /\ gate'[r].step = "scope"
      BY <2>2 DEF Enter, Pass, TypeOK
    <3> QED
      BY <3>1, <2>0, <2>2 DEF Hot, PastTheSpend
  <2>3. CASE q = r /\ Refuse(r)
    BY <2>3 DEF Refuse, NoGate, Hot, PastTheSpend, TypeOK
  <2>4. CASE q = r /\ GateScope(r) /\ ~Refuse(r)
    <3>1. row' = row /\ gate'[r].step \in {"refuse", "policy"}
      BY <2>4 DEF GateScope, Pass, TypeOK
    <3> QED
      BY <3>1 DEF Hot, PastTheSpend
  <2>5. CASE q = r /\ GatePolicy(r)
    <3>1. row' = row /\ gate'[r] = [step |-> "spend", limit |-> policy.amount]
      BY <2>5, <1>0 DEF GatePolicy, Exceeded, Limits, TypeOK
    <3>2. gate'[r].step = "spend" /\ gate'[r].limit = policy.amount
      BY <3>1
    <3> QED
      BY <3>1, <3>2, <2>0 DEF Hot, PastTheSpend, Exceeded, Limits
  <2>6. CASE q = r /\ GateSpend(r) /\ ~Refuse(r)
    BY <2>6 DEF GateSpend, Hot, PastTheSpend
  <2>7. CASE q = r /\ Admit(r)
    BY <2>7 DEF Admit, NoGate, Hot, PastTheSpend, TypeOK
  <2>8. CASE q = r /\ RunStep(r) /\ ~NoteDetached(r)
    <3>1. gate' = gate /\ (row'[r] = row[r] \/ row'[r] = "over")
      BY <2>8 DEF RunStep, ReturnQuietly, MarkRunning, RunEnds, Ends, FinalizeRead, FinalizeWrite,
                  Reap, FindDetached, TypeOK
    <3> QED
      BY <3>1, <2>0, <1>0, <1>1
  <2>9. CASE q = r /\ NoteDetached(r)
    BY <2>9 DEF NoteDetached, Hot
  <2> QED
    BY <1>7, <2>1, <2>2, <2>3, <2>4, <2>5, <2>6, <2>7, <2>8, <2>9 DEF GateStep, GateRefuse
<1> QED
  BY <1>2, <1>3, <1>4, <1>5, <1>6, <1>7 DEF Next

(* A run that is chased is caught, or still chased.                          *)
LEMMA ChaseGoesOn ==
    ASSUME TypeOK, Exceeded, Exceeded', Next, "unseen" \notin amiss', NEW r \in Runs, Hot(r), Hot(r)',
           NEW d \in Calls, Chases(d, r)
    PROVE  \E e \in Calls : Chases(e, r)'
<1>0. call[d] \in CallRecords
  BY DEF TypeOK
<1>1. ~Crash
  <2>1. Crash => call[d] = Idle
    BY CrashSeen
  <2> QED
    BY <2>1 DEF Chases, Stops, At, Idle
<1>2. CASE Stops(d)
  <2>1. CASE PauseScope(d)
    <3>1. call'[d].step = "sweep"
      BY <2>1, <1>0 DEF PauseScope, Goto, TypeOK, CallRecords
    <3> QED
      BY <3>1 DEF Chases, At
  <2> QED
    BY <1>1, <1>2, <2>1, StopsCarry DEF Chases
<1>3. CASE At(d, "sweep") \/ (At(d, "cancel") /\ r \in call[d].found)
  <2>1. CASE call'[d] = call[d]
    BY <1>3, <2>1 DEF Chases, At
  <2>2. CASE CallStep(d)
    <3>1. Sweep(d) \/ CancelFound(d)
      BY <2>2, <1>3 DEF CallStep, At, ReadPolicy, Observe, FindSoft, InsertSoft, Find, Insert, PauseScope,
              Measure, CheckRaise, WriteRaise, Resume, ResolveOpen
    <3>2. r \in Cancellable(Runs)
      BY DEF Hot, Cancellable
    <3>3. CASE Sweep(d)
      <4>1. call'[d].step = "cancel" /\ call'[d].found = Cancellable(Runs)
        BY <3>3, <1>0 DEF Sweep, TypeOK, CallRecords
      <4> QED
        BY <4>1, <3>2 DEF Chases, At
    <3>4. ASSUME CancelFound(d) PROVE FALSE
      <4>1. r \in Cancellable(call[d].found)
        BY <1>3, <3>2, <3>4 DEF CancelFound, At, Cancellable
      <4>2. row'[r] = "over"
        BY <3>4, <4>1 DEF CancelFound
      <4> QED
        BY <4>2 DEF Hot
    <3> QED
      BY <3>1, <3>3, <3>4
  <2>3. Report(d) \/ Board(d) => call'[d] = call[d]
    <3>1. call[d] # Idle
      BY <1>3 DEF At, Idle
    <3> QED
      BY <3>1 DEF Report, Board, Upsert, RaiseAndResume, BoardPause, Begin
  <2> QED
    BY <1>1, <2>1, <2>2, <2>3, CallMoves, OneCall
<1> QED
  BY <1>2, <1>3 DEF Chases

(* A run past the gate of an exceeded budget has a sweep ahead of it.        *)
LEMMA HotStep ==
    ASSUME TypeOK, HotIsChased, [Next]_vars
    PROVE  HotIsChased'
<1>1. CASE UNCHANGED vars
  <2>1. Exceeded' = Exceeded /\ amiss' = amiss
    BY <1>1 DEF vars, Exceeded, Limits
  <2>2. ASSUME NEW r \in Runs, Hot(r)' PROVE Hot(r)
    BY <1>1, <2>2 DEF vars, Hot, PastTheSpend, Limits
  <2>3. ASSUME NEW r \in Runs, NEW c \in Calls, Chases(c, r) PROVE Chases(c, r)'
    BY <1>1, <2>3 DEF vars, Chases, Stops, At, Limits
  <2> QED
    BY <2>1, <2>2, <2>3 DEF HotIsChased
<1>2. CASE Next
  <2> SUFFICES ASSUME Exceeded', amiss' \cap {"blind", "unseen"} = {}, NEW r \in Runs, Hot(r)'
               PROVE  \E c \in Calls : Chases(c, r)'
    BY DEF HotIsChased
  <2>1. CASE ~Exceeded
    <3>1. PICK c \in Calls : Stops(c)'
      BY <2>1, <1>2, OverrunBegins
    <3> QED
      BY <3>1 DEF Chases
  <2>2. ASSUME NEW c \in Calls, PauseScope(c) PROVE Chases(c, r)'
    <3>1. call'[c].step = "sweep"
      BY <2>2 DEF PauseScope, Goto, TypeOK, CallRecords
    <3> QED
      BY <3>1 DEF Chases, At
  <2>3. CASE Exceeded /\ \A c \in Calls : ~PauseScope(c)
    <3>1. amiss \cap {"blind", "unseen"} = {}
      BY <1>2, <2>3, AmissStays
    <3>2. Hot(r)
      BY <1>2, <2>3, HotBefore
    <3>3. PICK d \in Calls : Chases(d, r)
      BY <2>3, <3>1, <3>2 DEF HotIsChased
    <3> QED
      BY <1>2, <2>3, <3>2, <3>3, ChaseGoesOn
  <2> QED
    BY <2>1, <2>2, <2>3
<1> QED
  BY <1>1, <1>2

(* Nothing runs under an exceeded hard stop once every call has ended, unless *)
(* the limit was raised blindly or the last evaluation ended before its pause *)
(* (NothingRunsOverBudget): however the gate, the sweep, failing evaluations, *)
(* the board and the writes of the runs themselves interleave.               *)
THEOREM NothingRunsOver == Spec => []NothingRunsOverBudget
<1>1. Init => HotIsChased
  BY BudgetAssumption DEF Init, HotIsChased, Exceeded, Limits
<1>2. TypeOK /\ HotIsChased /\ [Next]_vars => HotIsChased'
  BY HotStep
<1>3. HotIsChased => NothingRunsOverBudget
  BY DEF HotIsChased, Hot, NothingRunsOverBudget, Settled, Chases, Stops, At, Idle
<1> QED
  BY <1>1, <1>2, <1>3, TypesKept, PTL DEF Spec

(* A pause without an overrun has a call that will lift it.                  *)
LEMMA PauseStep ==
    ASSUME TypeOK, PauseIsMet, [Next]_vars
    PROVE  PauseIsMet'
<1>1. CASE UNCHANGED vars
  BY <1>1 DEF vars, PauseIsMet, Limits, Lifts, At
<1>2. CASE Next
  <2> SUFFICES ASSUME scope'.reason = "budget", "late" \notin amiss'
               PROVE  Limits(policy.amount)' \/ \E c \in Calls : Lifts(c)'
    BY DEF PauseIsMet
  <2>0. spend \in Nat /\ policy.amount \in Nat
    BY DEF TypeOK
  <2>1. ASSUME NEW c \in Calls, PauseScope(c), ~(kind = "agent" /\ scope.paused)
        PROVE  Limits(policy.amount)'
    <3>1. policy' = policy /\ spend' = spend
      BY <2>1 DEF PauseScope
    <3>2. Limits(policy.amount)
      BY <2>1 DEF PauseScope
    <3> QED
      BY <3>1, <3>2 DEF Limits
  <2>2. ASSUME NEW c \in Calls, WriteRaise(c) PROVE Lifts(c)'
    <3>1. call'[c].step = "resume"
      BY <2>2 DEF WriteRaise, GoBy, TypeOK, CallRecords
    <3> QED
      BY <3>1 DEF Lifts, At
  <2>3. ASSUME NEW c \in Calls, NEW amount \in Amounts, NEW active \in BOOLEAN,
               Upsert(c, amount, active)
        PROVE  Lifts(c)'
    <3>1. policy'.amount = amount /\ call'[c].limit = amount
      BY <2>3 DEF Upsert, Begin, GoBy, TypeOK, CallRecords
    <3>2. call'[c].step \in {"measure", "resume"}
      BY <2>3 DEF Upsert, Begin, GoBy, TypeOK, CallRecords
    <3> QED
      BY <3>1, <3>2 DEF Lifts, At
  <2>4. ASSUME \A c \in Calls : ~(PauseScope(c) /\ ~(kind = "agent" /\ scope.paused)),
               \A c \in Calls : ~WriteRaise(c),
               \A c \in Calls, amount \in Amounts, active \in BOOLEAN : ~Upsert(c, amount, active)
        PROVE  Limits(policy.amount)' \/ \E c \in Calls : Lifts(c)'
    <3>1. ~NextMonth
      <4>1. NextMonth => scope' = scope /\ (scope.reason = "budget" => "late" \in amiss')
        BY DEF NextMonth
      <4> QED
        BY <4>1
    <3>2. scope.reason = "budget" /\ "late" \notin amiss
      <4>1. ASSUME NEW c \in Calls, Resume(c) PROVE scope' = scope /\ amiss' = amiss
        BY <4>1 DEF Resume
      <4>2. ASSUME NEW c \in Calls, BoardPause(c) PROVE scope.reason = "budget" /\ amiss' = amiss
        BY <4>2 DEF BoardPause
      <4>3. ASSUME NEW c \in Calls, PauseScope(c)
            PROVE  scope.reason = "budget" /\ "late" \notin amiss
        BY <4>3, <2>4 DEF PauseScope
      <4>4. ASSUME BoardResume PROVE scope.reason = "budget" /\ "late" \notin amiss
        BY <4>4 DEF BoardResume
      <4>5. ASSUME NEW c \in Calls, InsertSoft(c)
            PROVE  scope.reason = "budget" /\ "late" \notin amiss
        BY <4>5 DEF InsertSoft
      <4>6. ASSUME NEW paused \in BOOLEAN, BoardPatch(paused)
            PROVE  scope.reason = "budget" /\ "late" \notin amiss
        BY <4>6 DEF BoardPatch, TypeOK
      <4>7. ASSUME NEW r \in Runs, GateStep(r) \/ RunStep(r)
            PROVE  scope.reason = "budget" /\ "late" \notin amiss
        BY <4>7, RunsWrite, StatusTyped DEF StatusWritten, NoteDetached
      <4>8. ASSUME Crash PROVE scope.reason = "budget" /\ "late" \notin amiss
        BY <4>8, CrashSeen
      <4> QED
        BY <1>2, <2>4, <3>1, <4>1, <4>2, <4>3, <4>4, <4>5, <4>6, <4>7, <4>8, ScopeMoves
    <3>3. policy' = policy /\ spend' \in Nat /\ spend' >= spend
      BY <1>2, <2>0, <2>4, <3>1, PolicyMoves DEF Report
    <3>4. CASE Limits(policy.amount)
      BY <2>0, <3>3, <3>4 DEF Limits
    <3>5. ASSUME NEW d \in Calls, Lifts(d), ~Limits(policy.amount) PROVE Lifts(d)'
      <4>1. CASE call'[d] = call[d]
        BY <3>3, <3>5, <4>1 DEF Lifts, At
      <4>2. CASE CallStep(d)
        <5>1. ~Resume(d)
          BY <3>2 DEF Resume
        <5>2. Measure(d)
          BY <4>2, <5>1, <3>5
          DEF Lifts, CallStep, At, ReadPolicy, Observe, FindSoft, InsertSoft, Find, Insert, PauseScope, Sweep,
                  CancelFound, CheckRaise, WriteRaise, Resume, ResolveOpen
        <5>3. call[d].limit = policy.amount
          BY <5>2, <3>5 DEF Measure, Lifts, At
        <5>4. call'[d].step = "resume"
          BY <5>2, <5>3, <3>5 DEF Measure, GoBy, TypeOK, CallRecords
        <5> QED
          BY <5>4 DEF Lifts, At
      <4>3. Report(d) \/ Board(d) => call'[d] = call[d]
        <5>1. call[d] # Idle
          BY <3>5 DEF Lifts, At, Idle
        <5> QED
          BY <5>1 DEF Report, Board, Upsert, RaiseAndResume, BoardPause, Begin
      <4> QED
        BY <1>2, <3>1, <4>1, <4>2, <4>3, CallMoves, OneCall, CrashSeen
    <3> QED
      BY <3>2, <3>4, <3>5 DEF PauseIsMet
  <2> QED
    BY <2>1, <2>2, <2>3, <2>4
<1> QED
  BY <1>1, <1>2

(* A scope at rest is paused for a budget only if it is over it, or the pause *)
(* was late or has outlived its month (StopsOnlyOverruns).                   *)
THEOREM OnlyOverrunsAreStopped == Spec => []StopsOnlyOverruns
<1>1. Init => PauseIsMet
  BY DEF Init, PauseIsMet
<1>2. TypeOK /\ PauseIsMet /\ [Next]_vars => PauseIsMet'
  BY PauseStep
<1>3. PauseIsMet => StopsOnlyOverruns
  BY DEF PauseIsMet, StopsOnlyOverruns, Settled, Lifts, At, Idle
<1> QED
  BY <1>1, <1>2, <1>3, TypesKept, PTL DEF Spec
=============================================================================
