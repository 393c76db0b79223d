-------------------------- MODULE IssueCheckout_proofs --------------------------
(*****************************************************************************)
(* What holds of an issue's checkout whatever the number of agents, runs,    *)
(* concurrent calls and of changes that a PATCH may ask for.                 *)
(*****************************************************************************)
EXTENDS IssueCheckout, TLAPS

(* Where a call may be once it is under way.                                 *)
Steps == {"route", "clear", "update", "own", "unowned", "adopt", "reclear", "existing", "stale",
          "write"}

(* A record of a call stays one when the fields that steps set change.       *)
LEMMA StepSet ==
    ASSUME NEW x \in CallRecords, NEW step \in Steps
    PROVE  [x EXCEPT !.step = step] \in CallRecords
  BY DEF CallRecords, Steps

LEMMA SeenSet ==
    ASSUME NEW x \in CallRecords, NEW seen \in Runs \cup {NoRun}
    PROVE  [x EXCEPT !.seen = seen] \in CallRecords
  BY DEF CallRecords

LEMMA UnassignedSet ==
    ASSUME NEW x \in CallRecords, NEW none \in BOOLEAN
    PROVE  [x EXCEPT !.unassigned = none] \in CallRecords
  BY DEF CallRecords

LEMMA ClearsSet ==
    ASSUME NEW x \in CallRecords, NEW clears \in BOOLEAN
    PROVE  [x EXCEPT !.clears = clears] \in CallRecords
  BY DEF CallRecords

(* A call that goes on, ends or begins is well formed.                       *)
LEMMA CallGoesOn ==
    ASSUME TypeOK, NEW c \in Calls, NEW step \in Steps,
           \/ Goto(c, step)
           \/ \E seen \in Runs \cup {NoRun} :
                call' = [call EXCEPT ![c].step = step, ![c].seen = seen]
           \/ \E seen \in Runs \cup {NoRun}, none \in BOOLEAN :
                call' = [call EXCEPT ![c].step = step, ![c].seen = seen, ![c].unassigned = none]
           \/ \E clears \in BOOLEAN :
                call' = [call EXCEPT ![c].step = step, ![c].clears = clears]
    PROVE  call' \in [Calls -> CallRecords]
<1>1. call \in [Calls -> CallRecords] /\ call[c] \in CallRecords
  BY DEF TypeOK
<1>2. [call[c] EXCEPT !.step = step] \in CallRecords
  BY <1>1, StepSet
<1>3. CASE Goto(c, step)
  BY <1>1, <1>2, <1>3 DEF Goto
<1>4. CASE \E seen \in Runs \cup {NoRun} :
             call' = [call EXCEPT ![c].step = step, ![c].seen = seen]
  <2>1. PICK seen \in Runs \cup {NoRun} :
           call' = [call EXCEPT ![c].step = step, ![c].seen = seen]
    BY <1>4
  <2>2. [[call[c] EXCEPT !.step = step] EXCEPT !.seen = seen] \in CallRecords
    BY <1>2, SeenSet
  <2> QED
    BY <1>1, <2>1, <2>2
<1>5. CASE \E seen \in Runs \cup {NoRun}, none \in BOOLEAN :
             call' = [call EXCEPT ![c].step = step, ![c].seen = seen, ![c].unassigned = none]
  <2>1. PICK seen \in Runs \cup {NoRun}, none \in BOOLEAN :
           call' = [call EXCEPT ![c].step = step, ![c].seen = seen, ![c].unassigned = none]
    BY <1>5
  <2>2. [[call[c] EXCEPT !.step = step] EXCEPT !.seen = seen] \in CallRecords
    BY <1>2, SeenSet
  <2>3. [[[call[c] EXCEPT !.step = step] EXCEPT !.seen = seen] EXCEPT !.unassigned = none]
           \in CallRecords
    BY <2>2, UnassignedSet
  <2> QED
    BY <1>1, <2>1, <2>3
<1>6. CASE \E clears \in BOOLEAN :
             call' = [call EXCEPT ![c].step = step, ![c].clears = clears]
  <2>1. PICK clears \in BOOLEAN :
           call' = [call EXCEPT ![c].step = step, ![c].clears = clears]
    BY <1>6
  <2>2. [[call[c] EXCEPT !.step = step] EXCEPT !.clears = clears] \in CallRecords
    BY <1>2, ClearsSet
  <2> QED
    BY <1>1, <2>1, <2>2
<1> QED
  BY <1>3, <1>4, <1>5, <1>6

LEMMA CallEnds ==
    ASSUME TypeOK, NEW c \in Calls, Done(c)
    PROVE  call' \in [Calls -> CallRecords]
<1>1. Idle \in CallRecords
  BY CheckoutAssumption DEF Idle, CallRecords
<1> QED
  BY <1>1 DEF TypeOK, Done

LEMMA CallBegins ==
    ASSUME TypeOK, NEW c \in Calls, NEW op \in {"checkout", "patch", "release"},
           NEW step \in {"route", "clear", "reclear", "existing"},
           NEW r \in Runs \cup {NoRun}, NEW a \in Agents \cup {NoAgent},
           NEW expected \in SUBSET Statuses, NEW p \in Patches \cup {NoPatch},
           Begin(c, op, step, r, a, expected, p)
    PROVE  TypeOK'
<1>1. call' \in [Calls -> CallRecords]
  BY DEF TypeOK, CallRecords, Begin
<1> QED
  BY <1>1 DEF TypeOK, Begin

(* Every statement keeps the row, the runs and the calls to their types.      *)
LEMMA TypeStep ==
    ASSUME TypeOK, [Next]_vars
    PROVE  TypeOK'
<1> USE DEF Statuses
<1>1. ASSUME NEW r \in Runs, ClaimUpdate(r) PROVE TypeOK'
  BY <1>1, CheckoutAssumption DEF ClaimUpdate, TypeOK
<1>2. ASSUME NEW r \in Runs, StampLock(r) PROVE TypeOK'
  BY <1>2, CheckoutAssumption DEF StampLock, TypeOK
<1>3. ASSUME NEW r \in Runs, RunEnds(r) PROVE TypeOK'
  BY <1>3, CheckoutAssumption DEF RunEnds, TypeOK
<1>4. ASSUME NEW r \in Runs, DropLock(r) PROVE TypeOK'
  BY <1>4, CheckoutAssumption DEF DropLock, TypeOK
<1>5. ASSUME NEW r \in Runs, HandLock(r) PROVE TypeOK'
  BY <1>5, CheckoutAssumption DEF HandLock, TypeOK
<1>6. ASSUME NEW c \in Calls, NEW r \in Runs, AgentCheckout(c, r) PROVE TypeOK'
  <2>1. AgentOf[r] \in Agents /\ Statuses \in SUBSET Statuses
        /\ {"todo"} \in SUBSET Statuses
    BY CheckoutAssumption DEF Statuses
  <2>2. PICK expected \in {{"todo"}, Statuses} :
           Begin(c, "checkout", "clear", r, AgentOf[r], expected, NoPatch)
    BY <1>6 DEF AgentCheckout
  <2> QED
    BY <2>1, <2>2, CallBegins
<1>7. ASSUME NEW c \in Calls, NEW r \in Runs, AgentPatch(c, r) PROVE TypeOK'
  <2>1. PICK p \in Patches : Begin(c, "patch", "route", r, AgentOf[r], {}, p)
    BY <1>7 DEF AgentPatch
  <2>2. AgentOf[r] \in Agents
    BY CheckoutAssumption
  <2> QED
    BY <2>1, <2>2, CallBegins
<1>8. ASSUME NEW c \in Calls, NEW r \in Runs, AgentRelease(c, r) PROVE TypeOK'
  <2>1. AgentOf[r] \in Agents
    BY CheckoutAssumption
  <2> QED
    BY <1>8, <2>1, CallBegins DEF AgentRelease
<1>9. ASSUME NEW c \in Calls, NEW a \in Agents, BoardCheckout(c, a) PROVE TypeOK'
  BY <1>9, CallBegins DEF BoardCheckout
<1>10. ASSUME NEW c \in Calls, BoardPatch(c) PROVE TypeOK'
  <2>1. PICK p \in Patches : Begin(c, "patch", "existing", NoRun, NoAgent, {}, p)
    BY <1>10 DEF BoardPatch
  <2> QED
    BY <2>1, CallBegins
<1>11. ASSUME NEW c \in Calls, BoardRelease(c) PROVE TypeOK'
  BY <1>11, CallBegins DEF BoardRelease
<1>12. ASSUME ForceRelease PROVE TypeOK'
  <2>1. PICK clearAssignee \in BOOLEAN :
         issue' = [issue EXCEPT !.checkout = NoRun, !.lock = NoRun,
                       !.agent = IF clearAssignee THEN NoAgent ELSE issue.agent]
    BY <1>12 DEF ForceRelease
  <2>2. issue' \in [status : Statuses, agent : Agents \cup {NoAgent}, user : BOOLEAN,
                     checkout : Runs \cup {NoRun}, lock : Runs \cup {NoRun}]
    BY <2>1 DEF TypeOK
  <2>3. left' \in Nat
    BY <1>12 DEF ForceRelease, TypeOK
  <2> QED
    BY <1>12, <2>2, <2>3 DEF ForceRelease, TypeOK
<1>13. ASSUME NEW c \in Calls, Route(c) PROVE TypeOK'
  <2>1. call' \in [Calls -> CallRecords]
    BY <1>13, CallGoesOn, CallEnds DEF Steps, Route, Act
  <2> QED
    BY <1>13, <2>1 DEF Route, TypeOK
<1>14. ASSUME NEW c \in Calls, ClearIfTerminal(c) PROVE TypeOK'
  <2>1. call' \in [Calls -> CallRecords]
    BY <1>14, CallGoesOn, CallEnds DEF Steps, ClearIfTerminal
  <2>2. issue' \in [status : Statuses, agent : Agents \cup {NoAgent}, user : BOOLEAN,
                     checkout : Runs \cup {NoRun}, lock : Runs \cup {NoRun}]
    BY <1>14 DEF ClearIfTerminal, TypeOK
  <2> QED
    BY <1>14, <2>1, <2>2 DEF ClearIfTerminal, TypeOK
<1>15. ASSUME NEW c \in Calls, CheckoutUpdate(c) PROVE TypeOK'
  <2>1. call' \in [Calls -> CallRecords]
    BY <1>15, CallGoesOn, CallEnds DEF Steps, CheckoutUpdate
  <2>2. call[c].agent \in Agents \cup {NoAgent} /\ call[c].run \in Runs \cup {NoRun}
    BY DEF TypeOK, CallRecords
  <2>3. issue' \in [status : Statuses, agent : Agents \cup {NoAgent}, user : BOOLEAN,
                     checkout : Runs \cup {NoRun}, lock : Runs \cup {NoRun}]
    <3>1. CASE UNCHANGED issue
      BY <3>1 DEF TypeOK
    <3>2. CASE issue' = [status |-> "in_progress", agent |-> call[c].agent, user |-> FALSE,
                         checkout |-> call[c].run, lock |-> call[c].run]
      BY <2>2, <3>2
    <3> QED
      BY <1>15, <3>1, <3>2 DEF CheckoutUpdate
  <2> QED
    BY <1>15, <2>1, <2>3 DEF CheckoutUpdate, TypeOK
<1>16. ASSUME NEW c \in Calls, ReadOwner(c) PROVE TypeOK'
  <2>1. call' \in [Calls -> CallRecords]
    <3>1. CASE Granted(c)
      BY <3>1, CallGoesOn, CallEnds DEF Steps, Granted, Act
    <3>2. CASE Goto(c, "unowned")
      BY <3>2, CallGoesOn DEF Steps
    <3>3. CASE call' = [call EXCEPT ![c].step = "adopt", ![c].seen = issue.checkout]
      <4>1. issue.checkout \in Runs \cup {NoRun}
        BY DEF TypeOK
      <4> QED
        BY <3>3, <4>1, CallGoesOn DEF Steps
    <3>4. CASE Done(c)
      BY <3>4, CallEnds
    <3> QED
      BY <1>16, <3>1, <3>2, <3>3, <3>4 DEF ReadOwner
  <2> QED
    BY <1>16, <2>1 DEF ReadOwner, TypeOK
<1>17. ASSUME NEW c \in Calls, AdoptUnowned(c) PROVE TypeOK'
  <2>1. call' \in [Calls -> CallRecords]
    BY <1>17, CallGoesOn, CallEnds DEF Steps, AdoptUnowned, Granted, Act
  <2>2. issue' \in [status : Statuses, agent : Agents \cup {NoAgent}, user : BOOLEAN,
                     checkout : Runs \cup {NoRun}, lock : Runs \cup {NoRun}]
    BY <1>17 DEF AdoptUnowned, TypeOK, CallRecords, At
  <2> QED
    BY <1>17, <2>1, <2>2 DEF AdoptUnowned, TypeOK
<1>18. ASSUME NEW c \in Calls, AdoptStale(c) PROVE TypeOK'
  <2>1. call' \in [Calls -> CallRecords]
    BY <1>18, CallGoesOn, CallEnds DEF Steps, AdoptStale, Granted, Act
  <2>2. issue' \in [status : Statuses, agent : Agents \cup {NoAgent}, user : BOOLEAN,
                     checkout : Runs \cup {NoRun}, lock : Runs \cup {NoRun}]
    BY <1>18 DEF AdoptStale, TypeOK, CallRecords, At
  <2> QED
    BY <1>18, <2>1, <2>2 DEF AdoptStale, TypeOK
<1>19. ASSUME NEW c \in Calls, UpdateRead(c) PROVE TypeOK'
  <2>1. call' \in [Calls -> CallRecords]
    <3>1. CASE Done(c)
      BY <3>1, CallEnds
    <3>2. CASE ~Done(c)
      <4>1. PICK clears \in BOOLEAN :
               call' = [call EXCEPT ![c].step = "write", ![c].clears = clears]
        BY <1>19, <3>2 DEF UpdateRead
      <4> QED
        BY <4>1, CallGoesOn DEF Steps
    <3> QED
      BY <3>1, <3>2
  <2> QED
    BY <1>19, <2>1 DEF UpdateRead, TypeOK
<1>20. ASSUME NEW c \in Calls, UpdateWrite(c) PROVE TypeOK'
  <2>1. call' \in [Calls -> CallRecords]
    BY <1>20, CallGoesOn, CallEnds DEF Steps, UpdateWrite
  <2>2. call[c].patch.agent \in Agents \cup {NoAgent, Keep}
       /\ call[c].patch.status \in Statuses \cup {"keep"}
    BY CheckoutAssumption DEF TypeOK, CallRecords, NoPatch
  <2>3. issue' \in [status : Statuses, agent : Agents \cup {NoAgent}, user : BOOLEAN,
                     checkout : Runs \cup {NoRun}, lock : Runs \cup {NoRun}]
    BY <1>20, <2>2 DEF UpdateWrite, TypeOK
  <2> QED
    BY <1>20, <2>1, <2>3 DEF UpdateWrite, TypeOK
<1>21. ASSUME NEW c \in Calls, ReleaseRead(c) PROVE TypeOK'
  <2>1. call' \in [Calls -> CallRecords]
    <3>1. CASE Done(c)
      BY <3>1, CallEnds
    <3>2. CASE ~Done(c)
      <4>1. PICK step \in {"stale", "write"}, seen \in Runs \cup {NoRun}, none \in BOOLEAN :
               call' = [call EXCEPT ![c].step = step, ![c].seen = seen, ![c].unassigned = none]
        BY <1>21, <3>2 DEF ReleaseRead, TypeOK
      <4> QED
        BY <4>1, CallGoesOn DEF Steps
    <3> QED
      BY <3>1, <3>2
  <2> QED
    BY <1>21, <2>1 DEF ReleaseRead, TypeOK
<1>22. ASSUME NEW c \in Calls, ReleaseStale(c) PROVE TypeOK'
  <2>1. call' \in [Calls -> CallRecords]
    BY <1>22, CallGoesOn, CallEnds DEF Steps, ReleaseStale
  <2> QED
    BY <1>22, <2>1 DEF ReleaseStale, TypeOK
<1>23. ASSUME NEW c \in Calls, ReleaseWrite(c) PROVE TypeOK'
  <2>1. call' \in [Calls -> CallRecords]
    BY <1>23, CallGoesOn, CallEnds DEF Steps, ReleaseWrite
  <2>2. issue' \in [status : Statuses, agent : Agents \cup {NoAgent}, user : BOOLEAN,
                     checkout : Runs \cup {NoRun}, lock : Runs \cup {NoRun}]
    BY <1>23 DEF ReleaseWrite, TypeOK
  <2> QED
    BY <1>23, <2>1, <2>2 DEF ReleaseWrite, TypeOK
<1>24. CASE UNCHANGED vars
  BY <1>24 DEF vars, TypeOK
<1> QED
  BY <1>1, <1>2, <1>3, <1>4, <1>5, <1>6, <1>7, <1>8, <1>9, <1>10, <1>11,
     <1>12, <1>13, <1>14, <1>15, <1>16, <1>17, <1>18, <1>19, <1>20, <1>21,
     <1>22, <1>23, <1>24 DEF Next, CallStep

(* Only the call itself changes its own record.                               *)
LEMMA OthersDecided ==
    ASSUME TypeOK, Decided, UNCHANGED row, NEW c \in Calls, DOMAIN call' = Calls,
           \A d \in Calls \ {c} : call'[d] = call[d],
           DecidedCall(call[c])'
    PROVE  Decided'
  BY DEF DecidedCall, Decided, Live, Ended

LEMMA DecidedGoesOn ==
    ASSUME TypeOK, Decided, UNCHANGED row, NEW c \in Calls,
           NEW step \in {"clear", "update", "own", "unowned", "reclear", "existing"},
           Goto(c, step)
    PROVE  Decided'
<1>1. call'[c] = [call[c] EXCEPT !.step = step]
  BY DEF Goto, TypeOK
<1>2. DecidedCall(call[c])'
  BY <1>1 DEF DecidedCall, TypeOK, CallRecords
<1> QED
  BY <1>2, OthersDecided DEF Goto, TypeOK

LEMMA DecidedEnds ==
    ASSUME TypeOK, Decided, UNCHANGED row, NEW c \in Calls, Done(c)
    PROVE  Decided'
<1>1. call'[c] = Idle
  BY DEF Done, TypeOK
<1>2. DecidedCall(call[c])'
  BY <1>1 DEF DecidedCall, Idle
<1> QED
  BY <1>2, OthersDecided DEF Done, TypeOK

(* What a call has decided stays true until it writes: an ended run stays     *)
(* ended.                                                                     *)
LEMMA DecidedStep ==
    ASSUME TypeOK, CheckedOutInProgress, Decided, [Next]_vars
    PROVE  Decided'
<1> USE CheckoutAssumption
<1>1. ASSUME NEW r \in Runs, ClaimUpdate(r) PROVE Decided'
  BY <1>1 DEF ClaimUpdate, DecidedCall, Decided, Live, Ended, TypeOK
<1>2. ASSUME NEW r \in Runs, StampLock(r) PROVE Decided'
  BY <1>2 DEF StampLock, DecidedCall, Decided, Live, Ended, TypeOK
<1>3. ASSUME NEW r \in Runs, RunEnds(r) PROVE Decided'
  BY <1>3 DEF RunEnds, DecidedCall, Decided, Live, Ended, TypeOK
<1>4. ASSUME NEW r \in Runs, DropLock(r) PROVE Decided'
  BY <1>4 DEF DropLock, DecidedCall, Decided, Live, Ended, TypeOK
<1>5. ASSUME NEW r \in Runs, HandLock(r) PROVE Decided'
  BY <1>5 DEF HandLock, DecidedCall, Decided, Live, Ended, TypeOK
<1>6. ASSUME NEW c \in Calls, NEW r \in Runs, AgentCheckout(c, r) PROVE Decided'
  BY <1>6 DEF AgentCheckout, Begin, DecidedCall, Decided, Live, Ended, TypeOK
<1>7. ASSUME NEW c \in Calls, NEW r \in Runs, AgentPatch(c, r) PROVE Decided'
  BY <1>7 DEF AgentPatch, Begin, DecidedCall, Decided, Live, Ended, TypeOK
<1>8. ASSUME NEW c \in Calls, NEW r \in Runs, AgentRelease(c, r) PROVE Decided'
  BY <1>8 DEF AgentRelease, Begin, DecidedCall, Decided, Live, Ended, TypeOK
<1>9. ASSUME NEW c \in Calls, NEW a \in Agents, BoardCheckout(c, a) PROVE Decided'
  BY <1>9 DEF BoardCheckout, Begin, DecidedCall, Decided, Live, Ended, TypeOK
<1>10. ASSUME NEW c \in Calls, BoardPatch(c) PROVE Decided'
  BY <1>10 DEF BoardPatch, Begin, DecidedCall, Decided, Live, Ended, TypeOK
<1>11. ASSUME NEW c \in Calls, BoardRelease(c) PROVE Decided'
  BY <1>11 DEF BoardRelease, Begin, DecidedCall, Decided, Live, Ended, TypeOK
<1>12. ASSUME ForceRelease PROVE Decided'
  BY <1>12 DEF ForceRelease, DecidedCall, Decided, Live, Ended
<1>13. ASSUME NEW c \in Calls, Route(c) PROVE Decided'
  BY <1>13, DecidedGoesOn, DecidedEnds DEF Route, Act
<1>14. ASSUME NEW c \in Calls, ClearIfTerminal(c) PROVE Decided'
  BY <1>14, DecidedGoesOn, DecidedEnds DEF ClearIfTerminal
<1>15. ASSUME NEW c \in Calls, CheckoutUpdate(c) PROVE Decided'
  BY <1>15, DecidedGoesOn, DecidedEnds DEF CheckoutUpdate
<1>16. ASSUME NEW c \in Calls, ReadOwner(c) PROVE Decided'
  <2>1. CASE Granted(c)
    BY <1>16, <2>1, DecidedGoesOn, DecidedEnds DEF ReadOwner, Granted, Act
  <2>2. CASE Goto(c, "unowned")
    BY <1>16, <2>2, DecidedGoesOn DEF ReadOwner
  <2>3. CASE /\ issue.checkout # NoRun
             /\ call' = [call EXCEPT ![c].step = "adopt", ![c].seen = issue.checkout]
    <3>1. DecidedCall(call[c])'
      BY <2>3 DEF DecidedCall, TypeOK, CallRecords
    <3> QED
      BY <1>16, <2>3, <3>1, OthersDecided DEF ReadOwner, TypeOK
  <2>4. CASE Done(c)
    BY <1>16, <2>4, DecidedEnds DEF ReadOwner
  <2> QED
    BY <1>16, <2>1, <2>2, <2>3, <2>4 DEF ReadOwner
<1>17. ASSUME NEW c \in Calls, AdoptUnowned(c) PROVE Decided'
  BY <1>17, DecidedGoesOn, DecidedEnds DEF AdoptUnowned, Granted, Act
<1>18. ASSUME NEW c \in Calls, AdoptStale(c) PROVE Decided'
  BY <1>18, DecidedGoesOn, DecidedEnds DEF AdoptStale, Granted, Act
<1>19. ASSUME NEW c \in Calls, UpdateRead(c) PROVE Decided'
  <2>1. CASE Done(c)
    BY <1>19, <2>1, DecidedEnds DEF UpdateRead
  <2>2. CASE ~Done(c)
    <3>1. PICK clears \in BOOLEAN :
           /\ call' = [call EXCEPT ![c].step = "write", ![c].clears = clears]
           /\ call[c].patch.status = "todo" => clears
      BY <1>19, <2>2 DEF UpdateRead
    <3>2. call[c].op = "patch" /\ UNCHANGED row
      BY <1>19 DEF UpdateRead
    <3>3. DecidedCall(call[c])'
      BY <3>1, <3>2 DEF DecidedCall, TypeOK, CallRecords
    <3> QED
      BY <3>1, <3>2, <3>3, OthersDecided DEF TypeOK
  <2> QED
    BY <2>1, <2>2
<1>20. ASSUME NEW c \in Calls, UpdateWrite(c) PROVE Decided'
  BY <1>20, DecidedGoesOn, DecidedEnds DEF UpdateWrite
<1>21. ASSUME NEW c \in Calls, ReleaseRead(c) PROVE Decided'
  <2>1. CASE Done(c)
    BY <1>21, <2>1, DecidedEnds DEF ReleaseRead
  <2>2. CASE ~Done(c)
    <3>1. PICK step \in {"stale", "write"}, seen \in Runs \cup {NoRun}, none \in BOOLEAN :
           /\ call' = [call EXCEPT ![c].step = step, ![c].seen = seen, ![c].unassigned = none]
           /\ step = "write" /\ call[c].agent # NoAgent => none \/ seen \in {NoRun, call[c].run}
      BY <1>21, <2>2 DEF ReleaseRead, Mine, CheckedOutInProgress, TypeOK
    <3>2. call[c].op = "release" /\ UNCHANGED row
      BY <1>21 DEF ReleaseRead
    <3>3. DecidedCall(call[c])'
      BY <3>1, <3>2 DEF DecidedCall, Live, TypeOK, CallRecords
    <3> QED
      BY <3>1, <3>2, <3>3, OthersDecided DEF TypeOK
  <2> QED
    BY <2>1, <2>2
<1>22. ASSUME NEW c \in Calls, ReleaseStale(c) PROVE Decided'
  <2>1. CASE Live(call[c].seen)
    BY <1>22, <2>1, DecidedEnds DEF ReleaseStale
  <2>2. CASE ~Live(call[c].seen)
    <3>1. Goto(c, "write") /\ UNCHANGED row /\ call[c].op = "release"
      BY <1>22, <2>2 DEF ReleaseStale, At, Decided, DecidedCall
    <3>2. DecidedCall(call[c])'
      BY <2>2, <3>1 DEF DecidedCall, Goto, Live, Ended, TypeOK, CallRecords
    <3> QED
      BY <3>1, <3>2, OthersDecided DEF Goto, TypeOK
  <2> QED
    BY <2>1, <2>2
<1>23. ASSUME NEW c \in Calls, ReleaseWrite(c) PROVE Decided'
  BY <1>23, DecidedGoesOn, DecidedEnds DEF ReleaseWrite
<1>24. CASE UNCHANGED vars
  BY <1>24 DEF vars, DecidedCall, Decided, Live, Ended
<1> QED
  BY <1>1, <1>2, <1>3, <1>4, <1>5, <1>6, <1>7, <1>8, <1>9, <1>10, <1>11,
     <1>12, <1>13, <1>14, <1>15, <1>16, <1>17, <1>18, <1>19, <1>20, <1>21,
     <1>22, <1>23, <1>24 DEF Next, CallStep

LEMMA InProgressStep ==
    ASSUME TypeOK, CheckedOutInProgress, Decided, [Next]_vars
    PROVE  CheckedOutInProgress'
<1>1. ASSUME NEW r \in Runs, ClaimUpdate(r) PROVE CheckedOutInProgress'
  BY <1>1 DEF ClaimUpdate, CheckedOutInProgress, TypeOK
<1>2. ASSUME NEW r \in Runs, StampLock(r) PROVE CheckedOutInProgress'
  BY <1>2 DEF StampLock, CheckedOutInProgress, TypeOK
<1>3. ASSUME NEW r \in Runs, RunEnds(r) PROVE CheckedOutInProgress'
  BY <1>3 DEF RunEnds, CheckedOutInProgress, TypeOK
<1>4. ASSUME NEW r \in Runs, DropLock(r) PROVE CheckedOutInProgress'
  BY <1>4 DEF DropLock, CheckedOutInProgress, TypeOK
<1>5. ASSUME NEW r \in Runs, HandLock(r) PROVE CheckedOutInProgress'
  BY <1>5 DEF HandLock, CheckedOutInProgress, TypeOK
<1>6. ASSUME NEW c \in Calls, NEW r \in Runs, AgentCheckout(c, r) PROVE CheckedOutInProgress'
  BY <1>6 DEF AgentCheckout, Begin, CheckedOutInProgress
<1>7. ASSUME NEW c \in Calls, NEW r \in Runs, AgentPatch(c, r) PROVE CheckedOutInProgress'
  BY <1>7 DEF AgentPatch, Begin, CheckedOutInProgress
<1>8. ASSUME NEW c \in Calls, NEW r \in Runs, AgentRelease(c, r) PROVE CheckedOutInProgress'
  BY <1>8 DEF AgentRelease, Begin, CheckedOutInProgress
<1>9. ASSUME NEW c \in Calls, NEW a \in Agents, BoardCheckout(c, a) PROVE CheckedOutInProgress'
  BY <1>9 DEF BoardCheckout, Begin, CheckedOutInProgress
<1>10. ASSUME NEW c \in Calls, BoardPatch(c) PROVE CheckedOutInProgress'
  BY <1>10 DEF BoardPatch, Begin, CheckedOutInProgress
<1>11. ASSUME NEW c \in Calls, BoardRelease(c) PROVE CheckedOutInProgress'
  BY <1>11 DEF BoardRelease, Begin, CheckedOutInProgress
<1>12. ASSUME ForceRelease PROVE CheckedOutInProgress'
  BY <1>12 DEF ForceRelease, CheckedOutInProgress, TypeOK
<1>13. ASSUME NEW c \in Calls, Route(c) PROVE CheckedOutInProgress'
  BY <1>13 DEF Route, CheckedOutInProgress, TypeOK
<1>14. ASSUME NEW c \in Calls, ClearIfTerminal(c) PROVE CheckedOutInProgress'
  BY <1>14 DEF ClearIfTerminal, CheckedOutInProgress, TypeOK
<1>15. ASSUME NEW c \in Calls, CheckoutUpdate(c) PROVE CheckedOutInProgress'
  BY <1>15 DEF CheckoutUpdate, CheckedOutInProgress, TypeOK
<1>16. ASSUME NEW c \in Calls, ReadOwner(c) PROVE CheckedOutInProgress'
  BY <1>16 DEF ReadOwner, CheckedOutInProgress, TypeOK
<1>17. ASSUME NEW c \in Calls, AdoptUnowned(c) PROVE CheckedOutInProgress'
  BY <1>17 DEF AdoptUnowned, StillUnowned, CheckedOutInProgress, TypeOK
<1>18. ASSUME NEW c \in Calls, AdoptStale(c) PROVE CheckedOutInProgress'
  BY <1>18 DEF AdoptStale, StillStale, CheckedOutInProgress, TypeOK
<1>19. ASSUME NEW c \in Calls, UpdateRead(c) PROVE CheckedOutInProgress'
  BY <1>19 DEF UpdateRead, CheckedOutInProgress, TypeOK
<1>20. ASSUME NEW c \in Calls, UpdateWrite(c) PROVE CheckedOutInProgress'
  <2>1. CASE call[c].clears
    BY <1>20, <2>1 DEF UpdateWrite, CheckedOutInProgress
  <2>2. CASE ~call[c].clears
    <3>1. call[c].patch.status # "todo"
      BY <1>20, <2>2 DEF UpdateWrite, At, Decided, DecidedCall
    <3>2. call[c].patch.status \in {"in_progress", "keep"}
      BY <3>1, CheckoutAssumption DEF TypeOK, CallRecords, NoPatch, Statuses
    <3> QED
      BY <1>20, <2>2, <3>2 DEF UpdateWrite, CheckedOutInProgress
  <2> QED
    BY <2>1, <2>2
<1>21. ASSUME NEW c \in Calls, ReleaseRead(c) PROVE CheckedOutInProgress'
  BY <1>21 DEF ReleaseRead, CheckedOutInProgress, TypeOK
<1>22. ASSUME NEW c \in Calls, ReleaseStale(c) PROVE CheckedOutInProgress'
  BY <1>22 DEF ReleaseStale, CheckedOutInProgress, TypeOK
<1>23. ASSUME NEW c \in Calls, ReleaseWrite(c) PROVE CheckedOutInProgress'
  BY <1>23 DEF ReleaseWrite, CheckedOutInProgress, TypeOK
<1>24. CASE UNCHANGED vars
  BY <1>24 DEF vars, CheckedOutInProgress
<1> QED
  BY <1>1, <1>2, <1>3, <1>4, <1>5, <1>6, <1>7, <1>8, <1>9, <1>10, <1>11,
     <1>12, <1>13, <1>14, <1>15, <1>16, <1>17, <1>18, <1>19, <1>20, <1>21,
     <1>22, <1>23, <1>24 DEF Next, CallStep

LEMMA LockStep ==
    ASSUME TypeOK, CheckoutHoldsLock, [Next]_vars
    PROVE  CheckoutHoldsLock'
<1> USE CheckoutAssumption
<1>1. ASSUME NEW r \in Runs, ClaimUpdate(r) PROVE CheckoutHoldsLock'
  BY <1>1 DEF ClaimUpdate, CheckoutHoldsLock, Live, Ended, TypeOK
<1>2. ASSUME NEW r \in Runs, StampLock(r) PROVE CheckoutHoldsLock'
  BY <1>2 DEF StampLock, CheckoutHoldsLock, Live, Ended, TypeOK
<1>3. ASSUME NEW r \in Runs, RunEnds(r) PROVE CheckoutHoldsLock'
  BY <1>3 DEF RunEnds, CheckoutHoldsLock, Live, Ended, TypeOK
<1>4. ASSUME NEW r \in Runs, DropLock(r) PROVE CheckoutHoldsLock'
  BY <1>4 DEF DropLock, CheckoutHoldsLock, Live, Ended, TypeOK
<1>5. ASSUME NEW r \in Runs, HandLock(r) PROVE CheckoutHoldsLock'
  BY <1>5 DEF HandLock, CheckoutHoldsLock, Live, Ended, TypeOK
<1>6. ASSUME NEW c \in Calls, NEW r \in Runs, AgentCheckout(c, r) PROVE CheckoutHoldsLock'
  BY <1>6 DEF AgentCheckout, Begin, CheckoutHoldsLock, Live, Ended
<1>7. ASSUME NEW c \in Calls, NEW r \in Runs, AgentPatch(c, r) PROVE CheckoutHoldsLock'
  BY <1>7 DEF AgentPatch, Begin, CheckoutHoldsLock, Live, Ended
<1>8. ASSUME NEW c \in Calls, NEW r \in Runs, AgentRelease(c, r) PROVE CheckoutHoldsLock'
  BY <1>8 DEF AgentRelease, Begin, CheckoutHoldsLock, Live, Ended
<1>9. ASSUME NEW c \in Calls, NEW a \in Agents, BoardCheckout(c, a) PROVE CheckoutHoldsLock'
  BY <1>9 DEF BoardCheckout, Begin, CheckoutHoldsLock, Live, Ended
<1>10. ASSUME NEW c \in Calls, BoardPatch(c) PROVE CheckoutHoldsLock'
  BY <1>10 DEF BoardPatch, Begin, CheckoutHoldsLock, Live, Ended
<1>11. ASSUME NEW c \in Calls, BoardRelease(c) PROVE CheckoutHoldsLock'
  BY <1>11 DEF BoardRelease, Begin, CheckoutHoldsLock, Live, Ended
<1>12. ASSUME ForceRelease PROVE CheckoutHoldsLock'
  BY <1>12 DEF ForceRelease, CheckoutHoldsLock, Live, Ended, TypeOK
<1>13. ASSUME NEW c \in Calls, Route(c) PROVE CheckoutHoldsLock'
  BY <1>13 DEF Route, CheckoutHoldsLock, Live, Ended, TypeOK
<1>14. ASSUME NEW c \in Calls, ClearIfTerminal(c) PROVE CheckoutHoldsLock'
  BY <1>14 DEF ClearIfTerminal, CheckoutHoldsLock, Live, Ended, TypeOK
<1>15. ASSUME NEW c \in Calls, CheckoutUpdate(c) PROVE CheckoutHoldsLock'
  BY <1>15 DEF CheckoutUpdate, CheckoutHoldsLock, Live, Ended, TypeOK
<1>16. ASSUME NEW c \in Calls, ReadOwner(c) PROVE CheckoutHoldsLock'
  BY <1>16 DEF ReadOwner, CheckoutHoldsLock, Live, Ended, TypeOK
<1>17. ASSUME NEW c \in Calls, AdoptUnowned(c) PROVE CheckoutHoldsLock'
  BY <1>17 DEF AdoptUnowned, CheckoutHoldsLock, Live, Ended, TypeOK
<1>18. ASSUME NEW c \in Calls, AdoptStale(c) PROVE CheckoutHoldsLock'
  BY <1>18 DEF AdoptStale, CheckoutHoldsLock, Live, Ended, TypeOK
<1>19. ASSUME NEW c \in Calls, UpdateRead(c) PROVE CheckoutHoldsLock'
  BY <1>19 DEF UpdateRead, CheckoutHoldsLock, Live, Ended, TypeOK
<1>20. ASSUME NEW c \in Calls, UpdateWrite(c) PROVE CheckoutHoldsLock'
  BY <1>20 DEF UpdateWrite, CheckoutHoldsLock, Live, Ended, TypeOK
<1>21. ASSUME NEW c \in Calls, ReleaseRead(c) PROVE CheckoutHoldsLock'
  BY <1>21 DEF ReleaseRead, CheckoutHoldsLock, Live, Ended, TypeOK
<1>22. ASSUME NEW c \in Calls, ReleaseStale(c) PROVE CheckoutHoldsLock'
  BY <1>22 DEF ReleaseStale, CheckoutHoldsLock, Live, Ended, TypeOK
<1>23. ASSUME NEW c \in Calls, ReleaseWrite(c) PROVE CheckoutHoldsLock'
  BY <1>23 DEF ReleaseWrite, CheckoutHoldsLock, Live, Ended, TypeOK
<1>24. CASE UNCHANGED vars
  BY <1>24 DEF vars, CheckoutHoldsLock, Live, Ended
<1> QED
  BY <1>1, <1>2, <1>3, <1>4, <1>5, <1>6, <1>7, <1>8, <1>9, <1>10, <1>11,
     <1>12, <1>13, <1>14, <1>15, <1>16, <1>17, <1>18, <1>19, <1>20, <1>21,
     <1>22, <1>23, <1>24 DEF Next, CallStep

CheckoutInv == TypeOK /\ CheckedOutInProgress /\ CheckoutHoldsLock /\ Decided

LEMMA CheckoutInvariant == Spec => []CheckoutInv
<1>1. Init => CheckoutInv
  <2> SUFFICES ASSUME Init PROVE CheckoutInv
    OBVIOUS
  <2>1. PICK a \in Agents \cup {NoAgent}, r \in Runs \cup {NoRun}, status \in Statuses :
           /\ issue = [status |-> status, agent |-> a, user |-> FALSE,
                       checkout |-> r, lock |-> r]
           /\ r # NoRun => status = "in_progress"
    <3>1. CASE issue = [status |-> "todo", agent |-> NoAgent, user |-> FALSE,
                        checkout |-> NoRun, lock |-> NoRun]
      BY <3>1 DEF Statuses
    <3>2. CASE \E a \in Agents :
                  issue = [status |-> "in_progress", agent |-> a, user |-> FALSE,
                           checkout |-> NoRun, lock |-> NoRun]
      BY <3>2 DEF Statuses
    <3>3. CASE \E r \in OnIssue, a \in Agents \cup {NoAgent} :
                  issue = [status |-> "in_progress", agent |-> a, user |-> FALSE,
                           checkout |-> r, lock |-> r]
      <4>1. PICK r \in OnIssue, a \in Agents \cup {NoAgent} :
               issue = [status |-> "in_progress", agent |-> a, user |-> FALSE,
                        checkout |-> r, lock |-> r]
        BY <3>3
      <4>2. r \in Runs /\ "in_progress" \in Statuses
        BY CheckoutAssumption DEF Statuses
      <4> QED
        BY <4>1, <4>2
    <3> QED
      BY <3>1, <3>2, <3>3 DEF Init
  <2>2. Idle \in CallRecords
    BY CheckoutAssumption DEF Idle, CallRecords
  <2>3. TypeOK
    BY <2>1, <2>2, CheckoutAssumption DEF Init, Begun, TypeOK
  <2>4. CheckedOutInProgress /\ CheckoutHoldsLock
    BY <2>1 DEF CheckedOutInProgress, CheckoutHoldsLock
  <2>5. Decided
    BY DEF Init, Decided, DecidedCall, Idle
  <2> QED
    BY <2>3, <2>4, <2>5 DEF CheckoutInv
<1>2. CheckoutInv /\ [Next]_vars => CheckoutInv'
  BY TypeStep, DecidedStep, InProgressStep, LockStep DEF CheckoutInv
<1> QED
  BY <1>1, <1>2, PTL DEF Spec

(* The row of the issue, the runs and the calls keep to their types.          *)
THEOREM TypesKept == Spec => []TypeOK
  BY CheckoutInvariant, PTL DEF CheckoutInv

(* No order of the statements leaves an issue checked out that is not in      *)
(* progress.                                                                  *)
THEOREM CheckoutMeansInProgress == Spec => []CheckedOutInProgress
  BY CheckoutInvariant, PTL DEF CheckoutInv

(* The run that owns the issue holds its lock as long as it is alive.         *)
THEOREM OwnerHoldsLock == Spec => []CheckoutHoldsLock
  BY CheckoutInvariant, PTL DEF CheckoutInv

(* Every statement is a step of IssueOwner, or leaves the owner and the ended *)
(* runs alone.                                                                *)
LEMMA OwnerStep ==
    ASSUME CheckoutInv, [Next]_vars
    PROVE  [Owner!Next]_<<issue.checkout, {r \in Runs : Ended(r)}>>
<1> USE CheckoutAssumption DEF CheckoutInv
<1>1. ASSUME NEW r \in Runs, ClaimUpdate(r)
      PROVE  [Owner!Next]_<<issue.checkout, {x \in Runs : Ended(x)}>>
  BY <1>1 DEF ClaimUpdate, Ended, TypeOK
<1>2. ASSUME NEW r \in Runs, StampLock(r)
      PROVE  [Owner!Next]_<<issue.checkout, {x \in Runs : Ended(x)}>>
  BY <1>2 DEF StampLock, Ended
<1>3. ASSUME NEW r \in Runs, RunEnds(r)
      PROVE  [Owner!Next]_<<issue.checkout, {x \in Runs : Ended(x)}>>
  <2> DEFINE ended == {x \in Runs : Ended(x)}
  <2>1. UNCHANGED issue /\ ended' = ended \cup {r} /\ {r} \in SUBSET Runs
    BY <1>3 DEF RunEnds, Ended, TypeOK
  <2>2. {r} \cap ended = {}
    BY <1>3 DEF RunEnds, Ended
  <2> HIDE DEF ended
  <2>3. Owner!End({r})
    BY <2>1, <2>2 DEF Owner!End, ended
  <2> QED
    BY <2>1, <2>3 DEF Owner!Next
<1>4. ASSUME NEW r \in Runs, DropLock(r)
      PROVE  [Owner!Next]_<<issue.checkout, {x \in Runs : Ended(x)}>>
  BY <1>4 DEF DropLock, Ended
<1>5. ASSUME NEW r \in Runs, HandLock(r)
      PROVE  [Owner!Next]_<<issue.checkout, {x \in Runs : Ended(x)}>>
  BY <1>5 DEF HandLock, Ended
<1>6. ASSUME NEW c \in Calls, NEW r \in Runs, AgentCheckout(c, r)
      PROVE  [Owner!Next]_<<issue.checkout, {x \in Runs : Ended(x)}>>
  BY <1>6 DEF AgentCheckout, Begin, Ended
<1>7. ASSUME NEW c \in Calls, NEW r \in Runs, AgentPatch(c, r)
      PROVE  [Owner!Next]_<<issue.checkout, {x \in Runs : Ended(x)}>>
  BY <1>7 DEF AgentPatch, Begin, Ended
<1>8. ASSUME NEW c \in Calls, NEW r \in Runs, AgentRelease(c, r)
      PROVE  [Owner!Next]_<<issue.checkout, {x \in Runs : Ended(x)}>>
  BY <1>8 DEF AgentRelease, Begin, Ended
<1>9. ASSUME NEW c \in Calls, NEW a \in Agents, BoardCheckout(c, a)
      PROVE  [Owner!Next]_<<issue.checkout, {x \in Runs : Ended(x)}>>
  BY <1>9 DEF BoardCheckout, Begin, Ended
<1>10. ASSUME NEW c \in Calls, BoardPatch(c)
       PROVE  [Owner!Next]_<<issue.checkout, {x \in Runs : Ended(x)}>>
  BY <1>10 DEF BoardPatch, Begin, Ended
<1>11. ASSUME NEW c \in Calls, BoardRelease(c)
       PROVE  [Owner!Next]_<<issue.checkout, {x \in Runs : Ended(x)}>>
  BY <1>11 DEF BoardRelease, Begin, Ended
<1>12. ASSUME ForceRelease PROVE [Owner!Next]_<<issue.checkout, {x \in Runs : Ended(x)}>>
  BY <1>12 DEF ForceRelease, Owner!Next, Owner!Lose, Owner!End, Owner!Take, Ended
<1>13. ASSUME NEW c \in Calls, Route(c)
       PROVE  [Owner!Next]_<<issue.checkout, {x \in Runs : Ended(x)}>>
  BY <1>13 DEF Route, Ended
<1>14. ASSUME NEW c \in Calls, ClearIfTerminal(c)
       PROVE  [Owner!Next]_<<issue.checkout, {x \in Runs : Ended(x)}>>
  BY <1>14 DEF ClearIfTerminal, Ended
<1>15. ASSUME NEW c \in Calls, CheckoutUpdate(c)
       PROVE  [Owner!Next]_<<issue.checkout, {x \in Runs : Ended(x)}>>
  BY <1>15
  DEF CheckoutUpdate, CheckoutFree, Unlocked, CheckoutHoldsLock, Live, TypeOK, CallRecords,
  Owner!Next, Owner!Lose, Owner!End, Owner!Take, Ended
<1>16. ASSUME NEW c \in Calls, ReadOwner(c)
       PROVE  [Owner!Next]_<<issue.checkout, {x \in Runs : Ended(x)}>>
  BY <1>16 DEF ReadOwner, Ended
<1>17. ASSUME NEW c \in Calls, AdoptUnowned(c)
       PROVE  [Owner!Next]_<<issue.checkout, {x \in Runs : Ended(x)}>>
  <2>1. CASE UNCHANGED issue
    BY <1>17, <2>1 DEF AdoptUnowned, Ended
  <2>2. CASE /\ StillUnowned(c)
             /\ issue' = [issue EXCEPT !.checkout = call[c].run, !.lock = call[c].run]
    <3>1. issue'.checkout = call[c].run /\ call[c].run \in Runs \cup {NoRun}
      BY <2>2 DEF TypeOK, CallRecords
    <3>2. issue.checkout = NoRun \/ issue.checkout \in {x \in Runs : Ended(x)}
      BY <1>17, <2>2 DEF AdoptUnowned, StillUnowned, At, Decided, DecidedCall
    <3>3. UNCHANGED row
      BY <1>17 DEF AdoptUnowned
    <3> QED
      BY <3>1, <3>2, <3>3 DEF Owner!Next, Owner!Lose, Owner!Take, Ended
  <2> QED
    BY <1>17, <2>1, <2>2 DEF AdoptUnowned
<1>18. ASSUME NEW c \in Calls, AdoptStale(c)
       PROVE  [Owner!Next]_<<issue.checkout, {x \in Runs : Ended(x)}>>
  <2>1. CASE UNCHANGED issue
    BY <1>18, <2>1 DEF AdoptStale, Ended
  <2>2. CASE StillStale(c) /\ issue' = [issue EXCEPT !.checkout = call[c].run, !.lock = call[c].run]
    <3>1. issue'.checkout = call[c].run /\ call[c].run \in Runs \cup {NoRun}
      BY <2>2 DEF TypeOK, CallRecords
    <3>2. issue.checkout = NoRun \/ issue.checkout \in {x \in Runs : Ended(x)}
      BY <1>18, <2>2 DEF AdoptStale, StillStale, At, Decided, DecidedCall
    <3>3. UNCHANGED row
      BY <1>18 DEF AdoptStale
    <3> QED
      BY <3>1, <3>2, <3>3 DEF Owner!Next, Owner!Lose, Owner!Take, Ended
  <2> QED
    BY <1>18, <2>1, <2>2 DEF AdoptStale
<1>19. ASSUME NEW c \in Calls, UpdateRead(c)
       PROVE  [Owner!Next]_<<issue.checkout, {x \in Runs : Ended(x)}>>
  BY <1>19 DEF UpdateRead, Ended
<1>20. ASSUME NEW c \in Calls, UpdateWrite(c)
       PROVE  [Owner!Next]_<<issue.checkout, {x \in Runs : Ended(x)}>>
  BY <1>20 DEF UpdateWrite, Owner!Next, Owner!Lose, Owner!End, Owner!Take, Ended
<1>21. ASSUME NEW c \in Calls, ReleaseRead(c)
       PROVE  [Owner!Next]_<<issue.checkout, {x \in Runs : Ended(x)}>>
  BY <1>21 DEF ReleaseRead, Ended
<1>22. ASSUME NEW c \in Calls, ReleaseStale(c)
       PROVE  [Owner!Next]_<<issue.checkout, {x \in Runs : Ended(x)}>>
  BY <1>22 DEF ReleaseStale, Ended
<1>23. ASSUME NEW c \in Calls, ReleaseWrite(c)
       PROVE  [Owner!Next]_<<issue.checkout, {x \in Runs : Ended(x)}>>
  BY <1>23 DEF ReleaseWrite, Owner!Next, Owner!Lose, Owner!End, Owner!Take, Ended
<1>24. CASE UNCHANGED vars
  BY <1>24 DEF vars, Ended
<1> QED
  BY <1>1, <1>2, <1>3, <1>4, <1>5, <1>6, <1>7, <1>8, <1>9, <1>10, <1>11,
     <1>12, <1>13, <1>14, <1>15, <1>16, <1>17, <1>18, <1>19, <1>20, <1>21,
     <1>22, <1>23, <1>24 DEF Next, CallStep

(* IssueCheckout implements IssueOwner: the checkout of a live run never      *)
(* passes straight to another run, whatever calls overlap.                    *)
THEOREM OwnerImplemented == Spec => ImplementsOwner
<1>1. Init => Owner!Init
  BY CheckoutAssumption DEF Init, Begun, Owner!Init, Ended
<1>2. CheckoutInv /\ [Next]_vars => [Owner!Next]_<<issue.checkout, {r \in Runs : Ended(r)}>>
  BY OwnerStep
<1> QED
  BY <1>1, <1>2, CheckoutInvariant, PTL DEF Spec, ImplementsOwner, Owner!Spec

LockMoves ==
    (Live(issue.lock) /\ issue'.lock \notin {NoRun, issue.lock}) =>
       /\ issue.checkout \in Runs /\ Ended(issue.checkout)
       /\ issue'.checkout = issue'.lock

LEMMA LockMoveStep ==
    ASSUME CheckoutInv, [Next]_vars
    PROVE  LockMoves
<1> USE CheckoutAssumption DEF LockMoves
<1>1. ASSUME NEW r \in Runs, ClaimUpdate(r) PROVE LockMoves
  BY <1>1 DEF ClaimUpdate, TypeOK, CheckoutInv
<1>2. ASSUME NEW r \in Runs, StampLock(r) PROVE LockMoves
  BY <1>2 DEF StampLock, Live, TypeOK, CheckoutInv
<1>3. ASSUME NEW r \in Runs, RunEnds(r) PROVE LockMoves
  BY <1>3 DEF RunEnds, TypeOK, CheckoutInv
<1>4. ASSUME NEW r \in Runs, DropLock(r) PROVE LockMoves
  BY <1>4 DEF DropLock, Live, TypeOK, CheckoutInv
<1>5. ASSUME NEW r \in Runs, HandLock(r) PROVE LockMoves
  BY <1>5 DEF HandLock, Live, TypeOK, CheckoutInv
<1>6. ASSUME NEW c \in Calls, NEW r \in Runs, AgentCheckout(c, r) PROVE LockMoves
  BY <1>6 DEF AgentCheckout, Begin
<1>7. ASSUME NEW c \in Calls, NEW r \in Runs, AgentPatch(c, r) PROVE LockMoves
  BY <1>7 DEF AgentPatch, Begin
<1>8. ASSUME NEW c \in Calls, NEW r \in Runs, AgentRelease(c, r) PROVE LockMoves
  BY <1>8 DEF AgentRelease, Begin
<1>9. ASSUME NEW c \in Calls, NEW a \in Agents, BoardCheckout(c, a) PROVE LockMoves
  BY <1>9 DEF BoardCheckout, Begin
<1>10. ASSUME NEW c \in Calls, BoardPatch(c) PROVE LockMoves
  BY <1>10 DEF BoardPatch, Begin
<1>11. ASSUME NEW c \in Calls, BoardRelease(c) PROVE LockMoves
  BY <1>11 DEF BoardRelease, Begin
<1>12. ASSUME ForceRelease PROVE LockMoves
  BY <1>12 DEF ForceRelease, TypeOK, CheckoutInv
<1>13. ASSUME NEW c \in Calls, Route(c) PROVE LockMoves
  BY <1>13 DEF Route, TypeOK, CheckoutInv
<1>14. ASSUME NEW c \in Calls, ClearIfTerminal(c) PROVE LockMoves
  BY <1>14 DEF ClearIfTerminal, TypeOK, CheckoutInv
<1>15. ASSUME NEW c \in Calls, CheckoutUpdate(c) PROVE LockMoves
  BY <1>15 DEF CheckoutUpdate, CheckoutFree, Unlocked, Live, TypeOK, CheckoutInv
<1>16. ASSUME NEW c \in Calls, ReadOwner(c) PROVE LockMoves
  BY <1>16 DEF ReadOwner, TypeOK, CheckoutInv
<1>17. ASSUME NEW c \in Calls, AdoptUnowned(c) PROVE LockMoves
  BY <1>17 DEF AdoptUnowned, StillUnowned, Unlocked, Live, TypeOK, CheckoutInv
<1>18. ASSUME NEW c \in Calls, AdoptStale(c) PROVE LockMoves
  <2>1. CASE UNCHANGED issue
    BY <2>1
  <2>2. CASE StillStale(c) /\ issue' = [issue EXCEPT !.checkout = call[c].run, !.lock = call[c].run]
    <3>1. issue'.checkout = issue'.lock
      BY <2>2 DEF CheckoutInv, TypeOK
    <3>2. issue.checkout \in Runs /\ Ended(issue.checkout)
      BY <1>18, <2>2 DEF AdoptStale, StillStale, At, CheckoutInv, Decided, DecidedCall
    <3> QED
      BY <3>1, <3>2
  <2> QED
    BY <1>18, <2>1, <2>2 DEF AdoptStale
<1>19. ASSUME NEW c \in Calls, UpdateRead(c) PROVE LockMoves
  BY <1>19 DEF UpdateRead, TypeOK, CheckoutInv
<1>20. ASSUME NEW c \in Calls, UpdateWrite(c) PROVE LockMoves
  BY <1>20 DEF UpdateWrite, TypeOK, CheckoutInv
<1>21. ASSUME NEW c \in Calls, ReleaseRead(c) PROVE LockMoves
  BY <1>21 DEF ReleaseRead, TypeOK, CheckoutInv
<1>22. ASSUME NEW c \in Calls, ReleaseStale(c) PROVE LockMoves
  BY <1>22 DEF ReleaseStale, TypeOK, CheckoutInv
<1>23. ASSUME NEW c \in Calls, ReleaseWrite(c) PROVE LockMoves
  BY <1>23 DEF ReleaseWrite, TypeOK, CheckoutInv
<1>24. CASE UNCHANGED vars
  BY <1>24 DEF vars
<1> QED
  BY <1>1, <1>2, <1>3, <1>4, <1>5, <1>6, <1>7, <1>8, <1>9, <1>10, <1>11,
     <1>12, <1>13, <1>14, <1>15, <1>16, <1>17, <1>18, <1>19, <1>20, <1>21,
     <1>22, <1>23, <1>24 DEF Next, CallStep

(* A live run loses its lock to another run only when that one adopts the     *)
(* checkout of an ended run.                                                  *)
THEOREM LockMovesOnlyByAdoption == Spec => LockMovesByAdoption
<1>1. CheckoutInv /\ [Next]_vars => [LockMoves]_vars
  BY LockMoveStep
<1> QED
  BY <1>1, CheckoutInvariant, PTL DEF Spec, LockMovesByAdoption, LockMoves

ReleaseSpares ==
    \A c \in Calls :
       (ReleaseWrite(c) /\ call[c].agent # NoAgent /\ Live(issue.checkout)
           /\ issue.checkout # call[c].run)
          => call[c].unassigned \/ issue.checkout # call[c].seen

(* An agent's release takes from a live run only what it has not seen, or     *)
(* what it saw on an issue without an agent.                                  *)
THEOREM ReleaseSparesSeen == Spec => ReleaseSparesWhatItSaw
<1>1. CheckoutInv => ReleaseSpares
  BY DEF CheckoutInv, Decided, DecidedCall, ReleaseSpares, ReleaseWrite, At
<1> QED
  BY <1>1, CheckoutInvariant, PTL DEF Spec, ReleaseSparesWhatItSaw, ReleaseSpares
=============================================================================
