--------------------------- MODULE Routines_proofs ---------------------------
(*****************************************************************************)
(* What holds of a routine's dispatches whatever the number of requests,     *)
(* ticks, issues, edits and crashes, the horizon and the cap.                *)
(*****************************************************************************)
EXTENDS Routines, FiniteSetTheorems, TLAPS

LEMMA IdleTyped == Idle \in CallRecords
  BY NumberAssumption DEF Idle, CallRecords, Moments, Statuses

(* A tick counts at least one moment, none of them later than now, and the   *)
(* cursor moves past them.                                                   *)
LEMMA CatchUp ==
    ASSUME TypeOK, Due
    PROVE  /\ Missed \in Nat \ {0}
           /\ After \in Moments
           /\ trigger.nextRunAt + Missed <= After
           /\ trigger.nextRunAt + Missed - 1 <= now
<1>1. now \in 0..Horizon /\ trigger.nextRunAt \in 0..(Horizon + 1) /\ trigger.nextRunAt <= now
  BY DEF Due, TypeOK, Moments
<1>2. CASE routine.catchUp = "skip_missed"
  BY <1>1, <1>2, NumberAssumption DEF Missed, After, Moments
<1>3. CASE routine.catchUp # "skip_missed"
  <2>1. Missed = IF now - trigger.nextRunAt + 1 < Cap THEN now - trigger.nextRunAt + 1 ELSE Cap
    BY <1>3 DEF Missed
  <2>2. After = trigger.nextRunAt + Missed
    BY <1>3 DEF After
  <2> QED
    BY <1>1, <2>1, <2>2, NumberAssumption DEF Moments
<1> QED
  BY <1>2, <1>3

(* What ends a transaction keeps the types.                                  *)
LEMMA CommitTyped ==
    ASSUME TypeOK, NEW c \in Calls, Commit(c)
    PROVE  /\ holder' \in Calls \cup {NoCall}
           /\ trigger' \in [enabled : BOOLEAN, nextRunAt : Moments]
           /\ call' \in [Calls -> CallRecords]
           /\ overran' \in BOOLEAN
<1> DEFINE again == [Idle EXCEPT !.pc = "lock", !.source = "dispatch",
                                 !.touches = TRUE, !.left = call[c].left - 1]
<1>1. call[c] \in CallRecords
  BY DEF TypeOK
<1>2. call[c].at + 1 \in Moments
  BY <1>1, NumberAssumption DEF CallRecords, Moments
<1>3. call[c].left > 1 => again \in CallRecords
  <2>1. call[c].left > 1 => call[c].left - 1 \in Nat
    BY <1>1 DEF CallRecords
  <2> QED
    BY <2>1, IdleTyped DEF Idle, CallRecords
<1>4. call' \in [Calls -> CallRecords]
  BY <1>3, IdleTyped DEF Commit, TypeOK
<1>5. trigger' \in [enabled : BOOLEAN, nextRunAt : Moments]
  BY <1>2 DEF Commit, TypeOK
<1> QED
  BY <1>4, <1>5 DEF Commit, TypeOK

(* A call whose program counter alone changes.                               *)
LEMMA GoToTyped ==
    ASSUME call \in [Calls -> CallRecords], NEW c,
           NEW pc \in {"idle", "claim", "lock", "create", "wake", "start", "pass", "finish", "undo"}
    PROVE  [call EXCEPT ![c].pc = pc] \in [Calls -> CallRecords]
<1>1. ASSUME NEW x \in CallRecords PROVE [x EXCEPT !.pc = pc] \in CallRecords
  BY DEF CallRecords
<1> QED
  BY <1>1

(* An issue whose run alone changes.                                         *)
LEMMA RunTyped ==
    ASSUME issue \in [Issues -> IssueRows], NEW i,
           NEW run \in {"none", "queued", "claimed", "executing", "orphan"}
    PROVE  [issue EXCEPT ![i].run = run] \in [Issues -> IssueRows]
  BY DEF IssueRows

LEMMA RunsTyped ==
    ASSUME issue \in [Issues -> IssueRows],
           NEW run \in {"none", "queued", "claimed", "executing", "orphan"}, Become(run)
    PROVE  issue' \in [Issues -> IssueRows]
  BY DEF Become, IssueRows

(* An issue that has been woken.                                             *)
LEMMA WokenTyped ==
    ASSUME issue \in [Issues -> IssueRows], NEW i \in Issues
    PROVE  /\ Woken(i) \in IssueRows
           /\ Woken(i).state = issue[i].state /\ Woken(i).by = issue[i].by
           /\ Woken(i).run # "none"
           /\ Woken(i).lock = "held" => issue[i].state = "open"
           /\ issue[i].run # "none" => Woken(i).run = issue[i].run
<1>1. issue[i] \in IssueRows
  OBVIOUS
<1>2. CASE issue[i].run = "none"
  <2>1. Woken(i) = [issue[i] EXCEPT !.run = "queued", !.lock = "free"]
    BY <1>2 DEF Woken
  <2> QED
    BY <1>1, <1>2, <2>1 DEF IssueRows
<1>3. CASE issue[i].run # "none"
  <2>1. PICK lock \in {"held", "free"} :
          /\ Woken(i) = [issue[i] EXCEPT !.lock = lock]
          /\ lock = "held" => issue[i].state = "open"
    BY <1>3 DEF Woken
  <2> QED
    BY <1>1, <1>3, <2>1 DEF IssueRows
<1> QED
  BY <1>2, <1>3

(* A run that is over.                                                       *)
LEMMA OverTyped ==
    ASSUME issue \in [Issues -> IssueRows], NEW i \in Issues, Over(i)
    PROVE  /\ issue' \in [Issues -> IssueRows]
           /\ \A j \in Issues \ {i} : issue'[j] = issue[j]
           /\ issue'[i].state = issue[i].state /\ issue'[i].run = "none" /\ issue'[i].lock # "held"
<1>1. PICK lock : /\ issue' = [issue EXCEPT ![i] = [issue[i] EXCEPT !.run = "none", !.lock = lock]]
                  /\ lock = IF issue[i].lock = "held" THEN "stale" ELSE issue[i].lock
  BY DEF Over
<1>2. issue[i] \in IssueRows
  OBVIOUS
<1>3. lock \in {"free", "stale"}
  BY <1>1, <1>2 DEF IssueRows
<1> DEFINE new == [issue[i] EXCEPT !.run = "none", !.lock = lock]
<1>4. /\ new \in IssueRows
      /\ new.state = issue[i].state /\ new.run = "none" /\ new.lock = lock
  BY <1>2, <1>3 DEF IssueRows
<1> HIDE DEF new
<1>5. issue' = [issue EXCEPT ![i] = new]
  BY <1>1 DEF new
<1> QED
  BY <1>3, <1>4, <1>5

LEMMA TypeStep ==
    ASSUME TypeOK, [Next]_vars
    PROVE  TypeOK'
<1> USE NumberAssumption
<1>1. ASSUME NEW c \in Calls, TickRead(c) PROVE TypeOK'
  <2>1. Missed \in Nat /\ After \in Moments /\ trigger.nextRunAt \in Moments
    BY <1>1, CatchUp DEF TickRead, TypeOK
  <2>2. [Idle EXCEPT !.pc = "claim", !.source = "dispatch", !.touches = TRUE,
                     !.slot = trigger.nextRunAt, !.next = After, !.left = Missed] \in CallRecords
    BY <2>1, IdleTyped DEF Idle, CallRecords
  <2>3. left' \in [dispatches : Nat, edits : Nat, crashes : Nat, cancels : Nat]
    <3> DEFINE n == Missed
    <3>1. n \in Nat /\ n <= left.dispatches /\ left' = [left EXCEPT !.dispatches = @ - n]
      BY <1>1, <2>1 DEF TickRead
    <3> HIDE DEF n
    <3> QED
      BY <3>1 DEF TypeOK
  <2> QED
    BY <1>1, <2>2, <2>3 DEF TickRead, TypeOK, rows, history
<1>2. ASSUME NEW c \in Calls, Request(c) PROVE TypeOK'
  <2>1. PICK touches \in BOOLEAN :
          call' = [call EXCEPT ![c] = [Idle EXCEPT !.pc = "lock", !.source = "dispatch",
                                                   !.touches = touches, !.left = 1]]
    BY <1>2 DEF Request
  <2>2. call' \in [Calls -> CallRecords]
    BY <2>1, IdleTyped DEF Idle, CallRecords, TypeOK
  <2> QED
    BY <1>2, <2>2 DEF Request, TypeOK, rows, history
<1>3. ASSUME NEW c \in Calls, PatchRead(c) PROVE TypeOK'
  <2>1. PICK status \in Statuses :
          call' = [call EXCEPT ![c] = [Idle EXCEPT !.pc = "lock", !.source = "patch",
                                                   !.status = status]]
    BY <1>3 DEF PatchRead
  <2>2. call' \in [Calls -> CallRecords]
    BY <2>1, IdleTyped DEF Idle, CallRecords, TypeOK
  <2> QED
    BY <1>3, <2>2 DEF PatchRead, TypeOK, rows, history
<1>4. ASSUME NEW c \in Calls, RetriggerRead(c) PROVE TypeOK'
  <2>1. PICK enabled \in BOOLEAN :
          call' = [call EXCEPT ![c] = [Idle EXCEPT !.pc = "lock", !.source = "retrigger",
                                                   !.enabled = enabled, !.at = now]]
    BY <1>4 DEF RetriggerRead
  <2>2. call' \in [Calls -> CallRecords]
    BY <2>1, IdleTyped DEF Idle, CallRecords, TypeOK
  <2> QED
    BY <1>4, <2>2 DEF RetriggerRead, TypeOK, rows, history
<1>5. ASSUME NEW c \in Calls, TickClaim(c) PROVE TypeOK'
  <2>1. call[c] \in CallRecords
    BY DEF TypeOK
  <2>2. [Idle EXCEPT !.pc = "lock", !.source = "dispatch", !.touches = TRUE,
                     !.left = call[c].left] \in CallRecords
    BY <2>1, IdleTyped DEF Idle, CallRecords
  <2>3. call' \in [Calls -> CallRecords]
    BY <1>5, <2>2, IdleTyped DEF TickClaim, TypeOK
  <2>4. trigger' \in [enabled : BOOLEAN, nextRunAt : Moments]
    BY <1>5, <2>1 DEF TickClaim, TypeOK, CallRecords
  <2>5. fired' \in [Moments -> Nat]
    BY <1>5 DEF TickClaim, TypeOK
  <2> QED
    BY <1>5, <2>3, <2>4, <2>5 DEF TickClaim, TypeOK
<1>6. ASSUME NEW c \in Calls, Lock(c) PROVE TypeOK'
  <2>1. Verdict \in {"finish", "create"}
    BY DEF Verdict
  <2>2. call[c] \in CallRecords /\ Counted(c) \in 0..Horizon
    BY DEF Counted, TypeOK
  <2>3. [call[c] EXCEPT !.pc = Verdict, !.at = Counted(c)] \in CallRecords
    BY <2>1, <2>2 DEF CallRecords
  <2>4. call' = [call EXCEPT ![c] = [call[c] EXCEPT !.pc = Verdict, !.at = Counted(c)]]
    BY <1>6 DEF Lock, TypeOK
  <2>5. call' \in [Calls -> CallRecords]
    BY <2>3, <2>4 DEF TypeOK
  <2> QED
    BY <1>6, <2>5 DEF Lock, TypeOK, rows, history
<1>7. ASSUME NEW c \in Calls, Create(c) PROVE TypeOK'
  <2>1. PICK i \in Issues : /\ issue' = [issue EXCEPT ![i].state = "open"]
                            /\ call' = [call EXCEPT ![c].pc = "wake", ![c].issue = i]
    BY <1>7 DEF Create
  <2>2. issue' \in [Issues -> IssueRows]
    BY <2>1 DEF IssueRows, TypeOK
  <2>3. call[c] \in CallRecords
    BY DEF TypeOK
  <2>4. [call[c] EXCEPT !.pc = "wake", !.issue = i] \in CallRecords
    BY <2>3 DEF CallRecords
  <2>5. call' = [call EXCEPT ![c] = [call[c] EXCEPT !.pc = "wake", !.issue = i]]
    BY <2>1 DEF TypeOK
  <2>6. call' \in [Calls -> CallRecords]
    BY <2>4, <2>5 DEF TypeOK
  <2> QED
    BY <1>7, <2>2, <2>6 DEF Create, TypeOK, history
<1>8. ASSUME NEW c \in Calls, Wake(c) PROVE TypeOK'
  <2>1. call' \in [Calls -> CallRecords]
    <3>1. call \in [Calls -> CallRecords]
      BY DEF TypeOK
    <3>2. \E pc \in {"start", "undo", "finish"} : call' = [call EXCEPT ![c].pc = pc]
      BY <1>8 DEF Wake, GoTo
    <3>3. \A pc \in {"start", "undo", "finish"} :
            [call EXCEPT ![c].pc = pc] \in [Calls -> CallRecords]
      BY <3>1, GoToTyped
    <3> QED
      BY <3>2, <3>3
  <2>2. issue' \in [Issues -> IssueRows]
    <3> DEFINE k == call[c].issue
    <3>1. issue' = issue \/ issue' = [issue EXCEPT ![k] = Woken(k)]
      BY <1>8 DEF Wake
    <3>2. issue \in [Issues -> IssueRows]
      BY DEF TypeOK
    <3> HIDE DEF k
    <3>3. CASE k \in Issues
      BY <3>1, <3>2, <3>3, WokenTyped
    <3>4. CASE k \notin Issues
      BY <3>1, <3>2, <3>4
    <3> QED
      BY <3>3, <3>4
  <2> QED
    BY <1>8, <2>1, <2>2 DEF Wake, TypeOK, history
<1>9. ASSUME NEW c \in Calls, PassBegin(c) PROVE TypeOK'
  <2>1. call' \in [Calls -> CallRecords]
    BY <1>9, GoToTyped DEF PassBegin, GoTo, TypeOK
  <2> QED
    BY <1>9, <2>1 DEF PassBegin, NoPass, TypeOK, rows, history
<1>10. ASSUME NEW c \in Calls, Finish(c) PROVE TypeOK'
  BY <1>10, CommitTyped DEF Finish, TypeOK
<1>11. ASSUME NEW c \in Calls, Undo(c) PROVE TypeOK'
  <2>1. issue' \in [Issues -> IssueRows]
    <3> DEFINE i == call[c].issue
    <3>1. issue' = [issue EXCEPT ![i].state = "deleted", ![i].lock = "free"]
      BY <1>11 DEF Undo
    <3>2. issue \in [Issues -> IssueRows]
      BY DEF TypeOK
    <3> HIDE DEF i
    <3>3. CASE i \in Issues
      <4>1. issue' = [issue EXCEPT ![i] = [issue[i] EXCEPT !.state = "deleted", !.lock = "free"]]
        BY <3>1, <3>2, <3>3
      <4>2. [issue[i] EXCEPT !.state = "deleted", !.lock = "free"] \in IssueRows
        BY <3>2, <3>3 DEF IssueRows
      <4> QED
        BY <3>2, <4>1, <4>2
    <3>4. CASE i \notin Issues
      BY <3>1, <3>2, <3>4
    <3> QED
      BY <3>3, <3>4
  <2> QED
    BY <1>11, <2>1, CommitTyped DEF Undo, TypeOK
<1>12. ASSUME NEW c \in Calls, PatchWrite(c) PROVE TypeOK'
  <2>1. call[c].status \in Statuses
    BY DEF TypeOK, CallRecords
  <2>2. call' \in [Calls -> CallRecords]
    BY <1>12, IdleTyped DEF PatchWrite, TypeOK
  <2> QED
    BY <1>12, <2>1, <2>2 DEF PatchWrite, TypeOK, history
<1>13. ASSUME NEW c \in Calls, RetriggerWrite(c) PROVE TypeOK'
  <2>1. call[c].enabled \in BOOLEAN /\ call[c].at + 1 \in Moments
    <3>1. call[c] \in CallRecords
      BY DEF TypeOK
    <3> QED
      BY <3>1 DEF CallRecords, Moments
  <2>2. call' \in [Calls -> CallRecords]
    BY <1>13, IdleTyped DEF RetriggerWrite, TypeOK
  <2> QED
    BY <1>13, <2>1, <2>2 DEF RetriggerWrite, TypeOK
<1>14. ASSUME OtherPass PROVE TypeOK'
  BY <1>14 DEF OtherPass, NoPass, TypeOK, rows, history
<1>15. ASSUME NEW i \in Issues, Claim(i) PROVE TypeOK'
  <2>1. issue' \in [Issues -> IssueRows]
    <3>1. issue \in [Issues -> IssueRows]
      BY DEF TypeOK
    <3>2. \/ issue' = [issue EXCEPT ![i].run = "claimed"]
          \/ issue' = [issue EXCEPT ![i].run = "none"]
      BY <1>15 DEF Claim
    <3>3. [issue EXCEPT ![i].run = "claimed"] \in [Issues -> IssueRows]
      BY <3>1, RunTyped
    <3>4. [issue EXCEPT ![i].run = "none"] \in [Issues -> IssueRows]
      BY <3>1, RunTyped
    <3> QED
      BY <3>2, <3>3, <3>4
  <2> QED
    BY <1>15, <2>1 DEF Claim, TypeOK, history
<1>16. ASSUME Stamp PROVE TypeOK'
  <2>1. issue' \in [Issues -> IssueRows]
    <3>1. PICK lock \in {"free", "held", "stale"} : issue' = [issue EXCEPT ![pass.target].lock = lock]
      BY <1>16 DEF Stamp, TypeOK, IssueRows
    <3>2. issue \in [Issues -> IssueRows]
      BY DEF TypeOK
    <3>3. ASSUME NEW x \in IssueRows PROVE [x EXCEPT !.lock = lock] \in IssueRows
      BY DEF IssueRows
    <3> QED
      BY <3>1, <3>2, <3>3
  <2>2. pass.target \in Issues
    BY <1>16 DEF Stamp, TypeOK
  <2> QED
    BY <1>16, <2>1, <2>2 DEF Stamp, TypeOK, history
<1>17. ASSUME StampRefused PROVE TypeOK'
  <2>1. issue' \in [Issues -> IssueRows]
    BY <1>17, RunsTyped DEF StampRefused, TypeOK
  <2>2. call' \in [Calls -> CallRecords]
    BY <1>17, GoToTyped DEF StampRefused, TypeOK
  <2> QED
    BY <1>17, <2>1, <2>2 DEF StampRefused, NoPass, TypeOK, history
<1>18. ASSUME PassEnd PROVE TypeOK'
  <2>1. issue' \in [Issues -> IssueRows]
    BY <1>18, RunsTyped DEF PassEnd, TypeOK
  <2>2. call' \in [Calls -> CallRecords]
    BY <1>18, GoToTyped DEF PassEnd, TypeOK
  <2> QED
    BY <1>18, <2>1, <2>2 DEF PassEnd, NoPass, TypeOK, history
<1>19. ASSUME NEW i \in Issues,
              RunEnds(i) \/ Cancel(i) \/ Release(i) \/ Close(i) \/ OtherWake(i)
       PROVE  TypeOK'
  <2>1. issue' \in [Issues -> IssueRows]
    <3>1. CASE RunEnds(i) \/ Cancel(i)
      BY <3>1, OverTyped DEF RunEnds, Cancel, TypeOK
    <3>2. CASE Release(i)
      BY <3>2 DEF Release, IssueRows, TypeOK
    <3>3. CASE Close(i)
      <4>1. issue \in [Issues -> IssueRows]
        BY DEF TypeOK
      <4>2. [issue[i] EXCEPT !.state = "closed", !.lock = "free"] \in IssueRows
        BY <4>1 DEF IssueRows
      <4>3. issue' = [issue EXCEPT ![i] = [issue[i] EXCEPT !.state = "closed", !.lock = "free"]]
        BY <3>3, <4>1 DEF Close
      <4> QED
        BY <4>1, <4>2, <4>3
    <3>4. CASE OtherWake(i)
      <4>1. Woken(i) \in IssueRows
        BY WokenTyped DEF TypeOK
      <4>2. \A b \in {"dispatch", "other"} : [Woken(i) EXCEPT !.by = b] \in IssueRows
        BY <4>1 DEF IssueRows
      <4>3. PICK b \in {"dispatch", "other"} :
              issue' = [issue EXCEPT ![i] = [Woken(i) EXCEPT !.by = b]]
        BY <3>4, <4>1 DEF OtherWake, IssueRows
      <4> QED
        BY <4>2, <4>3 DEF TypeOK
    <3> QED
      BY <1>19, <3>1, <3>2, <3>3, <3>4
  <2>2. left' \in [dispatches : Nat, edits : Nat, crashes : Nat, cancels : Nat]
    BY <1>19 DEF RunEnds, Cancel, Release, Close, OtherWake, TypeOK
  <2> QED
    BY <1>19, <2>1, <2>2 DEF RunEnds, Cancel, Release, Close, OtherWake, TypeOK, history
<1>20. ASSUME TimePasses PROVE TypeOK'
  BY <1>20 DEF TimePasses, TypeOK, rows, history
<1>21. ASSUME Crash PROVE TypeOK'
  <2>1. issue' \in [Issues -> IssueRows]
    BY <1>21 DEF Crash, IssueRows, TypeOK
  <2>2. call' \in [Calls -> CallRecords]
    BY <1>21, IdleTyped DEF Crash
  <2> QED
    BY <1>21, <2>1, <2>2 DEF Crash, NoPass, TypeOK, history
<1>22. CASE UNCHANGED vars
  BY <1>22 DEF vars, rows, history, TypeOK
<1> QED
  BY <1>1, <1>2, <1>3, <1>4, <1>5, <1>6, <1>7, <1>8, <1>9, <1>10, <1>11, <1>12, <1>13, <1>14,
     <1>15, <1>16, <1>17, <1>18, <1>19, <1>20, <1>21, <1>22
     DEF Next, Arrival, CallStep, PassStep

LEMMA TypeInit == Init => TypeOK
<1> SUFFICES ASSUME Init PROVE TypeOK
  OBVIOUS
<1>1. PICK s \in Setups :
        /\ routine = [status |-> "active", policy |-> s.policy, catchUp |-> s.catchUp]
        /\ left = [dispatches |-> Cardinality(Issues), edits |-> s.edits, crashes |-> s.crashes,
                   cancels |-> s.cancels]
  BY DEF Init
<1>2. Cardinality(Issues) \in Nat
  BY IssueAssumption, FS_CardinalityType
<1>3. NoRow \in IssueRows
  BY DEF NoRow, IssueRows
<1>4. fired \in [Moments -> Nat]
  BY DEF Init
<1>5. routine \in [status : Statuses, policy : Policies, catchUp : CatchUps]
      /\ left \in [dispatches : Nat, edits : Nat, crashes : Nat, cancels : Nat]
  BY <1>1, <1>2, SetupAssumption DEF Statuses
<1>6. now \in 0..Horizon /\ trigger \in [enabled : BOOLEAN, nextRunAt : Moments]
  BY NumberAssumption DEF Init, Moments
<1> QED
  BY <1>3, <1>4, <1>5, <1>6, IdleTyped DEF Init, TypeOK, NoPass

(* The routine's records are well formed whatever is under way.              *)
THEOREM TypesKept == Spec => []TypeOK
  BY TypeInit, TypeStep, PTL DEF Spec

-----------------------------------------------------------------------------
(* The claims a tick has in hand lie before the moment it moves the cursor   *)
(* to, and what has been dispatched lies before the cursor, as long as no    *)
(* transaction has put the cursor back.                                      *)
ReadInv == \A c \in Calls :
    /\ call[c].at <= now
    /\ call[c].pc = "claim" =>
         /\ call[c].slot + call[c].left <= call[c].next
         /\ call[c].slot + call[c].left - 1 <= now
FiredBefore == \A m \in Moments :
    /\ fired[m] <= 1
    /\ fired[m] > 0 => m < trigger.nextRunAt /\ m <= now
FiredInv == ReadInv /\ (~overran => FiredBefore)

(* A call that does not begin to claim, and whose time is not later.         *)
LEMMA ReadKept ==
    ASSUME TypeOK, ReadInv, NEW c \in Calls, NEW new \in CallRecords,
           now' = now, call' = [call EXCEPT ![c] = new],
           new.pc # "claim", new.at <= now
    PROVE  ReadInv'
  BY DEF TypeOK, ReadInv

LEMMA FiredKept ==
    ASSUME ~overran => FiredBefore, UNCHANGED <<now, trigger, history>>
    PROVE  ~overran' => FiredBefore'
  BY DEF FiredBefore, history

(* A transaction that writes nextRunAt in the moment it was counted from.    *)
LEMMA RewriteKeepsFired ==
    ASSUME TypeOK, TypeOK', ~overran => FiredBefore, NEW at \in 0..Horizon,
           at <= now, trigger'.nextRunAt = at + 1, overran' = (overran \/ at < now),
           UNCHANGED <<now, fired>>
    PROVE  ~overran' => FiredBefore'
<1> SUFFICES ASSUME ~overran' PROVE FiredBefore'
  OBVIOUS
<1>1. at = now /\ FiredBefore
  <2>1. ~overran /\ ~(at < now)
    OBVIOUS
  <2>2. now \in 0..Horizon
    BY DEF TypeOK
  <2> QED
    BY <2>1, <2>2, NumberAssumption
<1>2. now \in Nat /\ \A m \in Moments : m \in Nat
  BY NumberAssumption DEF TypeOK, Moments
<1>3. fired' = fired /\ now' = now /\ trigger'.nextRunAt = now + 1
  BY <1>1
<1> QED
  BY <1>1, <1>2, <1>3 DEF FiredBefore

LEMMA CommitKeepsFired ==
    ASSUME TypeOK, TypeOK', FiredInv, NEW c \in Calls, Commit(c), UNCHANGED <<now, fired>>
    PROVE  FiredInv'
<1>1. call[c] \in CallRecords /\ call[c].at <= now
  BY DEF TypeOK, FiredInv, ReadInv
<1> DEFINE new == call'[c]
<1>2. new \in CallRecords /\ new.pc # "claim" /\ new.at = 0
      /\ call' = [call EXCEPT ![c] = new]
  <2>1. new \in CallRecords
    BY DEF TypeOK
  <2>2. call' = [call EXCEPT ![c] = new] /\ new.pc # "claim" /\ new.at = 0
    BY DEF Commit, Idle, TypeOK
  <2> QED
    BY <2>1, <2>2
<1>3. ReadInv'
  <2>1. 0 <= now
    BY NumberAssumption DEF TypeOK
  <2> HIDE DEF new
  <2> QED
    BY <1>2, <2>1, ReadKept DEF FiredInv
<1>4. ~overran' => FiredBefore'
  <2>1. CASE call[c].touches
    <3>1. trigger'.nextRunAt = call[c].at + 1 /\ overran' = (overran \/ call[c].at < now)
      BY <2>1 DEF Commit, TypeOK
    <3> QED
      BY <1>1, <3>1, RewriteKeepsFired DEF CallRecords, FiredInv
  <2>2. CASE ~call[c].touches
    BY <2>2 DEF Commit, FiredInv, FiredBefore
  <2> QED
    BY <2>1, <2>2
<1> QED
  BY <1>3, <1>4 DEF FiredInv

LEMMA FiredStep ==
    ASSUME TypeOK, TypeOK', FiredInv, [Next]_vars
    PROVE  FiredInv'
<1> USE NumberAssumption
<1>0. now \in 0..Horizon
  BY DEF TypeOK
<1>1. ASSUME NEW c \in Calls, TickRead(c) PROVE FiredInv'
  <2>1. /\ call'[c].pc = "claim" /\ call'[c].at = 0
        /\ call'[c].slot = trigger.nextRunAt /\ call'[c].next = After /\ call'[c].left = Missed
        /\ \A d \in Calls \ {c} : call'[d] = call[d]
    BY <1>1 DEF TickRead, Idle, TypeOK
  <2>2. trigger.nextRunAt + Missed <= After /\ trigger.nextRunAt + Missed - 1 <= now
    BY <1>1, CatchUp DEF TickRead
  <2>3. ReadInv'
    BY <1>0, <1>1, <2>1, <2>2 DEF TickRead, FiredInv, ReadInv
  <2> QED
    BY <1>1, <2>3, FiredKept DEF TickRead, FiredInv, rows
<1>2. ASSUME NEW c \in Calls, Request(c) \/ PatchRead(c) \/ RetriggerRead(c) PROVE FiredInv'
  <2>1. /\ call' = [call EXCEPT ![c] = call'[c]]
        /\ call'[c].pc = "lock" /\ call'[c].at \in {0, now}
    <3>1. call \in [Calls -> CallRecords]
      BY DEF TypeOK
    <3>3. CASE Request(c)
      BY <3>1, <3>3 DEF Request, Idle
    <3>4. CASE PatchRead(c)
      BY <3>1, <3>4 DEF PatchRead, Idle
    <3>5. CASE RetriggerRead(c)
      BY <3>1, <3>5 DEF RetriggerRead, Idle
    <3> QED
      BY <1>2, <3>3, <3>4, <3>5
  <2>2. call'[c] \in CallRecords /\ call'[c].at <= now
    BY <1>0, <2>1 DEF TypeOK
  <2>3. now' = now
    BY <1>2 DEF Request, PatchRead, RetriggerRead
  <2>4. ReadInv'
    BY <2>1, <2>2, <2>3, ReadKept DEF FiredInv
  <2> QED
    BY <1>2, <2>4, FiredKept DEF Request, PatchRead, RetriggerRead, FiredInv, rows
<1>3. ASSUME NEW c \in Calls, TickClaim(c) PROVE FiredInv'
  <2>1. /\ call' = [call EXCEPT ![c] = call'[c]]
        /\ call'[c].pc # "claim" /\ call'[c].at = 0
    <3>1. call \in [Calls -> CallRecords]
      BY DEF TypeOK
    <3>2. CASE trigger.enabled /\ trigger.nextRunAt = call[c].slot
      <4>1. call' = [call EXCEPT ![c] = [Idle EXCEPT !.pc = "lock", !.source = "dispatch",
                                         !.touches = TRUE, !.left = call[c].left]]
        BY <1>3, <3>2 DEF TickClaim
      <4> QED
        BY <3>1, <4>1 DEF Idle
    <3>3. CASE ~(trigger.enabled /\ trigger.nextRunAt = call[c].slot)
      BY <1>3, <3>1, <3>3 DEF TickClaim, Idle
    <3> QED
      BY <3>2, <3>3
  <2>2. call'[c] \in CallRecords /\ now' = now
    BY <1>3 DEF TickClaim, TypeOK
  <2>3. ReadInv'
    BY <1>0, <2>1, <2>2, ReadKept DEF FiredInv
  <2>4. ~overran' => FiredBefore'
    <3>1. CASE trigger.enabled /\ trigger.nextRunAt = call[c].slot
      <4> SUFFICES ASSUME ~overran' PROVE FiredBefore'
        OBVIOUS
      <4>1. FiredBefore /\ call[c] \in CallRecords
        BY <1>3 DEF TickClaim, FiredInv, TypeOK
      <4>2. trigger'.nextRunAt = call[c].next
        BY <1>3, <3>1 DEF TickClaim, TypeOK
      <4>3. call[c].slot + call[c].left <= call[c].next /\ call[c].slot + call[c].left - 1 <= now
        BY <1>3 DEF TickClaim, FiredInv, ReadInv
      <4>4. ASSUME NEW m \in Moments
            PROVE  fired'[m] <= 1 /\ (fired'[m] > 0 => m < trigger'.nextRunAt /\ m <= now')
        <5>1. fired'[m] = IF m \in Claimed(c) THEN fired[m] + 1 ELSE fired[m]
          BY <1>3, <3>1, <4>4 DEF TickClaim, TypeOK
        <5>2. fired[m] \in Nat /\ fired[m] <= 1 /\ (fired[m] > 0 => m < call[c].slot /\ m <= now)
          BY <3>1, <4>1, <4>4 DEF FiredBefore, TypeOK
        <5>3. m \in Claimed(c) => call[c].slot <= m /\ m <= call[c].slot + call[c].left - 1
          BY <4>1, <4>4 DEF Claimed, CallRecords, Moments
        <5>4. call[c].slot \in Nat /\ call[c].left \in Nat /\ call[c].next \in Nat /\ m \in Nat
          BY <4>1, <4>4 DEF CallRecords, Moments
        <5>5. CASE m \in Claimed(c)
          BY <1>0, <2>2, <4>2, <4>3, <5>1, <5>2, <5>3, <5>4, <5>5
        <5>6. CASE m \notin Claimed(c)
          <6>1. CASE fired[m] > 0
            BY <1>0, <2>2, <4>2, <4>3, <5>1, <5>2, <5>4, <5>6, <6>1
          <6>2. CASE ~(fired[m] > 0)
            BY <2>2, <5>1, <5>2, <5>6, <6>2
          <6> QED
            BY <6>1, <6>2
        <5> QED
          BY <5>5, <5>6
      <4> QED
        BY <4>4 DEF FiredBefore
    <3>2. CASE ~(trigger.enabled /\ trigger.nextRunAt = call[c].slot)
      BY <1>3, <3>2 DEF TickClaim, FiredInv, FiredBefore
    <3> QED
      BY <3>1, <3>2
  <2> QED
    BY <2>3, <2>4 DEF FiredInv
<1>4. ASSUME NEW c \in Calls, Lock(c) \/ Create(c) \/ Wake(c) \/ PassBegin(c) PROVE FiredInv'
  <2>1. /\ call' = [call EXCEPT ![c] = call'[c]]
        /\ call'[c].pc # "claim" /\ call'[c].at \in {0, now, call[c].at}
    BY <1>4 DEF Lock, Counted, Create, Wake, PassBegin, GoTo, Verdict, TypeOK, CallRecords
  <2>2. call'[c] \in CallRecords /\ call'[c].at <= now
    BY <1>0, <2>1 DEF TypeOK, FiredInv, ReadInv
  <2>3. UNCHANGED <<now, trigger, history>>
    BY <1>4 DEF Lock, Create, Wake, PassBegin, rows
  <2>4. ReadInv'
    BY <2>1, <2>2, <2>3, ReadKept DEF FiredInv
  <2> QED
    BY <2>3, <2>4, FiredKept DEF FiredInv
<1>5. ASSUME NEW c \in Calls, Finish(c) \/ Undo(c) PROVE FiredInv'
  BY <1>5, CommitKeepsFired DEF Finish, Undo
<1>6. ASSUME NEW c \in Calls, PatchWrite(c) \/ RetriggerWrite(c) PROVE FiredInv'
  <2>1. call' = [call EXCEPT ![c] = Idle] /\ now' = now /\ Idle.pc # "claim" /\ Idle.at = 0
       /\ Idle.at <= now
    BY <1>0, <1>6 DEF PatchWrite, RetriggerWrite, Idle
  <2>2. ReadInv'
    BY <2>1, IdleTyped, ReadKept DEF FiredInv
  <2>3. CASE PatchWrite(c)
    BY <2>2, <2>3, FiredKept DEF PatchWrite, FiredInv
  <2>4. CASE RetriggerWrite(c)
    <3>1. call[c] \in CallRecords /\ call[c].at <= now
      BY DEF TypeOK, FiredInv, ReadInv
    <3>2. trigger'.nextRunAt = call[c].at + 1 /\ overran' = (overran \/ call[c].at < now)
          /\ UNCHANGED <<now, fired>>
      BY <2>4 DEF RetriggerWrite
    <3>3. call[c].at \in 0..Horizon
      BY <3>1 DEF CallRecords
    <3> QED
      BY <2>2, <3>1, <3>2, <3>3, RewriteKeepsFired DEF FiredInv
  <2> QED
    BY <1>6, <2>3, <2>4
<1>7. ASSUME OtherPass \/ (\E i \in Issues : Claim(i)) \/ Stamp PROVE FiredInv'
  <2>1. UNCHANGED <<now, trigger, call, history>>
    BY <1>7 DEF OtherPass, Claim, Stamp, rows
  <2> QED
    BY <2>1, FiredKept DEF FiredInv, ReadInv
<1>8. ASSUME StampRefused \/ PassEnd PROVE FiredInv'
  <2>1. UNCHANGED <<now, trigger, history>>
    BY <1>8 DEF StampRefused, PassEnd
  <2>2. \/ call' = call
        \/ \E c \in Calls, pc \in {"undo", "finish"} : call' = [call EXCEPT ![c].pc = pc]
    BY <1>8 DEF StampRefused, PassEnd, TypeOK
  <2>3. ReadInv'
    <3>1. call \in [Calls -> CallRecords]
      BY DEF TypeOK
    <3>2. ASSUME NEW c \in Calls
          PROVE  /\ call'[c].at = call[c].at
                 /\ call'[c].pc = "claim" => call'[c] = call[c]
      BY <2>2, <3>1, <3>2 DEF CallRecords
    <3> QED
      BY <2>1, <3>2 DEF FiredInv, ReadInv
  <2> QED
    BY <2>1, <2>3, FiredKept DEF FiredInv
<1>9. ASSUME NEW i \in Issues, RunEnds(i) \/ Cancel(i) \/ Release(i) \/ Close(i) \/ OtherWake(i)
      PROVE  FiredInv'
  <2>1. UNCHANGED <<now, trigger, call, history>>
    BY <1>9 DEF RunEnds, Cancel, Release, Close, OtherWake
  <2> QED
    BY <2>1, FiredKept DEF FiredInv, ReadInv
<1>10. ASSUME TimePasses PROVE FiredInv'
  <2>1. now' = now + 1 /\ UNCHANGED <<trigger, call, history>>
    BY <1>10 DEF TimePasses, rows
  <2>2. ReadInv'
    <3> SUFFICES ASSUME NEW c \in Calls
                 PROVE  /\ call[c].at <= now + 1
                        /\ call[c].pc = "claim" =>
                             /\ call[c].slot + call[c].left <= call[c].next
                             /\ call[c].slot + call[c].left - 1 <= now + 1
      BY <2>1 DEF ReadInv
    <3>1. call[c].at \in Nat /\ call[c].slot \in Nat /\ call[c].left \in Nat /\ call[c].at <= now
      <4>1. call[c] \in CallRecords
        BY DEF TypeOK
      <4> QED
        BY <4>1, NumberAssumption DEF CallRecords, Moments, FiredInv, ReadInv
    <3>2. call[c].pc = "claim" => /\ call[c].slot + call[c].left <= call[c].next
                                  /\ call[c].slot + call[c].left - 1 <= now
      BY DEF FiredInv, ReadInv
    <3>3. now \in Nat
      BY <1>0, NumberAssumption
    <3> QED
      BY <3>1, <3>2, <3>3
  <2>3. ~overran' => FiredBefore'
    <3> SUFFICES ASSUME ~overran, NEW m \in Moments
                 PROVE  fired[m] <= 1 /\ (fired[m] > 0 => m < trigger.nextRunAt /\ m <= now + 1)
      BY <2>1 DEF FiredBefore, history
    <3>1. fired[m] <= 1 /\ (fired[m] > 0 => m < trigger.nextRunAt /\ m <= now)
      BY DEF FiredInv, FiredBefore
    <3>2. m \in Nat /\ now \in Nat
      BY <1>0, NumberAssumption DEF Moments
    <3> QED
      BY <3>1, <3>2
  <2> QED
    BY <2>2, <2>3 DEF FiredInv
<1>11. ASSUME Crash PROVE FiredInv'
  <2>1. ReadInv'
    BY <1>0, <1>11 DEF Crash, ReadInv, Idle
  <2> QED
    BY <1>11, <2>1, FiredKept DEF Crash, FiredInv
<1>12. CASE UNCHANGED vars
  BY <1>12, FiredKept DEF vars, rows, FiredInv, ReadInv
<1> QED
  BY <1>1, <1>2, <1>3, <1>4, <1>5, <1>6, <1>7, <1>8, <1>9, <1>10, <1>11, <1>12
     DEF Next, Arrival, CallStep, PassStep

LEMMA FiredInit == Init => FiredInv
  BY NumberAssumption DEF Init, FiredInv, ReadInv, FiredBefore, Idle, Moments

(* No moment of the schedule is dispatched twice before a transaction that   *)
(* rewrites nextRunAt has lasted into the next moment.                       *)
THEOREM FiredOnce == Spec => []FiredOnceUnlessOverrun
<1>1. FiredInv => FiredOnceUnlessOverrun
  BY DEF FiredInv, FiredBefore, FiredOnceUnlessOverrun
<1>2. TypeOK /\ FiredInv /\ [Next]_vars => TypeOK' /\ FiredInv'
  BY TypeStep, FiredStep
<1> QED
  BY <1>1, <1>2, TypeInit, FiredInit, PTL DEF Spec

-----------------------------------------------------------------------------
(* The routine's row is locked by the one call that dispatches; until it has *)
(* queued the run of its issue no other run of a dispatch is live; and a     *)
(* lock that is not stale belongs to a live run.                             *)
Dispatching == {"create", "wake", "start", "pass", "finish", "undo"}
LiveByDispatch(i) == Live(i) /\ issue[i].by = "dispatch"

Exclusive == \A c \in Calls : call[c].pc \in Dispatching => holder = c
OwnerPasses == pass.owner # NoCall => call[pass.owner].pc = "pass"
FreshRows == \A i \in Issues :
    issue[i].state = "none" => issue[i].run = "none" /\ issue[i].lock = "free"
WakesOwn == \A c \in Calls : call[c].pc = "wake" =>
    call[c].issue \in Issues /\ issue[call[c].issue].state # "none"
NoneLive == routine.policy # "always_enqueue" =>
    \A c \in Calls : call[c].pc \in {"create", "wake"} =>
        \A i \in Issues : ~LiveByDispatch(i)
HeldLive == \A i \in Issues :
    issue[i].lock = "held" => issue[i].state = "open" /\ issue[i].run # "none"

CallInv == Exclusive /\ OwnerPasses
IssueInv == FreshRows /\ HeldLive
DispatchInv == CallInv /\ IssueInv /\ WakesOwn /\ NoneLive /\ OneLiveDispatch

LEMMA TickClaimCall ==
    ASSUME TypeOK, NEW c \in Calls, TickClaim(c)
    PROVE  call'[c].pc \in {"idle", "lock"} /\ \A d \in Calls \ {c} : call'[d] = call[d]
<1> DEFINE again == [Idle EXCEPT !.pc = "lock", !.source = "dispatch",
                                 !.touches = TRUE, !.left = call[c].left]
<1>1. PICK new \in {Idle, again} : call' = [call EXCEPT ![c] = new]
  BY DEF TickClaim
<1>2. Idle.pc = "idle"
  BY DEF Idle
<1>3. again.pc = "lock"
  BY IdleTyped DEF CallRecords
<1> HIDE DEF again
<1> QED
  BY <1>1, <1>2, <1>3 DEF TypeOK

LEMMA CommitCall ==
    ASSUME TypeOK, NEW c \in Calls, Finish(c) \/ Undo(c)
    PROVE  /\ holder' = NoCall /\ pass' = pass
           /\ call[c].pc \in {"finish", "undo"} /\ call'[c].pc \in {"idle", "lock"}
           /\ \A d \in Calls \ {c} : call'[d] = call[d]
<1>1. Commit(c) /\ pass' = pass /\ call[c].pc \in {"finish", "undo"}
  BY DEF Finish, Undo
<1> QED
  BY <1>1 DEF Commit, Idle, TypeOK

(* The row lock and the pass of its holder.                                  *)
LEMMA CallStepKeeps ==
    ASSUME TypeOK, TypeOK', CallInv, [Next]_vars
    PROVE  CallInv'
<1> USE CallAssumption DEF CallInv, Exclusive, OwnerPasses, Dispatching
<1>0. call \in [Calls -> CallRecords] /\ pass.owner \in Calls \cup {NoCall}
  BY DEF TypeOK
<1>1. ASSUME NEW c \in Calls, Arrival(c) PROVE CallInv'
  <2>1. /\ \A d \in Calls \ {c} : call'[d] = call[d]
        /\ call[c].pc = "idle" /\ call'[c].pc \in {"claim", "lock"}
        /\ UNCHANGED <<holder, pass>>
    <3>1. CASE TickRead(c)
      BY <1>0, <3>1 DEF TickRead, Idle
    <3>2. CASE Request(c)
      BY <1>0, <3>2 DEF Request, Idle
    <3>3. CASE PatchRead(c)
      BY <1>0, <3>3 DEF PatchRead, Idle
    <3>4. CASE RetriggerRead(c)
      BY <1>0, <3>4 DEF RetriggerRead, Idle
    <3> QED
      BY <1>1, <3>1, <3>2, <3>3, <3>4 DEF Arrival
  <2> QED
    BY <1>0, <2>1
<1>2. ASSUME NEW c \in Calls, TickClaim(c) \/ PatchWrite(c) \/ RetriggerWrite(c) PROVE CallInv'
  <2>1. /\ \A d \in Calls \ {c} : call'[d] = call[d]
        /\ call[c].pc \in {"claim", "lock"} /\ call'[c].pc \in {"idle", "lock"}
        /\ UNCHANGED <<holder, pass>>
    <3>1. CASE TickClaim(c)
      <4>1. call[c].pc = "claim" /\ UNCHANGED <<holder, pass>>
        BY <3>1 DEF TickClaim
      <4> QED
        BY <3>1, <4>1, TickClaimCall
    <3>2. CASE PatchWrite(c)
      BY <1>0, <3>2 DEF PatchWrite, Idle
    <3>3. CASE RetriggerWrite(c)
      BY <1>0, <3>3 DEF RetriggerWrite, Idle
    <3> QED
      BY <1>2, <3>1, <3>2, <3>3
  <2> QED
    BY <1>0, <2>1
<1>3. ASSUME NEW c \in Calls, Lock(c) PROVE CallInv'
  <2>1. /\ \A d \in Calls \ {c} : call'[d] = call[d]
        /\ call[c].pc = "lock" /\ call'[c].pc \in {"finish", "create"}
        /\ holder = NoCall /\ holder' = c /\ pass' = pass
    BY <1>0, <1>3 DEF Lock, Verdict
  <2> QED
    BY <1>0, <2>1
<1>4. ASSUME NEW c \in Calls, Create(c) \/ Wake(c) PROVE CallInv'
  <2>1. /\ \A d \in Calls \ {c} : call'[d] = call[d]
        /\ call[c].pc \in {"create", "wake"} /\ call'[c].pc \in {"wake", "start", "undo", "finish"}
        /\ UNCHANGED <<holder, pass>>
    <3>1. CASE Create(c)
      BY <1>0, <3>1 DEF Create
    <3>2. CASE Wake(c)
      <4>1. call[c].pc = "wake" /\ UNCHANGED <<holder, pass>>
        BY <3>2 DEF Wake
      <4>2. PICK pc \in {"start", "undo", "finish"} : call' = [call EXCEPT ![c].pc = pc]
        BY <3>2 DEF Wake, GoTo
      <4> QED
        BY <1>0, <4>1, <4>2
    <3> QED
      BY <1>4, <3>1, <3>2
  <2> QED
    BY <1>0, <2>1
<1>5. ASSUME NEW c \in Calls, PassBegin(c) PROVE CallInv'
  <2>1. /\ \A d \in Calls \ {c} : call'[d] = call[d]
        /\ call[c].pc = "start" /\ call'[c].pc = "pass"
        /\ holder' = holder /\ pass'.owner = c
    BY <1>0, <1>5 DEF PassBegin, GoTo, NoPass
  <2> QED
    BY <1>0, <2>1
<1>6. ASSUME NEW c \in Calls, Finish(c) \/ Undo(c) PROVE CallInv'
  <2>1. /\ \A d \in Calls \ {c} : call'[d] = call[d]
        /\ call[c].pc \in {"finish", "undo"} /\ call'[c].pc \in {"idle", "lock"}
        /\ holder' = NoCall /\ pass' = pass
    BY <1>6, CommitCall
  <2> QED
    BY <1>0, <2>1
<1>7. ASSUME OtherPass PROVE CallInv'
  BY <1>7 DEF OtherPass, NoPass
<1>8. ASSUME (\E i \in Issues : Claim(i)) \/ Stamp PROVE CallInv'
  <2>1. UNCHANGED <<call, holder>> /\ pass'.owner = pass.owner
    <3>1. CASE Stamp
      BY <3>1 DEF Stamp, TypeOK
    <3>2. ASSUME NEW i \in Issues, Claim(i) PROVE UNCHANGED <<call, holder>> /\ pass'.owner = pass.owner
      BY <3>2 DEF Claim, TypeOK
    <3> QED
      BY <1>8, <3>1, <3>2
  <2> QED
    BY <2>1
<1>9. ASSUME StampRefused \/ PassEnd PROVE CallInv'
  <2>1. /\ \A d \in Calls : d # pass.owner => call'[d] = call[d]
        /\ pass.owner # NoCall => call'[pass.owner].pc \in {"undo", "finish"}
        /\ holder' = holder /\ pass'.owner = NoCall
    <3>1. CASE StampRefused
      BY <1>0, <3>1 DEF StampRefused, NoPass
    <3>2. CASE PassEnd
      BY <1>0, <3>2 DEF PassEnd, NoPass
    <3> QED
      BY <1>9, <3>1, <3>2
  <2> QED
    BY <1>0, <2>1
<1>10. ASSUME NEW i \in Issues,
              RunEnds(i) \/ Cancel(i) \/ Release(i) \/ Close(i) \/ OtherWake(i)
       PROVE  CallInv'
  BY <1>10 DEF RunEnds, Cancel, Release, Close, OtherWake
<1>11. ASSUME TimePasses PROVE CallInv'
  BY <1>11 DEF TimePasses
<1>12. ASSUME Crash PROVE CallInv'
  BY <1>12 DEF Crash, Idle, NoPass
<1>13. CASE UNCHANGED vars
  BY <1>13 DEF vars
<1> QED
  BY <1>1, <1>2, <1>3, <1>4, <1>5, <1>6, <1>7, <1>8, <1>9, <1>10, <1>11, <1>12, <1>13
     DEF Next, CallStep, PassStep

(* The rows of the issues.                                                   *)
LEMMA IssueStepKeeps ==
    ASSUME TypeOK, TypeOK', IssueInv, WakesOwn, [Next]_vars
    PROVE  IssueInv'
<1> USE IssueAssumption DEF IssueInv, FreshRows, HeldLive
<1>0. issue \in [Issues -> IssueRows]
  BY DEF TypeOK
<1>1. ASSUME issue' = issue PROVE IssueInv'
  BY <1>1
<1>2. ASSUME NEW c \in Calls, Create(c) PROVE IssueInv'
  <2>1. PICK i \in Issues : /\ issue[i].state = "none"
                            /\ issue' = [issue EXCEPT ![i].state = "open"]
    BY <1>2 DEF Create
  <2> QED
    BY <1>0, <2>1
<1>3. ASSUME NEW c \in Calls, Wake(c) PROVE IssueInv'
  <2>1. CASE issue' = issue
    BY <1>1, <2>1
  <2>2. CASE issue' = [issue EXCEPT ![call[c].issue] = Woken(call[c].issue)]
    <3>1. PICK i \in Issues : i = call[c].issue /\ issue[i].state # "none"
      BY <1>3 DEF Wake, WakesOwn
    <3>2. issue' = [issue EXCEPT ![i] = Woken(i)]
      BY <2>2, <3>1
    <3> QED
      BY <1>0, <3>1, <3>2, WokenTyped
  <2> QED
    BY <1>3, <2>1, <2>2 DEF Wake
<1>4. ASSUME NEW c \in Calls, Undo(c) PROVE IssueInv'
  <2> DEFINE i == call[c].issue
  <2>1. issue' = [issue EXCEPT ![i].state = "deleted", ![i].lock = "free"]
    BY <1>4 DEF Undo
  <2> HIDE DEF i
  <2>2. \A j \in Issues : j # i => issue'[j] = issue[j]
    BY <1>0, <2>1
  <2>3. i \in Issues => issue'[i].state = "deleted" /\ issue'[i].lock = "free"
    BY <1>0, <2>1 DEF IssueRows
  <2> QED
    BY <2>2, <2>3
<1>5. ASSUME NEW i \in Issues, Claim(i) PROVE IssueInv'
  <2>1. issue[i].run = "queued"
    BY <1>5 DEF Claim
  <2>2. CASE issue[i].state = "open"
    <3>1. issue' = [issue EXCEPT ![i].run = "claimed"]
      BY <1>5, <2>2 DEF Claim
    <3> QED
      BY <1>0, <2>1, <3>1
  <2>3. CASE issue[i].state # "open"
    <3>1. issue' = [issue EXCEPT ![i].run = "none"]
      BY <1>5, <2>3 DEF Claim
    <3> QED
      BY <1>0, <2>1, <2>3, <3>1
  <2> QED
    BY <2>2, <2>3
<1>6. ASSUME Stamp PROVE IssueInv'
  <2> DEFINE t == pass.target
  <2>1. t \in Issues
    BY <1>6 DEF Stamp, TypeOK
  <2>2. PICK lock : /\ issue' = [issue EXCEPT ![t].lock = lock]
                    /\ issue[t].state # "open" => lock = "free"
                    /\ lock = "held" => issue[t].lock = "held" \/ issue[t].run = "claimed"
    <3>1. issue' = [issue EXCEPT ![t].lock =
                      IF issue[t].state # "open" THEN "free"
                      ELSE IF issue[t].lock # "free" THEN issue[t].lock
                      ELSE IF issue[t].run = "claimed" THEN "held" ELSE "stale"]
      BY <1>6 DEF Stamp
    <3> HIDE DEF t
    <3> DEFINE lock == IF issue[t].state # "open" THEN "free"
                       ELSE IF issue[t].lock # "free" THEN issue[t].lock
                       ELSE IF issue[t].run = "claimed" THEN "held" ELSE "stale"
    <3>2. /\ issue[t].state # "open" => lock = "free"
          /\ lock = "held" => issue[t].lock = "held" \/ issue[t].run = "claimed"
      OBVIOUS
    <3>3. issue' = [issue EXCEPT ![t].lock = lock]
      BY <3>1
    <3> HIDE DEF lock
    <3> QED
      BY <3>2, <3>3
  <2> HIDE DEF t
  <2> QED
    BY <1>0, <2>1, <2>2
<1>7. ASSUME StampRefused \/ PassEnd \/ Crash PROVE IssueInv'
  <2>1. ASSUME NEW j \in Issues
        PROVE  \/ issue'[j] = issue[j]
               \/ /\ issue[j].run # "none"
                  /\ \E run \in {"orphan", "executing"} : issue'[j] = [issue[j] EXCEPT !.run = run]
    BY <1>7 DEF StampRefused, PassEnd, Crash, Become, InHand
  <2>2. ASSUME NEW j \in Issues
        PROVE  \/ issue'[j] = issue[j]
               \/ /\ issue[j].run # "none" /\ issue'[j].run # "none"
                  /\ issue'[j].state = issue[j].state /\ issue'[j].lock = issue[j].lock
    <3>1. issue[j] \in IssueRows
      BY <1>0
    <3>2. \A run \in {"orphan", "executing"} :
            /\ [issue[j] EXCEPT !.run = run].run = run
            /\ [issue[j] EXCEPT !.run = run].state = issue[j].state
            /\ [issue[j] EXCEPT !.run = run].lock = issue[j].lock
      BY <3>1 DEF IssueRows
    <3> QED
      BY <2>1, <3>2
  <2> QED
    BY <2>2
<1>8. ASSUME NEW i \in Issues, RunEnds(i) \/ Cancel(i) PROVE IssueInv'
  <2>1. issue[i].run # "none" /\ Over(i)
    BY <1>8 DEF RunEnds, Cancel
  <2> QED
    BY <1>0, <2>1, OverTyped
<1>9. ASSUME NEW i \in Issues, Release(i) \/ Close(i) PROVE IssueInv'
  <2>1. \A j \in Issues : j # i => issue'[j] = issue[j]
    BY <1>0, <1>9 DEF Release, Close
  <2>2. issue'[i].lock = "free" /\ (issue'[i].state = "none" => issue[i].state = "none")
        /\ issue'[i].run = issue[i].run
    BY <1>0, <1>9 DEF Release, Close, IssueRows
  <2> QED
    BY <2>1, <2>2
<1>10. ASSUME NEW i \in Issues, OtherWake(i) PROVE IssueInv'
  <2>1. PICK b : issue[i].state = "open" /\ issue' = [issue EXCEPT ![i] = [Woken(i) EXCEPT !.by = b]]
    BY <1>10 DEF OtherWake
  <2>2. \A j \in Issues : j # i => issue'[j] = issue[j]
    BY <1>0, <2>1
  <2>3. issue'[i].state = "open" /\ issue'[i].run # "none"
    BY <1>0, <2>1, WokenTyped DEF IssueRows
  <2> QED
    BY <2>2, <2>3
<1>11. ASSUME NEW c \in Calls, Arrival(c) \/ Lock(c) \/ TickClaim(c) \/ Finish(c)
                               \/ PatchWrite(c) \/ RetriggerWrite(c) \/ PassBegin(c)
       PROVE  issue' = issue
  BY <1>11 DEF Arrival, TickRead, Request, PatchRead, RetriggerRead, Lock, TickClaim,
               Finish, PatchWrite, RetriggerWrite, PassBegin, rows
<1>12. ASSUME OtherPass \/ TimePasses \/ UNCHANGED vars PROVE issue' = issue
  BY <1>12 DEF OtherPass, TimePasses, vars, rows
<1> HIDE DEF IssueInv, FreshRows, HeldLive
<1> QED
  BY <1>1, <1>2, <1>3, <1>4, <1>5, <1>6, <1>7, <1>8, <1>9, <1>10, <1>11, <1>12
     DEF Next, CallStep, PassStep

(* An issue's row is never a fresh one again, and only a wake makes the run   *)
(* of a dispatch live.                                                        *)
LEMMA IssueEffect ==
    ASSUME TypeOK, IssueInv, [Next]_vars, NEW j \in Issues
    PROVE  /\ issue[j].state # "none" => issue'[j].state # "none"
           /\ LiveByDispatch(j)' =>
                \/ LiveByDispatch(j)
                \/ \E c \in Calls : Wake(c) /\ call[c].issue = j
<1> DEFINE Kept == /\ issue[j].state # "none" => issue'[j].state # "none"
                   /\ LiveByDispatch(j)' => LiveByDispatch(j)
<1> USE DEF LiveByDispatch, Live
<1>0. issue \in [Issues -> IssueRows] /\ issue[j] \in IssueRows
  BY DEF TypeOK
<1>1. CASE issue' = issue
  BY <1>1
<1>2. ASSUME NEW c \in Calls, Create(c) PROVE Kept
  <2>1. PICK i \in Issues : /\ issue[i].state = "none"
                            /\ issue' = [issue EXCEPT ![i].state = "open"]
    BY <1>2 DEF Create
  <2>2. issue[i].run = "none"
    BY <2>1 DEF IssueInv, FreshRows
  <2> QED
    BY <1>0, <2>1, <2>2
<1>3. ASSUME NEW c \in Calls, Wake(c)
      PROVE  /\ issue[j].state # "none" => issue'[j].state # "none"
             /\ call[c].issue # j => issue'[j] = issue[j]
  <2> DEFINE k == call[c].issue
  <2>1. CASE issue' = issue
    BY <2>1
  <2>2. CASE issue' = [issue EXCEPT ![k] = Woken(k)]
    <3> HIDE DEF k
    <3>1. k # j => issue'[j] = issue[j]
      BY <1>0, <2>2
    <3>2. k = j => issue'[j].state = issue[j].state
      BY <1>0, <2>2, WokenTyped
    <3> QED
      BY <3>1, <3>2 DEF k
  <2> QED
    BY <1>3, <2>1, <2>2 DEF Wake
<1>4. ASSUME NEW c \in Calls, Undo(c) PROVE Kept
  <2> DEFINE k == call[c].issue
  <2>1. issue' = [issue EXCEPT ![k].state = "deleted", ![k].lock = "free"]
    BY <1>4 DEF Undo
  <2> HIDE DEF k
  <2>2. k # j => issue'[j] = issue[j]
    BY <1>0, <2>1
  <2>3. k = j => issue'[j].state = "deleted"
    BY <1>0, <2>1 DEF IssueRows
  <2> QED
    BY <2>2, <2>3
<1>5. ASSUME NEW i \in Issues, Claim(i) PROVE Kept
  <2>1. issue[i].run = "queued"
        /\ \E run \in {"claimed", "none"} : issue' = [issue EXCEPT ![i].run = run]
    BY <1>5 DEF Claim
  <2> QED
    BY <1>0, <2>1
<1>6. ASSUME Stamp \/ \E i \in Issues : Release(i) PROVE Kept
  <2>1. PICK t, lock : issue' = [issue EXCEPT ![t].lock = lock]
    <3>1. CASE Stamp
      BY <3>1 DEF Stamp
    <3>2. CASE \E i \in Issues : Release(i)
      BY <3>2 DEF Release
    <3> QED
      BY <1>6, <3>1, <3>2
  <2> QED
    BY <1>0, <2>1
<1>7. ASSUME StampRefused \/ PassEnd \/ Crash PROVE Kept
  <2>1. \/ issue'[j] = issue[j]
        \/ /\ issue[j].run # "none"
           /\ \E run \in {"orphan", "executing"} : issue'[j] = [issue[j] EXCEPT !.run = run]
    BY <1>7 DEF StampRefused, PassEnd, Crash, Become, InHand
  <2>2. \/ issue'[j] = issue[j]
        \/ /\ issue[j].run # "none" /\ issue'[j].state = issue[j].state
           /\ issue'[j].by = issue[j].by
    BY <1>0, <2>1 DEF IssueRows
  <2> QED
    BY <2>2
<1>8. ASSUME NEW i \in Issues, RunEnds(i) \/ Cancel(i) PROVE Kept
  <2>1. Over(i)
    BY <1>8 DEF RunEnds, Cancel
  <2> QED
    BY <1>0, <2>1, OverTyped
<1>9. ASSUME NEW i \in Issues, Close(i) PROVE Kept
  <2>1. issue' = [issue EXCEPT ![i].state = "closed", ![i].lock = "free"]
    BY <1>9 DEF Close
  <2>2. i # j => issue'[j] = issue[j]
    BY <1>0, <2>1
  <2>3. i = j => issue'[j].state = "closed"
    BY <1>0, <2>1 DEF IssueRows
  <2> QED
    BY <2>2, <2>3
<1>10. ASSUME NEW i \in Issues, OtherWake(i) PROVE Kept
  <2>1. issue' = [issue EXCEPT ![i] =
                    [Woken(i) EXCEPT !.by = IF issue[i].run = "none" THEN "other" ELSE @]]
    BY <1>10 DEF OtherWake
  <2>2. i # j => issue'[j] = issue[j]
    BY <1>0, <2>1
  <2>3. i = j => /\ issue'[j].state = issue[j].state
                 /\ issue'[j].by = IF issue[j].run = "none" THEN "other" ELSE issue[j].by
    BY <1>0, <2>1, WokenTyped DEF IssueRows
  <2> QED
    BY <2>2, <2>3
<1>11. ASSUME NEW c \in Calls, Arrival(c) \/ Lock(c) \/ TickClaim(c) \/ Finish(c)
                               \/ PatchWrite(c) \/ RetriggerWrite(c) \/ PassBegin(c)
       PROVE  issue' = issue
  BY <1>11 DEF Arrival, TickRead, Request, PatchRead, RetriggerRead, Lock, TickClaim,
               Finish, PatchWrite, RetriggerWrite, PassBegin, rows
<1>12. ASSUME OtherPass \/ TimePasses \/ UNCHANGED vars PROVE issue' = issue
  BY <1>12 DEF OtherPass, TimePasses, vars, rows
<1> HIDE DEF LiveByDispatch, Live
<1>13. ASSUME NEW c \in Calls, Wake(c), LiveByDispatch(j)'
       PROVE  LiveByDispatch(j) \/ call[c].issue = j
  BY <1>3, <1>13 DEF LiveByDispatch, Live
<1>14. issue' = issue => Kept
  BY <1>1 DEF LiveByDispatch, Live
<1> QED
  BY <1>2, <1>3, <1>4, <1>5, <1>6, <1>7, <1>8, <1>9, <1>10, <1>11, <1>12, <1>13, <1>14
     DEF Next, CallStep, PassStep

(* A call comes to its wake by creating an issue, and to its creation when   *)
(* the verdict allows one.                                                   *)
LEMMA CallEffect ==
    ASSUME TypeOK, [Next]_vars, NEW c \in Calls
    PROVE  /\ call'[c].pc = "wake" =>
                \/ call'[c] = call[c]
                \/ call'[c].issue \in Issues /\ issue'[call'[c].issue].state = "open"
           /\ call'[c].pc \in {"create", "wake"} =>
                \/ call[c].pc \in {"create", "wake"} /\ ~Wake(c)
                \/ Verdict = "create"
<1> DEFINE Elsewhere == call'[c].pc \notin {"create", "wake"}
<1>0. call \in [Calls -> CallRecords] /\ issue \in [Issues -> IssueRows]
  BY DEF TypeOK
<1>1. ASSUME NEW d \in Calls, Arrival(d) \/ TickClaim(d) \/ PassBegin(d) \/ Finish(d) \/ Undo(d)
                               \/ PatchWrite(d) \/ RetriggerWrite(d)
      PROVE  call'[c] = call[c] \/ Elsewhere
  <2>1. ASSUME Arrival(d) PROVE call'[c] = call[c] \/ Elsewhere
    <3>1. call'[d].pc \in {"claim", "lock"}
      <4>1. CASE TickRead(d)
        BY <1>0, <4>1 DEF TickRead, Idle
      <4>2. CASE Request(d)
        BY <1>0, <4>2 DEF Request, Idle
      <4>3. CASE PatchRead(d)
        BY <1>0, <4>3 DEF PatchRead, Idle
      <4>4. CASE RetriggerRead(d)
        BY <1>0, <4>4 DEF RetriggerRead, Idle
      <4> QED
        BY <2>1, <4>1, <4>2, <4>3, <4>4 DEF Arrival
    <3>2. c # d => call'[c] = call[c]
      BY <1>0, <2>1 DEF Arrival, TickRead, Request, PatchRead, RetriggerRead
    <3> QED
      BY <3>1, <3>2
  <2>2. ASSUME TickClaim(d) PROVE call'[c] = call[c] \/ Elsewhere
    BY <2>2, TickClaimCall
  <2>3. ASSUME PassBegin(d) PROVE call'[c] = call[c] \/ Elsewhere
    BY <1>0, <2>3 DEF PassBegin, GoTo
  <2>4. ASSUME Finish(d) \/ Undo(d) PROVE call'[c] = call[c] \/ Elsewhere
    BY <2>4, CommitCall
  <2>5. ASSUME PatchWrite(d) \/ RetriggerWrite(d) PROVE call'[c] = call[c] \/ Elsewhere
    BY <1>0, <2>5 DEF PatchWrite, RetriggerWrite, Idle
  <2> QED
    BY <1>1, <2>1, <2>2, <2>3, <2>4, <2>5
<1>2. ASSUME NEW d \in Calls, Lock(d)
      PROVE  \/ call'[c] = call[c]
             \/ call'[c].pc = "finish"
             \/ call'[c].pc = "create" /\ Verdict = "create"
  BY <1>0, <1>2 DEF Lock, Verdict
<1>3. ASSUME NEW d \in Calls, Create(d)
      PROVE  \/ call'[c] = call[c]
             \/ /\ call[c].pc = "create" /\ call'[c].issue \in Issues
                /\ issue'[call'[c].issue].state = "open"
  <2>1. PICK i \in Issues : /\ issue' = [issue EXCEPT ![i].state = "open"]
                            /\ call' = [call EXCEPT ![d].pc = "wake", ![d].issue = i]
    BY <1>3 DEF Create
  <2>2. c # d => call'[c] = call[c]
    BY <1>0, <2>1
  <2>3. call'[d].issue = i
    BY <1>0, <2>1 DEF CallRecords
  <2>4. issue'[i].state = "open"
    BY <1>0, <2>1 DEF IssueRows
  <2>5. call[d].pc = "create"
    BY <1>3 DEF Create
  <2> QED
    BY <2>2, <2>3, <2>4, <2>5
<1>4. ASSUME NEW d \in Calls, Wake(d)
      PROVE  (c = d => Elsewhere) /\ (c # d => call'[c] = call[c])
  <2>1. PICK pc \in {"start", "undo", "finish"} : call' = [call EXCEPT ![d].pc = pc]
    BY <1>4 DEF Wake, GoTo
  <2> QED
    BY <1>0, <2>1
<1>5. ASSUME PassStep PROVE call'[c] = call[c] \/ Elsewhere
  <2>1. \/ call' = call
        \/ \E pc \in {"undo", "finish"} : call' = [call EXCEPT ![pass.owner].pc = pc]
    BY <1>5 DEF PassStep, Claim, Stamp, StampRefused, PassEnd
  <2>2. ASSUME NEW pc \in {"undo", "finish"}, call' = [call EXCEPT ![pass.owner].pc = pc]
        PROVE  call'[c] = call[c] \/ Elsewhere
    <3> DEFINE owner == pass.owner
    <3>1. call' = [call EXCEPT ![owner].pc = pc]
      BY <2>2
    <3> HIDE DEF owner
    <3>2. c # owner => call'[c] = call[c]
      BY <1>0, <3>1
    <3>3. c = owner => call'[c].pc = pc
      BY <1>0, <3>1 DEF CallRecords
    <3> QED
      BY <3>2, <3>3
  <2> QED
    BY <2>1, <2>2
<1>6. ASSUME NEW i \in Issues,
             RunEnds(i) \/ Cancel(i) \/ Release(i) \/ Close(i) \/ OtherWake(i)
      PROVE  call' = call
  BY <1>6 DEF RunEnds, Cancel, Release, Close, OtherWake
<1>7. ASSUME OtherPass \/ TimePasses \/ UNCHANGED vars PROVE call' = call
  BY <1>7 DEF OtherPass, TimePasses, vars
<1>8. ASSUME Crash PROVE Elsewhere
  BY <1>8 DEF Crash, Idle
<1>9. Wake(c) => Elsewhere
  BY <1>4
<1>10. \/ call'[c] = call[c] \/ Elsewhere
       \/ call'[c].pc = "create" /\ Verdict = "create"
       \/ /\ call[c].pc = "create" /\ call'[c].issue \in Issues
          /\ issue'[call'[c].issue].state = "open"
  BY <1>1, <1>2, <1>3, <1>4, <1>5, <1>6, <1>7, <1>8 DEF Next, CallStep
<1>11. call[c].pc = "create" => ~Wake(c)
  BY DEF Wake
<1> QED
  BY <1>9, <1>10, <1>11

(* One call at most creates or wakes; its wake makes at most its own run     *)
(* live.                                                                     *)
LEMMA DispatchStep ==
    ASSUME TypeOK, TypeOK', DispatchInv, [Next]_vars
    PROVE  DispatchInv'
<1>1. CallInv' /\ IssueInv'
  BY CallStepKeeps, IssueStepKeeps DEF DispatchInv
<1>2. WakesOwn'
  <2> SUFFICES ASSUME NEW c \in Calls, call'[c].pc = "wake"
               PROVE  call'[c].issue \in Issues /\ issue'[call'[c].issue].state # "none"
    BY DEF WakesOwn
  <2>1. CASE call'[c] = call[c]
    <3>1. call[c].issue \in Issues /\ issue[call[c].issue].state # "none"
      BY <2>1 DEF DispatchInv, WakesOwn
    <3> QED
      BY <2>1, <3>1, IssueEffect DEF DispatchInv
  <2> QED
    BY <2>1, CallEffect
<1>3. routine'.policy = routine.policy
  <2>1. routine' = routine \/ \E s \in Statuses : routine' = [routine EXCEPT !.status = s]
    <3>1. ASSUME NEW c \in Calls, PatchWrite(c)
          PROVE  \E s \in Statuses : routine' = [routine EXCEPT !.status = s]
      <4>1. call[c].status \in Statuses
        BY DEF TypeOK, CallRecords
      <4> QED
        BY <3>1, <4>1 DEF PatchWrite
    <3>2. ASSUME NEW c \in Calls, Arrival(c) \/ (CallStep(c) /\ ~PatchWrite(c))
          PROVE  routine' = routine
      BY <3>2 DEF Arrival, TickRead, Request, PatchRead, RetriggerRead, CallStep, TickClaim, Lock,
                  Create, Wake, PassBegin, Finish, Undo, RetriggerWrite, rows
    <3>3. ASSUME PassStep \/ OtherPass \/ TimePasses \/ Crash \/ UNCHANGED vars
          PROVE  routine' = routine
      BY <3>3 DEF PassStep, Claim, Stamp, StampRefused, PassEnd, OtherPass, TimePasses, Crash,
                  vars, rows
    <3>4. ASSUME NEW i \in Issues,
                 RunEnds(i) \/ Cancel(i) \/ Release(i) \/ Close(i) \/ OtherWake(i)
          PROVE  routine' = routine
      BY <3>4 DEF RunEnds, Cancel, Release, Close, OtherWake
    <3> QED
      BY <3>1, <3>2, <3>3, <3>4 DEF Next
  <2> QED
    BY <2>1 DEF TypeOK
<1>4. ASSUME routine.policy # "always_enqueue"
      PROVE  /\ \A c \in Calls : call'[c].pc \in {"create", "wake"} =>
                  \A i \in Issues : ~LiveByDispatch(i)'
             /\ \A i, j \in Issues : LiveByDispatch(i)' /\ LiveByDispatch(j)' => i = j
  <2>1. \A i, j \in Issues : LiveByDispatch(i) /\ LiveByDispatch(j) => i = j
    BY <1>4 DEF DispatchInv, OneLiveDispatch, LiveByDispatch
  <2>2. CASE \E d \in Calls : Wake(d)
    <3>1. PICK d \in Calls : Wake(d)
      BY <2>2
    <3>2. call[d].pc = "wake" /\ \A i \in Issues : ~LiveByDispatch(i)
      BY <1>4, <3>1 DEF Wake, DispatchInv, NoneLive
    <3>3. \A c \in Calls : call[c].pc \in {"create", "wake"} => c = d
      BY <3>2 DEF DispatchInv, CallInv, Exclusive, Dispatching
    <3>4. \A i \in Issues : LiveByDispatch(i)' => i = call[d].issue
      BY <3>2, <3>3, IssueEffect DEF DispatchInv, Wake
    <3>5. ASSUME NEW c \in Calls PROVE call'[c].pc \notin {"create", "wake"}
      <4>1. PICK pc \in {"start", "undo", "finish"} : call' = [call EXCEPT ![d].pc = pc]
        BY <3>1 DEF Wake, GoTo
      <4>2. call \in [Calls -> CallRecords]
        BY DEF TypeOK
      <4> QED
        BY <3>3, <4>1, <4>2
    <3> QED
      BY <3>4, <3>5
  <2>3. CASE ~\E d \in Calls : Wake(d)
    <3>1. \A i \in Issues : LiveByDispatch(i)' => LiveByDispatch(i)
      BY <2>3, IssueEffect DEF DispatchInv
    <3>2. ASSUME NEW c \in Calls, call'[c].pc \in {"create", "wake"}
          PROVE  \A i \in Issues : ~LiveByDispatch(i)
      <4>1. CASE call[c].pc \in {"create", "wake"}
        BY <1>4, <4>1 DEF DispatchInv, NoneLive
      <4>2. CASE Verdict = "create"
        BY <1>4, <4>2 DEF Verdict, LiveByDispatch
      <4> QED
        BY <3>2, <4>1, <4>2, CallEffect
    <3> QED
      BY <2>1, <3>1, <3>2
  <2> QED
    BY <2>2, <2>3
<1>5. NoneLive' /\ OneLiveDispatch'
  BY <1>3, <1>4 DEF NoneLive, OneLiveDispatch, LiveByDispatch
<1> QED
  BY <1>1, <1>2, <1>5 DEF DispatchInv

LEMMA DispatchInit == Init => DispatchInv
  BY CallAssumption, IssueAssumption
     DEF Init, DispatchInv, CallInv, IssueInv, Exclusive, OwnerPasses, FreshRows,
         HeldLive, WakesOwn, NoneLive, OneLiveDispatch, LiveByDispatch, Live, Dispatching,
         Idle, NoRow, NoPass

LEMMA DispatchInvariant == Spec => [](TypeOK /\ DispatchInv)
<1>1. TypeOK /\ DispatchInv /\ [Next]_vars => TypeOK' /\ DispatchInv'
  BY TypeStep, DispatchStep
<1> QED
  BY <1>1, TypeInit, DispatchInit, PTL DEF Spec

(* Dispatches are serialized until the run is queued, so that never two of   *)
(* them have a live run.                                                     *)
THEOREM DispatchesSerialized == Spec => []OneLiveDispatch
<1>1. DispatchInv => OneLiveDispatch
  BY DEF DispatchInv
<1> QED
  BY <1>1, DispatchInvariant, PTL

(* The unique index refuses the stamp of a live run only under               *)
(* always_enqueue, over a stale lock, or when one of the two issues was woken *)
(* by something else than its dispatch.                                      *)
THEOREM CollisionsExplained == Spec => []CollisionHasCause
<1>1. TypeOK /\ DispatchInv => CollisionHasCause
  <2> SUFFICES ASSUME TypeOK, DispatchInv, pass.target # NoIssue, Collides(pass.target),
                      routine.policy # "always_enqueue", issue[pass.target].run = "claimed",
                      NEW j \in Issues, InTheWay(pass.target, j), issue[j].lock # "stale"
               PROVE  "other" \in {issue[pass.target].by, issue[j].by}
    BY DEF CollisionHasCause
  <2>1. pass.target \in Issues /\ issue[pass.target].state = "open"
    BY DEF TypeOK, Collides
  <2>2. j # pass.target /\ issue[j].lock = "held"
    BY DEF InTheWay, TypeOK, IssueRows
  <2>3. Live(pass.target) /\ Live(j)
    BY <2>1, <2>2 DEF Live, DispatchInv, IssueInv, HeldLive
  <2>4. ~(issue[pass.target].by = "dispatch" /\ issue[j].by = "dispatch")
    BY <2>1, <2>2, <2>3 DEF DispatchInv, OneLiveDispatch
  <2>5. issue[pass.target].by \in {"dispatch", "other"} /\ issue[j].by \in {"dispatch", "other"}
    BY <2>1, <2>2 DEF TypeOK, IssueRows
  <2> QED
    BY <2>4, <2>5
<1> QED
  BY <1>1, DispatchInvariant, PTL

=============================================================================
