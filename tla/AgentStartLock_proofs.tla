------------------------ MODULE AgentStartLock_proofs ------------------------
(*****************************************************************************)
(* The lock implements the chain for any number of calls and any stale time, *)
(* and serves its calls in order.  LockInv is what holds of the clock and    *)
(* the timers; LineInv adds that the calls stand in one line.                *)
(*****************************************************************************)
EXTENDS AgentStartLock, TLAPS

LEMMA LockInvStep ==
    ASSUME LockInv, [Next]_vars
    PROVE  LockInv'
<1> USE StaleAssumption
<1>1. ASSUME Tick PROVE LockInv'
  <2>1. \A c \in Calls : Awaiting(c)' <=> Awaiting(c)
    BY <1>1 DEF Tick, Awaiting, Resolved
  <2>2. \A c \in Calls : /\ age'[c] \in 0..Stale /\ age'[c] >= age[c]
                         /\ age'[c] = IF phase[c] # "uncalled" /\ age[c] < Stale
                                      THEN age[c] + 1 ELSE age[c]
    BY <1>1 DEF Tick, LockInv, TypeOK
  <2>3. \A c \in Calls : /\ remaining'[c] \in 0..Stale
                         /\ Awaiting(c) => remaining'[c] = remaining[c] - 1
    BY <1>1 DEF Tick, LockInv, TypeOK
  <2>4. TypeOK'
    BY <1>1, <2>2, <2>3 DEF Tick, LockInv, TypeOK
  <2>5. WaitBounded'
    BY <1>1, <2>1, <2>2, <2>3 DEF Tick, LockInv, TypeOK, WaitBounded
  <2>6. ASSUME NEW c \in Calls, Awaiting(c)
        PROVE  age'[waitsFor[c]] + remaining'[c] = Stale
    <3>1. waitsFor[c] \in Calls /\ phase[waitsFor[c]] # "uncalled"
          /\ age[waitsFor[c]] + remaining[c] = Stale /\ remaining[c] > 0
      BY <1>1, <2>6 DEF Tick, Awaiting, LockInv, TypeOK
    <3> QED
      BY <2>2, <2>3, <2>6, <3>1 DEF LockInv, TypeOK
  <2> QED
    BY <1>1, <2>1, <2>2, <2>4, <2>5, <2>6 DEF Tick, LockInv
<1>2. ASSUME NEW c \in Calls, Call(c) PROVE LockInv'
  <2>1. TypeOK'
    BY <1>2 DEF Call, RemainingFor, LockInv, TypeOK
  <2>2. owner # c /\ age[c] = 0
    BY <1>2 DEF Call, LockInv
  <2>3. \A d \in Calls \ {c} :
           /\ Awaiting(d)' => Awaiting(d)
           /\ waitsFor'[d] = waitsFor[d] /\ remaining'[d] = remaining[d]
    BY <1>2 DEF Call, Awaiting, Resolved, LockInv, TypeOK
  <2>4. Awaiting(c)' => /\ owner # NoCall /\ waitsFor'[c] = owner
                        /\ remaining'[c] = Stale - age[owner]
    BY <1>2 DEF Call, Awaiting, RemainingFor, LockInv, TypeOK
  <2>5. WaitBounded'
    BY <1>2, <2>2, <2>3, <2>4 DEF Call, LockInv, TypeOK, WaitBounded
  <2>6. ASSUME NEW d \in Calls, Awaiting(d)'
        PROVE  /\ phase'[waitsFor'[d]] # "uncalled"
               /\ age'[waitsFor'[d]] + remaining'[d] = Stale
    BY <1>2, <2>2, <2>3, <2>4, <2>6 DEF Call, LockInv, TypeOK
  <2> QED
    BY <1>2, <2>1, <2>2, <2>5, <2>6 DEF Call, LockInv, TypeOK
<1>3. ASSUME NEW c \in Calls,
             PredecessorResolved(c) \/ TimerFires(c) \/ FnSettles(c) \/ DeleteOwnEntry(c)
      PROVE  LockInv'
  <2>1. PICK p \in {"body", "settled", "done"} :
           /\ phase[c] \in {"waiting", "body", "settled"}
           /\ phase' = [phase EXCEPT ![c] = p]
           /\ owner' = owner \/ owner' = NoCall
           /\ p = "done" => owner' # c
           /\ timedOut' \subseteq Calls
           /\ UNCHANGED <<waitsFor, age, remaining, before>>
    BY <1>3 DEF PredecessorResolved, TimerFires, FnSettles, DeleteOwnEntry, Awaiting,
                LockInv, TypeOK
  <2>2. TypeOK'
    BY <2>1 DEF LockInv, TypeOK
  <2>3. \A d \in Calls : Awaiting(d)' => Awaiting(d)
    <3>1. \A d \in Calls : /\ phase'[d] = "waiting" => phase[d] = "waiting"
                           /\ Resolved(d) => Resolved(d)'
      BY <1>3, <2>1 DEF PredecessorResolved, TimerFires, FnSettles, DeleteOwnEntry,
                        Awaiting, Resolved, LockInv, TypeOK
    <3> QED
      BY <2>1, <3>1 DEF Awaiting, LockInv, TypeOK
  <2>4. WaitBounded'
    BY <2>1, <2>3 DEF LockInv, WaitBounded
  <2>5. \A d \in Calls : phase'[d] = "uncalled" <=> phase[d] = "uncalled"
    BY <2>1 DEF LockInv, TypeOK
  <2>6. \A d \in Calls : Awaiting(d)' => waitsFor[d] \in Calls
    BY <2>3 DEF Awaiting, LockInv, TypeOK
  <2> QED
    BY <2>1, <2>2, <2>3, <2>4, <2>5, <2>6 DEF LockInv, TypeOK
<1>4. CASE UNCHANGED vars
  BY <1>4 DEF vars, LockInv, TypeOK, WaitBounded, Awaiting, Resolved
<1> QED
  BY <1>1, <1>2, <1>3, <1>4 DEF Next

LEMMA LockInvariant == Spec => []LockInv
<1>1. Init => LockInv
  BY StaleAssumption DEF Init, LockInv, TypeOK, WaitBounded, Awaiting
<1>2. LockInv /\ [Next]_vars => LockInv'
  BY LockInvStep
<1> QED
  BY <1>1, <1>2, PTL DEF Spec

(* Entries, ages and timers keep to their types.                             *)
THEOREM TypesKept == Spec => []TypeOK
<1>1. LockInv => TypeOK
  BY DEF LockInv
<1> QED
  BY <1>1, LockInvariant, PTL

(* No caller waits longer than the stale time after its own call.            *)
THEOREM WaitsAreBounded == Spec => []WaitBounded
<1>1. LockInv => WaitBounded
  BY DEF LockInv
<1> QED
  BY <1>1, LockInvariant, PTL

(* A step that lets nobody through and makes no call keeps the line.         *)
LEMMA LineInvStep ==
    ASSUME LockInv, LineInv, [Next]_vars
    PROVE  LineInv'
<1> USE StaleAssumption
<1>1. CASE Tick \/ UNCHANGED vars
  <2>1. UNCHANGED <<phase, waitsFor, owner, before, timedOut>>
    BY <1>1 DEF Tick, vars
  <2> QED
    BY <2>1 DEF LineInv, InLine, Made, LastMade, OvertakesOnlyByTimeout, Through, Resolved
<1>2. ASSUME NEW c \in Calls, Call(c) PROVE LineInv'
  <2>1. /\ c \notin Made /\ Made' = Made \cup {c}
        /\ \A d \in Calls : /\ before'[d] = IF d = c THEN Made ELSE before[d]
                            /\ waitsFor'[d] = IF d = c THEN owner ELSE waitsFor[d]
                            /\ phase'[d] = IF d = c THEN "waiting" ELSE phase[d]
        /\ owner' = c /\ timedOut' = timedOut
    BY <1>2 DEF Call, Made, LockInv, TypeOK
  <2>2. Made \subseteq Calls /\ owner \in Calls \cup {NoCall}
    BY DEF Made, LockInv, TypeOK
  <2>3. /\ \A d \in Calls : before'[d] \subseteq Made' /\ d \notin before'[d]
        /\ \A d \in Calls : \A e \in before'[d] : before'[e] \subseteq before'[d]
    BY <2>1, <2>2 DEF LineInv, InLine
  <2>4. LastMade(c)'
    BY <2>1, <2>2 DEF LastMade, Made
  <2>5. ASSUME NEW d \in Made', waitsFor'[d] # NoCall
        PROVE  before'[d] = before'[waitsFor'[d]] \cup {waitsFor'[d]}
    <3>1. CASE d = c
      BY <2>1, <2>2, <2>5, <3>1 DEF LineInv, InLine, LastMade
    <3>2. CASE d # c
      <4>1. waitsFor[d] \in before[d]
        BY <2>1, <2>2, <2>5, <3>2 DEF LineInv, InLine
      <4>2. waitsFor[d] # c
        BY <2>1, <2>2, <3>2, <4>1 DEF LineInv, InLine
      <4>3. d \in Made /\ before'[d] = before[d] /\ waitsFor'[d] = waitsFor[d]
            /\ waitsFor[d] \in Calls
        BY <2>1, <2>2, <2>5, <3>2, <4>1 DEF LineInv, InLine
      <4>4. before[d] = before[waitsFor[d]] \cup {waitsFor[d]}
        BY <2>5, <4>3 DEF LineInv, InLine
      <4> QED
        BY <2>1, <4>2, <4>3, <4>4
    <3> QED
      BY <3>1, <3>2
  <2>6. ASSUME NEW d \in Made', waitsFor'[d] = NoCall
        PROVE  before'[d] = {} \/ \E e \in before'[d] :
                  phase'[e] = "done" /\ before'[d] = before'[e] \cup {e}
    <3>1. CASE d = c
      <4>1. Made = {} \/ \E e \in Calls : LastMade(e) /\ phase[e] = "done"
        BY <2>1, <2>2, <2>6, <3>1 DEF LineInv, InLine
      <4> QED
        BY <2>1, <2>2, <3>1, <4>1 DEF LastMade
    <3>2. CASE d # c
      <4>1. d \in Made /\ before'[d] = before[d] /\ waitsFor[d] = NoCall
        BY <2>1, <2>2, <2>6, <3>2
      <4>2. CASE before[d] = {}
        BY <4>1, <4>2
      <4>3. CASE before[d] # {}
        <5>1. PICK e \in before[d] : phase[e] = "done" /\ before[d] = before[e] \cup {e}
          BY <4>1, <4>3 DEF LineInv, InLine
        <5>2. e \in Calls /\ e # c
          BY <2>1, <2>2, <4>1, <5>1 DEF LineInv, InLine
        <5> QED
          BY <2>1, <4>1, <5>1, <5>2
      <4> QED
        BY <4>2, <4>3
    <3> QED
      BY <3>1, <3>2
  <2>7. InLine'
    BY <2>1, <2>3, <2>4, <2>5, <2>6 DEF InLine
  <2>8. OvertakesOnlyByTimeout'
    <3> SUFFICES ASSUME NEW d \in Calls, NEW e \in before'[d], Through(d)', ~Resolved(e)'
                 PROVE  \E x \in timedOut' : e \in before'[x] /\ (x = d \/ x \in before'[d])
      BY DEF OvertakesOnlyByTimeout
    <3>1. d # c /\ Through(d) /\ e \in before[d]
      BY <2>1 DEF Through
    <3>2. e \in Calls /\ e # c /\ ~Resolved(e)
      BY <2>1, <2>2, <3>1 DEF LineInv, InLine, Resolved
    <3>3. PICK x \in timedOut : e \in before[x] /\ (x = d \/ x \in before[d])
      BY <3>1, <3>2 DEF LineInv, OvertakesOnlyByTimeout
    <3>4. x \in Calls /\ x # c
      BY <2>1, <2>2, <3>1, <3>3 DEF LineInv, InLine, LockInv, TypeOK
    <3> QED
      BY <2>1, <3>1, <3>3, <3>4
  <2> QED
    BY <2>7, <2>8 DEF LineInv
<1>3. ASSUME NEW c \in Calls,
             PredecessorResolved(c) \/ TimerFires(c) \/ FnSettles(c) \/ DeleteOwnEntry(c)
      PROVE  LineInv'
  <2>1. /\ Made' = Made /\ UNCHANGED <<waitsFor, before>>
        /\ timedOut \subseteq timedOut'
        /\ \A d \in Calls : d # c => phase'[d] = phase[d]
        /\ \A d \in Calls : phase[d] = "done" => phase'[d] = "done"
        /\ \A d \in Calls : Resolved(d) => Resolved(d)'
        /\ owner' # owner => owner' = NoCall /\ owner = c /\ phase'[c] = "done"
    BY <1>3 DEF PredecessorResolved, TimerFires, FnSettles, DeleteOwnEntry, Awaiting, Made,
                Resolved, LockInv, TypeOK
  <2>2. Made \subseteq Calls /\ owner \in Calls \cup {NoCall}
    BY DEF Made, LockInv, TypeOK
  <2>3. owner' = NoCall => Made' = {} \/ \E d \in Calls : LastMade(d)' /\ phase'[d] = "done"
    BY <2>1, <2>2 DEF LineInv, InLine, LastMade
  <2>4. (owner # NoCall => LastMade(owner))'
    BY <2>1, <2>2, StaleAssumption DEF LineInv, InLine, LastMade
  <2>5. \A d \in Made' : waitsFor'[d] = NoCall =>
          before'[d] = {} \/ \E e \in before'[d] :
                                phase'[e] = "done" /\ before'[d] = before'[e] \cup {e}
    <3> SUFFICES ASSUME NEW d \in Made, waitsFor[d] = NoCall, before[d] # {}
                 PROVE  \E e \in before[d] :
                           phase'[e] = "done" /\ before[d] = before[e] \cup {e}
      BY <2>1
    <3>1. PICK e \in before[d] : phase[e] = "done" /\ before[d] = before[e] \cup {e}
      BY DEF LineInv, InLine
    <3>2. e \in Calls
      BY <2>2, <3>1 DEF LineInv, InLine
    <3> QED
      BY <2>1, <3>1, <3>2
  <2>6. InLine'
    BY <2>1, <2>2, <2>3, <2>4, <2>5 DEF LineInv, InLine
  <2>7. OvertakesOnlyByTimeout'
    <3> SUFFICES ASSUME NEW d \in Calls, NEW e \in before[d], Through(d)', ~Resolved(e)'
                 PROVE  \E x \in timedOut' : e \in before[x] /\ (x = d \/ x \in before[d])
      BY <2>1 DEF OvertakesOnlyByTimeout
    <3>1. d \in Calls /\ e \in Calls /\ ~Resolved(e)
      BY <2>1, <2>2 DEF LineInv, InLine
    <3>2. CASE Through(d)
      BY <2>1, <3>1, <3>2 DEF LineInv, OvertakesOnlyByTimeout
    <3>3. CASE ~Through(d) /\ TimerFires(c)
      <4>1. d = c /\ c \in timedOut'
        BY <2>1, <3>3 DEF Through, TimerFires
      <4> QED
        BY <4>1
    <3>4. CASE ~Through(d) /\ ~TimerFires(c)
      <4>1. d = c /\ PredecessorResolved(c) /\ d \in Made
        BY <1>3, <2>1, <3>1, <3>4 DEF Through, FnSettles, DeleteOwnEntry, PredecessorResolved, Made
      <4>2. \E p \in before[d] : Resolved(p) /\ before[d] = before[p] \cup {p}
        <5>1. CASE waitsFor[d] = NoCall
          BY <4>1, <5>1 DEF LineInv, InLine, Resolved
        <5>2. CASE waitsFor[d] # NoCall
          BY <4>1, <5>2 DEF LineInv, InLine, PredecessorResolved, Awaiting
        <5> QED
          BY <5>1, <5>2
      <4>3. PICK p \in before[d] : Resolved(p) /\ before[d] = before[p] \cup {p}
        BY <4>2
      <4>4. p \in Calls /\ Through(p) /\ e \in before[p]
        BY <2>2, <3>1, <4>3 DEF LineInv, InLine, Through, Resolved
      <4>5. PICK x \in timedOut : e \in before[x] /\ (x = p \/ x \in before[p])
        BY <3>1, <4>4 DEF LineInv, OvertakesOnlyByTimeout
      <4> QED
        BY <2>1, <4>3, <4>5
    <3> QED
      BY <3>2, <3>3, <3>4
  <2> QED
    BY <2>6, <2>7 DEF LineInv
<1> QED
  BY <1>1, <1>2, <1>3 DEF Next

(* Calls are served in the order they were made, however many there are: one *)
(* overtakes another only where a timer has broken the line between them.    *)
THEOREM ServedInOrder == Spec => []OvertakesOnlyByTimeout
<1>1. Init => LineInv
  BY DEF Init, LineInv, InLine, Made, LastMade, OvertakesOnlyByTimeout
<1>2. LockInv /\ LineInv /\ [Next]_vars => LineInv'
  BY LineInvStep
<1>3. LineInv => OvertakesOnlyByTimeout
  BY DEF LineInv
<1> QED
  BY <1>1, <1>2, <1>3, LockInvariant, PTL DEF Spec

GivesUp == \A c \in Calls : c \in timedOut' \ timedOut => age[waitsFor[c]] = Stale

(* A waiter gives up on none but a stale predecessor.                        *)
THEOREM OnlyStaleGivenUp == Spec => GivesUpOnlyOnStale
<1>1. LockInv /\ [Next]_vars => [GivesUp]_vars
  <2> SUFFICES ASSUME LockInv, [Next]_vars, NEW c \in Calls, c \in timedOut' \ timedOut
               PROVE  age[waitsFor[c]] = Stale
    BY DEF GivesUp
  <2>1. TimerFires(c)
    BY DEF Next, vars, Tick, Call, PredecessorResolved, TimerFires, FnSettles, DeleteOwnEntry
  <2> QED
    BY <2>1, StaleAssumption DEF TimerFires, Awaiting, LockInv, TypeOK
<1> QED
  BY <1>1, LockInvariant, PTL DEF Spec, GivesUpOnlyOnStale, GivesUp

LEMMA ChainStep ==
    ASSUME LockInv, [Next]_vars
    PROVE  [Chain!ChainNext]_(Chain!chainVars)
<1> USE StaleAssumption
<1> DEFINE pc == [c \in Calls |-> ChainPhase(c)]
           pred == [c \in Calls |-> Pending(c)]
           ahead == [c \in Calls |-> IF ChainPhase(c) = "idle" THEN {}
                                     ELSE {d \in before[c] : ~Resolved(d)}]
           forced == timedOut # {}
<1>1. CASE Tick \/ UNCHANGED vars
  <2>1. UNCHANGED <<phase, waitsFor, owner, before, timedOut>>
    BY <1>1 DEF Tick, vars
  <2>2. \A c \in Calls : /\ ChainPhase(c)' = ChainPhase(c) /\ Pending(c)' = Pending(c)
                         /\ \A d : Resolved(d)' <=> Resolved(d)
    BY <2>1 DEF ChainPhase, Pending, Awaiting, Resolved
  <2>3. pc' = pc /\ pred' = pred /\ ahead' = ahead /\ forced' = forced
    BY <2>1, <2>2
  <2> QED
    BY <2>1, <2>3 DEF Chain!chainVars
<1>2. ASSUME NEW c \in Calls, Call(c) PROVE Chain!Enter(c)
  <2>1. pc[c] = "idle" /\ pc' = [pc EXCEPT ![c] = "waiting"]
    BY <1>2 DEF Call, ChainPhase, LockInv, TypeOK
  <2>2. Chain!Live = {d \in Calls : phase[d] \in {"waiting", "body"}}
    BY DEF Chain!Live, ChainPhase
  <2>3. pred' = [pred EXCEPT ![c] = IF owner \in Chain!Live THEN owner ELSE NoCall]
    <3>1. Pending(c)' = IF owner \in Chain!Live THEN owner ELSE NoCall
      BY <1>2, <2>2 DEF Call, Pending, Awaiting, Resolved, LockInv, TypeOK
    <3>2. \A d \in Calls \ {c} : Pending(d)' = Pending(d)
      BY <1>2 DEF Call, Pending, Awaiting, Resolved, LockInv, TypeOK
    <3> QED
      BY <3>1, <3>2
  <2>4. ahead' = [ahead EXCEPT ![c] = Chain!Live]
    <3>1. {d \in before'[c] : ~Resolved(d)'} = Chain!Live
      BY <1>2, <2>2 DEF Call, Resolved, LockInv, TypeOK
    <3>2. \A d \in Calls \ {c} :
             /\ ChainPhase(d)' = ChainPhase(d)
             /\ {e \in before'[d] : ~Resolved(e)'} = {e \in before[d] : ~Resolved(e)}
      BY <1>2 DEF Call, ChainPhase, Resolved, LockInv, TypeOK
    <3>3. ChainPhase(c)' # "idle"
      BY <1>2 DEF Call, ChainPhase, LockInv, TypeOK
    <3> QED
      BY <3>1, <3>2, <3>3
  <2>5. owner' = c /\ forced' = forced
    BY <1>2 DEF Call
  <2> QED
    BY <2>1, <2>3, <2>4, <2>5 DEF Chain!Enter
<1>3. ASSUME NEW c \in Calls, PredecessorResolved(c) PROVE Chain!Proceed(c)
  <2>1. \A d \in Calls : /\ Pending(d)' = Pending(d) /\ (Resolved(d)' <=> Resolved(d))
                         /\ ChainPhase(d)' = IF d = c THEN "body" ELSE ChainPhase(d)
    BY <1>3 DEF PredecessorResolved, Pending, Awaiting, Resolved, ChainPhase, LockInv, TypeOK
  <2>2. ChainPhase(c) = "waiting" /\ Pending(c) = NoCall
    BY <1>3 DEF PredecessorResolved, ChainPhase, Pending
  <2>3. ahead' = ahead
    <3>1. \A d \in Calls : {e \in before'[d] : ~Resolved(e)'} = {e \in before[d] : ~Resolved(e)}
      BY <1>3, <2>1 DEF PredecessorResolved, LockInv, TypeOK
    <3> QED
      BY <2>1, <2>2, <3>1
  <2> QED
    BY <1>3, <2>1, <2>2, <2>3 DEF PredecessorResolved, Chain!Proceed
<1>4. ASSUME NEW c \in Calls, TimerFires(c) PROVE Chain!ProceedByTimeout(c)
  <2>1. \A d \in Calls : /\ Pending(d)' = IF d = c THEN NoCall ELSE Pending(d)
                         /\ (Resolved(d)' <=> Resolved(d))
                         /\ ChainPhase(d)' = IF d = c THEN "body" ELSE ChainPhase(d)
    BY <1>4 DEF TimerFires, Pending, Awaiting, Resolved, ChainPhase, LockInv, TypeOK
  <2>2. ChainPhase(c) = "waiting" /\ Pending(c) # NoCall
    BY <1>4 DEF TimerFires, Awaiting, ChainPhase, Pending
  <2>3. ahead' = ahead
    <3>1. \A d \in Calls : {e \in before'[d] : ~Resolved(e)'} = {e \in before[d] : ~Resolved(e)}
      BY <1>4, <2>1 DEF TimerFires, LockInv, TypeOK
    <3> QED
      BY <2>1, <2>2, <3>1
  <2> QED
    BY <1>4, <2>1, <2>2, <2>3 DEF TimerFires, Chain!ProceedByTimeout
<1>5. ASSUME NEW c \in Calls, FnSettles(c) PROVE Chain!Settle(c)
  <2>1. \A d \in Calls : /\ Pending(d)' = IF Pending(d) = c THEN NoCall ELSE Pending(d)
                         /\ (Resolved(d)' <=> Resolved(d) \/ d = c)
                         /\ ChainPhase(d)' = IF d = c THEN "settled" ELSE ChainPhase(d)
    BY <1>5 DEF FnSettles, Pending, Awaiting, Resolved, ChainPhase, LockInv, TypeOK
  <2>2. ChainPhase(c) = "body"
    BY <1>5 DEF FnSettles, ChainPhase
  <2>3. ahead' = [d \in Calls |-> ahead[d] \ {c}]
    <3>1. \A d \in Calls :
             {e \in before'[d] : ~Resolved(e)'} = {e \in before[d] : ~Resolved(e)} \ {c}
      BY <1>5, <2>1 DEF FnSettles, LockInv, TypeOK
    <3> QED
      BY <2>1, <2>2, <3>1
  <2> QED
    BY <1>5, <2>1, <2>2, <2>3 DEF FnSettles, Chain!Settle
<1>6. ASSUME NEW c \in Calls, DeleteOwnEntry(c) PROVE Chain!Cleanup(c)
  <2>1. \A d \in Calls : /\ Pending(d)' = Pending(d) /\ (Resolved(d)' <=> Resolved(d))
                         /\ ChainPhase(d)' = IF d = c THEN "idle" ELSE ChainPhase(d)
    BY <1>6 DEF DeleteOwnEntry, Pending, Awaiting, Resolved, ChainPhase, LockInv, TypeOK
  <2>2. ChainPhase(c) = "settled"
    BY <1>6 DEF DeleteOwnEntry, ChainPhase
  <2>3. ahead' = [ahead EXCEPT ![c] = {}]
    <3>1. \A d \in Calls : {e \in before'[d] : ~Resolved(e)'} = {e \in before[d] : ~Resolved(e)}
      BY <1>6, <2>1 DEF DeleteOwnEntry, LockInv, TypeOK
    <3> QED
      BY <2>1, <2>2, <3>1
  <2> QED
    BY <1>6, <2>1, <2>2, <2>3 DEF DeleteOwnEntry, Chain!Cleanup
<1> QED
  BY <1>1, <1>2, <1>3, <1>4, <1>5, <1>6 DEF Next, Chain!ChainNext

(* The lock with its clock implements the abstract chain, so whatever holds  *)
(* of the chain holds of it.                                                 *)
THEOREM ChainImplemented == Spec => ImplementsChain
<1>1. Init => Chain!ChainInit
  <2> SUFFICES ASSUME Init PROVE Chain!ChainInit
    OBVIOUS
  <2>1. \A c \in Calls : ChainPhase(c) = "idle" /\ Pending(c) = NoCall
    BY DEF Init, ChainPhase, Pending, Awaiting
  <2> QED
    BY <2>1 DEF Init, Chain!ChainInit
<1>2. LockInv /\ [Next]_vars => [Chain!ChainNext]_(Chain!chainVars)
  BY ChainStep
<1> QED
  BY <1>1, <1>2, LockInvariant, PTL DEF Spec, ImplementsChain, Chain!ChainSpec
=============================================================================
