---------------------------- MODULE AgentStartLock ----------------------------
(*****************************************************************************)
(* withAgentStartLock for one agent, with its clock.  The map entry holds a  *)
(* marker promise and the time its owner *called*; a waiter gives up when    *)
(* that time lies AGENT_START_LOCK_STALE_MS back, however long the owner has *)
(* been running.  It implements StartChain under the mapping at the end.     *)
(*                                                                           *)
(* Source: server/src/services/agent-start-lock.ts                           *)
(*****************************************************************************)
EXTENDS Naturals, FiniteSets

CONSTANTS
    Calls,     \* the calls made for one agent; each is made at most once
    NoCall,
    Stale      \* AGENT_START_LOCK_STALE_MS, in ticks of the clock

ASSUME StaleAssumption == Stale \in Nat \ {0} /\ NoCall \notin Calls

VARIABLES
    phase,      \* where each call is; "done" calls have returned
    waitsFor,   \* the call whose entry a call found, never cleared
    owner,      \* whose entry startLocksByAgent holds
    age,        \* ticks since a call was made (its entry's startedAtMs), capped
    remaining,  \* remainingMs of each waiter's timer
    before,     \* history: the calls made earlier
    timedOut    \* history: the waiters whose timer won the race

vars == <<phase, waitsFor, owner, age, remaining, before, timedOut>>

Resolved(c) == phase[c] \in {"settled", "done"}

TypeOK ==
    /\ phase \in [Calls -> {"uncalled", "waiting", "body", "settled", "done"}]
    /\ waitsFor \in [Calls -> Calls \cup {NoCall}]
    /\ owner \in Calls \cup {NoCall}
    /\ age \in [Calls -> 0..Stale]
    /\ remaining \in [Calls -> 0..Stale]
    /\ before \in [Calls -> SUBSET Calls]
    /\ timedOut \subseteq Calls

Init ==
    /\ phase = [c \in Calls |-> "uncalled"]
    /\ waitsFor = [c \in Calls |-> NoCall]
    /\ owner = NoCall
    /\ age = [c \in Calls |-> 0]
    /\ remaining = [c \in Calls |-> 0]
    /\ before = [c \in Calls |-> {}]
    /\ timedOut = {}

(* Mutant: one tick too many.                                                *)
RemainingTooLong(entryOwner) ==
    IF entryOwner = NoCall THEN 0 ELSE Stale + 1 - age[entryOwner]

(* The time left is measured from the call of the entry's owner.             *)
RemainingFor(entryOwner) ==
    IF entryOwner = NoCall THEN 0 ELSE Stale - age[entryOwner]

Call(c) ==
    /\ phase[c] = "uncalled"
    /\ phase' = [phase EXCEPT ![c] = "waiting"]
    /\ waitsFor' = [waitsFor EXCEPT ![c] = owner]
    /\ remaining' = [remaining EXCEPT ![c] = RemainingFor(owner)]
    /\ owner' = c
    /\ before' = [before EXCEPT ![c] = {d \in Calls : phase[d] # "uncalled"}]
    /\ UNCHANGED <<age, timedOut>>

Awaiting(c) ==
    phase[c] = "waiting" /\ waitsFor[c] # NoCall /\ ~Resolved(waitsFor[c])

PredecessorResolved(c) ==
    /\ phase[c] = "waiting"
    /\ ~Awaiting(c)
    /\ phase' = [phase EXCEPT ![c] = "body"]
    /\ UNCHANGED <<waitsFor, owner, age, remaining, before, timedOut>>

(* Mutant: the timer does not help while fn of the predecessor runs.         *)
TimerFiresIfNotRunning(c) ==
    /\ Awaiting(c)
    /\ remaining[c] = 0 /\ phase[waitsFor[c]] # "body"
    /\ phase' = [phase EXCEPT ![c] = "body"]
    /\ timedOut' = timedOut \cup {c}
    /\ UNCHANGED <<waitsFor, owner, age, remaining, before>>

(* Mutant: the timer fires one tick early.                                   *)
TimerFiresEarly(c) ==
    /\ Awaiting(c)
    /\ remaining[c] <= 1
    /\ phase' = [phase EXCEPT ![c] = "body"]
    /\ timedOut' = timedOut \cup {c}
    /\ UNCHANGED <<waitsFor, owner, age, remaining, before>>

TimerFires(c) ==
    /\ Awaiting(c)
    /\ remaining[c] = 0
    /\ phase' = [phase EXCEPT ![c] = "body"]
    /\ timedOut' = timedOut \cup {c}
    /\ UNCHANGED <<waitsFor, owner, age, remaining, before>>

FnSettles(c) ==
    /\ phase[c] = "body"
    /\ phase' = [phase EXCEPT ![c] = "settled"]
    /\ UNCHANGED <<waitsFor, owner, age, remaining, before, timedOut>>

(* Mutant: delete the entry whoever it belongs to.                           *)
DeleteAnyEntry(c) ==
    /\ phase[c] = "settled"
    /\ phase' = [phase EXCEPT ![c] = "done"]
    /\ owner' = NoCall
    /\ UNCHANGED <<waitsFor, age, remaining, before, timedOut>>

DeleteOwnEntry(c) ==
    /\ phase[c] = "settled"
    /\ phase' = [phase EXCEPT ![c] = "done"]
    /\ owner' = IF owner = c THEN NoCall ELSE owner
    /\ UNCHANGED <<waitsFor, age, remaining, before, timedOut>>

(* Mutant: timers stand still while the predecessor itself waits.            *)
TickWhileRunning ==
    /\ \A c \in Calls : Awaiting(c) => remaining[c] > 0
    /\ age' = [c \in Calls |->
                  IF phase[c] # "uncalled" /\ age[c] < Stale THEN age[c] + 1 ELSE age[c]]
    /\ remaining' = [c \in Calls |->
                        IF Awaiting(c) /\ ~Awaiting(waitsFor[c])
                        THEN remaining[c] - 1 ELSE remaining[c]]
    /\ UNCHANGED <<phase, waitsFor, owner, before, timedOut>>

(* A due timer fires before the clock moves on.                              *)
Tick ==
    /\ \A c \in Calls : Awaiting(c) => remaining[c] > 0
    /\ age' = [c \in Calls |->
                  IF phase[c] # "uncalled" /\ age[c] < Stale THEN age[c] + 1 ELSE age[c]]
    /\ remaining' = [c \in Calls |->
                        IF Awaiting(c) THEN remaining[c] - 1 ELSE remaining[c]]
    /\ UNCHANGED <<phase, waitsFor, owner, before, timedOut>>

Next ==
    \/ Tick
    \/ \E c \in Calls : \/ Call(c)
                        \/ PredecessorResolved(c)
                        \/ TimerFires(c)
                        \/ FnSettles(c)
                        \/ DeleteOwnEntry(c)

Spec == Init /\ [][Next]_vars

(* Time passes and promise callbacks run; fn itself may hang for ever.       *)
FairSpec ==
    /\ Spec
    /\ WF_vars(Tick)
    /\ \A c \in Calls : WF_vars(PredecessorResolved(c) \/ TimerFires(c))

-------------------------------------------------------------------------------
(* The call found in the map is still pending.                               *)
Pending(c) == IF Awaiting(c) THEN waitsFor[c] ELSE NoCall

ChainPhase(c) == IF phase[c] \in {"uncalled", "done"} THEN "idle" ELSE phase[c]

Chain == INSTANCE StartChain WITH
    pc <- [c \in Calls |-> ChainPhase(c)],
    pred <- [c \in Calls |-> Pending(c)],
    entry <- owner,
    ahead <- [c \in Calls |->
                 IF ChainPhase(c) = "idle" THEN {}
                 ELSE {d \in before[c] : ~Resolved(d)}],
    forced <- (timedOut # {})

(* Refinement: entries, ages and timers behave as the abstract chain of      *)
(* pending calls, so what is shown of the chain holds of the lock.           *)
ImplementsChain == Chain!ChainSpec

(* A hung start pass cannot freeze the agent: every caller gets to its body, *)
(* even when no earlier body ever settles (heartbeat-start-lock.test.ts).    *)
WaiterProceeds == \A c \in Calls : phase[c] = "waiting" ~> phase[c] = "body"

(* A waiter overtakes its predecessor only when that predecessor was called  *)
(* at least Stale ago; it is never impatient with a fresh one.               *)
GivesUpOnlyOnStale ==
    [][\A c \in Calls : c \in timedOut' \ timedOut => age[waitsFor[c]] = Stale]_vars

(* No caller waits longer than Stale after its own call, however long the    *)
(* line in front of it is: timers count from the predecessor's call.         *)
WaitBounded == \A c \in Calls : Awaiting(c) => age[c] + remaining[c] <= Stale

(* First come, first served: a call gets past one made before it and still   *)
(* unfinished only if it gave up its wait itself, or a call between the two  *)
(* did.  A time-out elsewhere in the line does not put it out of order.      *)
Through(c) == phase[c] \in {"body", "settled", "done"}

OvertakesOnlyByTimeout ==
    \A c \in Calls : \A d \in before[c] :
        Through(c) /\ ~Resolved(d) =>
            \E e \in timedOut : d \in before[e] /\ (e = c \/ e \in before[c])

(* What the theorems need besides: calls refer to calls that were made, the  *)
(* entry is that of a call that has not returned, and a timer and the age of *)
(* the call it was set by add up to the stale time.                          *)
LockInv ==
    /\ TypeOK
    /\ WaitBounded
    /\ owner # NoCall => phase[owner] \notin {"uncalled", "done"}
    /\ \A c \in Calls : phase[c] = "uncalled" => age[c] = 0
    /\ \A c \in Calls : Awaiting(c) => /\ phase[waitsFor[c]] # "uncalled"
                                       /\ age[waitsFor[c]] + remaining[c] = Stale

(* The calls stand in one line: each found the one before it in the map, or  *)
(* that one had returned; the last one is the entry, or has removed it.      *)
Made == {c \in Calls : phase[c] # "uncalled"}

LastMade(c) == c \in Made /\ Made = before[c] \cup {c}

InLine ==
    /\ \A c \in Calls : before[c] \subseteq Made /\ c \notin before[c]
    /\ \A c \in Calls : \A d \in before[c] : before[d] \subseteq before[c]
    /\ owner # NoCall => LastMade(owner)
    /\ owner = NoCall => Made = {} \/ \E c \in Calls : LastMade(c) /\ phase[c] = "done"
    /\ \A c \in Made : waitsFor[c] # NoCall =>
          before[c] = before[waitsFor[c]] \cup {waitsFor[c]}
    /\ \A c \in Made : waitsFor[c] = NoCall =>
          before[c] = {} \/ \E d \in before[c] :
                               phase[d] = "done" /\ before[c] = before[d] \cup {d}

LineInv == InLine /\ OvertakesOnlyByTimeout
=============================================================================
