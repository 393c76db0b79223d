------------------------------ MODULE StartChain ------------------------------
(*****************************************************************************)
(* What withAgentStartLock promises its callers, without the clock: the      *)
(* calls made for one agent form a chain of promises, each waiting for the   *)
(* call that was newest when it arrived.  A waiter may also stop waiting by  *)
(* timeout; `forced` remembers that this has happened.  AgentStartLock adds  *)
(* the clock that decides when; RunClaim runs queued-run starts inside.      *)
(*                                                                           *)
(* Source: server/src/services/agent-start-lock.ts                           *)
(*****************************************************************************)
EXTENDS Naturals, FiniteSets

CONSTANTS
    Calls,    \* slots for concurrent calls of withAgentStartLock for one agent
    NoCall    \* "no predecessor", "no map entry"

ASSUME NoCallAssumption == NoCall \notin Calls

VARIABLES
    pc,       \* phase of each call
    pred,     \* the unresolved marker promise each waiter races against
    entry,    \* startLocksByAgent.get(agentId): whose marker is stored
    ahead,    \* history: the calls that were unfinished when this one arrived
    forced    \* history: some waiter has proceeded by timeout

chainVars == <<pc, pred, entry, ahead, forced>>

Phases == {"idle", "waiting", "body", "settled"}

Live == {c \in Calls : pc[c] \in {"waiting", "body"}}

ChainTypeOK ==
    /\ pc \in [Calls -> Phases]
    /\ pred \in [Calls -> Calls \cup {NoCall}]
    /\ entry \in Calls \cup {NoCall}
    /\ ahead \in [Calls -> SUBSET Calls]
    /\ forced \in BOOLEAN

ChainInit ==
    /\ pc = [c \in Calls |-> "idle"]
    /\ pred = [c \in Calls |-> NoCall]
    /\ entry = NoCall
    /\ ahead = [c \in Calls |-> {}]
    /\ forced = FALSE

(* Everything up to the await is synchronous: read the entry, build the      *)
(* promise that waits for it, overwrite the entry with the own marker.  A    *)
(* marker that has already resolved delays its follower no further.          *)
Enter(c) ==
    /\ pc[c] = "idle"
    /\ pc' = [pc EXCEPT ![c] = "waiting"]
    /\ pred' = [pred EXCEPT ![c] = IF entry \in Live THEN entry ELSE NoCall]
    /\ entry' = c
    /\ ahead' = [ahead EXCEPT ![c] = Live]
    /\ UNCHANGED forced

(* Mutant: run fn without waiting for the predecessor's marker.              *)
ProceedAtOnce(c) ==
    /\ pc[c] = "waiting"
    /\ pc' = [pc EXCEPT ![c] = "body"]
    /\ pred' = [pred EXCEPT ![c] = NoCall]
    /\ UNCHANGED <<entry, ahead, forced>>

(* waitForPrevious has resolved because there is nothing left to wait for.   *)
Proceed(c) ==
    /\ pc[c] = "waiting"
    /\ pred[c] = NoCall
    /\ pc' = [pc EXCEPT ![c] = "body"]
    /\ UNCHANGED <<pred, entry, ahead, forced>>

(* waitForPrevious has resolved because its timer fired first.               *)
ProceedByTimeout(c) ==
    /\ pc[c] = "waiting"
    /\ pred[c] # NoCall
    /\ pc' = [pc EXCEPT ![c] = "body"]
    /\ pred' = [pred EXCEPT ![c] = NoCall]
    /\ forced' = TRUE
    /\ UNCHANGED <<entry, ahead>>

(* fn has resolved or rejected: the marker resolves and wakes its followers. *)
Settle(c) ==
    /\ pc[c] = "body"
    /\ pc' = [pc EXCEPT ![c] = "settled"]
    /\ pred' = [d \in Calls |-> IF pred[d] = c THEN NoCall ELSE pred[d]]
    /\ ahead' = [d \in Calls |-> ahead[d] \ {c}]
    /\ UNCHANGED <<entry, forced>>

(* The finally block removes the entry only if it is still the own marker.   *)
Cleanup(c) ==
    /\ pc[c] = "settled"
    /\ pc' = [pc EXCEPT ![c] = "idle"]
    /\ entry' = IF entry = c THEN NoCall ELSE entry
    /\ ahead' = [ahead EXCEPT ![c] = {}]
    /\ UNCHANGED <<pred, forced>>

ChainNext ==
    \E c \in Calls :
        Enter(c) \/ Proceed(c) \/ ProceedByTimeout(c) \/ Settle(c) \/ Cleanup(c)

ChainSpec == ChainInit /\ [][ChainNext]_chainVars

-------------------------------------------------------------------------------
(* Unless a timeout has broken the chain, at most one start pass per agent   *)
(* is in its body: counting running runs and claiming queued ones is one     *)
(* critical section per agent.                                               *)
SerialUnlessForced ==
    ~forced => \A c, d \in Calls : pc[c] = "body" /\ pc[d] = "body" => c = d

(* Unless a timeout has broken the chain, start passes run in the order of   *)
(* their arrival: none is in its body before all that came earlier are done. *)
FifoUnlessForced ==
    ~forced => \A c \in Calls : pc[c] = "body" => ahead[c] = {}

(* The entry always leads to the newest unfinished call, so a newcomer can   *)
(* never slip in beside work that is still going on: the finally block of an *)
(* older call must not delete a newer call's entry.                          *)
EntryCoversLive ==
    ~forced /\ Live # {} =>
        entry \in Live /\ \A c \in Live : c = entry \/ c \in ahead[entry]

(* The strengthening of the three: waiting lines are exactly the chain.      *)
ChainInv ==
    /\ ChainTypeOK
    /\ \A c \in Calls : c \notin Live => pred[c] = NoCall
    /\ \A c \in Calls : c \notin ahead[c] /\ ahead[c] \subseteq Live
    /\ \A c \in Calls : pred[c] # NoCall => pc[c] = "waiting" /\ pred[c] \in Live
    /\ ~forced =>
          /\ \A c \in Live : pred[c] = NoCall => ahead[c] = {}
          /\ \A c \in Live : pred[c] # NoCall =>
                ahead[c] = ahead[pred[c]] \cup {pred[c]}
          /\ \A c, d \in Live : c # d => c \in ahead[d] \/ d \in ahead[c]
          /\ EntryCoversLive
=============================================================================
