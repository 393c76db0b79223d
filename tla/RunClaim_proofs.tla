--------------------------- MODULE RunClaim_proofs ---------------------------
(*****************************************************************************)
(* Start passes never claim beyond maxConcurrentRuns before a start-lock     *)
(* wait has timed out, never execute a run twice, and leave a paused agent   *)
(* quiet: for any sets of calls and runs and any limit.  ClaimInv is         *)
(* inductive: it adds to the chain's invariant which locals mean something   *)
(* at which step (Shape), that a claimed run is never queued again           *)
(* (Ownership), that what a pass has counted stays a bound on what others    *)
(* run (Capacity), and that a sweep has seen whatever can still be claimed   *)
(* (PauseInv).  One lemma per action, one step per conjunct.                 *)
(*****************************************************************************)
EXTENDS RunClaim, StartChain_proofs, FiniteSetTheorems, WellFoundedInduction

(* A step of the passes is a step of the chain or leaves it alone.           *)
LEMMA ChainStep == Next => [ChainNext]_chainVars
BY DEF Next, PassStep, ApiStep, StartNext, EnterBody, StopWaiting, Return,
   Reject, Throw, Reap, Stamp,
   ReleaseEntry, ReadAgent, CountRunning, SelectQueued, PickRun, CheckGates, Claim,
   CancelQueued, CancelRead, CancelWrite, StartNested, ResumeClaim, Enqueue, RunEnds,
   CloseGate, ApiCancelRead, ApiCancelWrite, Pause, SweepRead, SweepWrite, Resume,
   ChainNext, chainVars

(* What is used of the cardinality of sets of runs.                          *)
LEMMA RunSetCardinality ==
    /\ \A S \in SUBSET Runs : IsFiniteSet(S) /\ Cardinality(S) \in Nat
    /\ \A S, T \in SUBSET Runs : S \subseteq T => Cardinality(S) <= Cardinality(T)
    /\ \A S \in SUBSET Runs : \A r \in Runs \ S : Cardinality(S \cup {r}) = Cardinality(S) + 1
    /\ \A S, T \in SUBSET Runs : Cardinality(S) <= Cardinality(S \ T) + Cardinality(T)
    /\ Cardinality({}) = 0
<1>1. \A S \in SUBSET Runs : IsFiniteSet(S) /\ Cardinality(S) \in Nat
  BY ClaimAssumption, FS_Subset, FS_CardinalityType
<1>2. \A S, T \in SUBSET Runs : S \subseteq T => Cardinality(S) <= Cardinality(T)
  BY <1>1, FS_Subset
<1>3. \A S \in SUBSET Runs : \A r \in Runs \ S : Cardinality(S \cup {r}) = Cardinality(S) + 1
  BY <1>1, FS_AddElement
<1>4. \A S, T \in SUBSET Runs : Cardinality(S) <= Cardinality(S \ T) + Cardinality(T)
  <2> SUFFICES ASSUME NEW S \in SUBSET Runs, NEW T \in SUBSET Runs
               PROVE  Cardinality(S) <= Cardinality(S \ T) + Cardinality(T)
    OBVIOUS
  <2> DEFINE D == S \ T
  <2>1. IsFiniteSet(D) /\ IsFiniteSet(T) /\ Cardinality(D) \in Nat /\ Cardinality(T) \in Nat
    BY <1>1
  <2>2. D \cap T = {} /\ S \subseteq D \cup T /\ D \cup T \in SUBSET Runs
    OBVIOUS
  <2>3. Cardinality(D \cup T) = Cardinality(D) + Cardinality(T) - Cardinality(D \cap T)
    BY <2>1, FS_Union
  <2>4. Cardinality(D \cap T) = 0
    BY <2>2, FS_EmptySet
  <2>5. Cardinality(S) <= Cardinality(D \cup T)
    BY <1>2, <2>2
  <2>6. Cardinality(S) \in Nat
    BY <1>1
  <2> QED
    BY <2>1, <2>3, <2>4, <2>5, <2>6
<1> QED
  BY <1>1, <1>2, <1>3, <1>4, FS_EmptySet

(* Runs that stop running, in whatever way, only free capacity.              *)
LEMMA FewerRunningKeepsCapacity ==
    ASSUME TypeOK, Capacity, RunningRuns' \subseteq RunningRuns,
           claimed' = claimed, slots' = slots, forced' = forced,
           \A c \in Calls : /\ step'[c] \in Counted => step[c] \in Counted
                            /\ step'[c] \in Targeting => step[c] \in Targeting
    PROVE  Capacity'
<1>1. RunningRuns \in SUBSET Runs /\ RunningRuns' \in SUBSET Runs
  BY DEF RunningRuns
<1>2. Cardinality(RunningRuns') <= Cardinality(RunningRuns)
  BY <1>1, RunSetCardinality
<1>3. \A c \in Calls :
        Cardinality(RunningRuns' \ claimed[c]) <= Cardinality(RunningRuns \ claimed[c])
  <2> SUFFICES ASSUME NEW c \in Calls
               PROVE  Cardinality(RunningRuns' \ claimed[c])
                         <= Cardinality(RunningRuns \ claimed[c])
    OBVIOUS
  <2>1. /\ RunningRuns' \ claimed[c] \in SUBSET Runs
        /\ RunningRuns \ claimed[c] \in SUBSET Runs
        /\ RunningRuns' \ claimed[c] \subseteq RunningRuns \ claimed[c]
    BY <1>1
  <2> QED
    BY <2>1, RunSetCardinality
<1>4. /\ Cardinality(RunningRuns) \in Nat /\ Cardinality(RunningRuns') \in Nat
      /\ \A c \in Calls : /\ Cardinality(RunningRuns \ claimed[c]) \in Nat
                          /\ Cardinality(RunningRuns' \ claimed[c]) \in Nat
                          /\ slots[c] \in Nat
  <2>1. \A c \in Calls : /\ RunningRuns' \ claimed[c] \in SUBSET Runs
                         /\ RunningRuns \ claimed[c] \in SUBSET Runs
    BY <1>1
  <2> QED
    BY <1>1, <2>1, RunSetCardinality DEF TypeOK
<1>5. MaxConcurrent \in Nat
  BY ClaimAssumption
<1> SUFFICES ASSUME ~forced
             PROVE  /\ Cardinality(RunningRuns') <= MaxConcurrent
                    /\ \A c \in Calls : step'[c] \in Counted =>
                         /\ Cardinality(RunningRuns' \ claimed[c]) + slots[c] <= MaxConcurrent
                         /\ Cardinality(claimed[c]) <= slots[c]
                         /\ step'[c] \in Targeting => Cardinality(claimed[c]) < slots[c]
  BY DEF Capacity
<1>6. Cardinality(RunningRuns') <= MaxConcurrent
  BY <1>2, <1>4, <1>5 DEF Capacity
<1>7. ASSUME NEW c \in Calls, step'[c] \in Counted
      PROVE  /\ Cardinality(RunningRuns' \ claimed[c]) + slots[c] <= MaxConcurrent
             /\ Cardinality(claimed[c]) <= slots[c]
             /\ step'[c] \in Targeting => Cardinality(claimed[c]) < slots[c]
  <2>1. /\ Cardinality(RunningRuns \ claimed[c]) + slots[c] <= MaxConcurrent
        /\ Cardinality(claimed[c]) <= slots[c]
        /\ step[c] \in Targeting => Cardinality(claimed[c]) < slots[c]
    BY <1>7 DEF Capacity
  <2>2. Cardinality(RunningRuns' \ claimed[c]) + slots[c] <= MaxConcurrent
    <3> DEFINE more == Cardinality(RunningRuns \ claimed[c])
               less == Cardinality(RunningRuns' \ claimed[c])
    <3>1. less <= more /\ less \in Nat /\ more \in Nat /\ slots[c] \in Nat
      BY <1>3, <1>4
    <3>2. more + slots[c] <= MaxConcurrent
      BY <2>1
    <3> HIDE DEF more, less
    <3>3. less + slots[c] <= MaxConcurrent
      BY <1>5, <3>1, <3>2
    <3> QED
      BY <3>3 DEF less
  <2> QED
    BY <1>7, <2>1, <2>2
<1> QED
  BY <1>6, <1>7

(* Without a timeout there is one pass in its body: the others count nothing. *)
LEMMA OnlyOneCounts ==
    ASSUME ClaimInv, ~forced, NEW c \in Calls, pc[c] = "body",
           NEW d \in Calls, step[d] \in Counted
    PROVE  d = c
<1>1. pc[d] = "body"
  BY DEF ClaimInv, TypeOK, ChainTypeOK, Phases, Shape, Counted, Targeting
<1> QED
  BY <1>1, ChainInvSerial DEF ClaimInv, SerialUnlessForced

LEMMA StartNextPreserves ==
    ASSUME ClaimInv, ChainInv', NEW c \in Calls, StartNext(c)
    PROVE  ClaimInv'
<1>1. TypeOK'
  BY ClaimAssumption, NoCallAssumption DEF ClaimInv, ChainInv, TypeOK, Shape,
     Targeting, Steps, NoSweep, RunningRuns, QueuedRuns, StartNext, Enter,
     chainVars, bodyVars, apiVars
<1>2. Shape'
  BY ClaimAssumption, NoCallAssumption DEF ClaimInv, TypeOK, ChainTypeOK, Phases,
     Shape, Targeting, StartNext, Enter, chainVars, bodyVars, apiVars, At
<1>3. Ownership'
  BY DEF ClaimInv, TypeOK, ChainTypeOK, Shape, Targeting, Ownership, ClaimedOnce,
     RunningHasExecutor, RunningRuns, Cancellable, StartNext, Enter, chainVars,
     bodyVars, apiVars
<1>4. Capacity'
  BY RunSetCardinality, ClaimAssumption DEF ClaimInv, TypeOK, ChainTypeOK, Capacity,
     Shape, Targeting, Counted, RunningRuns, StartNext, Enter, chainVars, bodyVars,
     apiVars
<1>5. PauseInv'
  BY ClaimAssumption DEF ClaimInv, TypeOK, ChainTypeOK, PauseInv, Shape, Targeting,
     RunningRuns, QueuedRuns, NoSweep, StartNext, Enter, chainVars, bodyVars,
     apiVars, At
<1> QED
  BY <1>1, <1>2, <1>3, <1>4, <1>5 DEF ClaimInv

LEMMA EnterBodyPreserves ==
    ASSUME ClaimInv, ChainInv', NEW c \in Calls, EnterBody(c)
    PROVE  ClaimInv'
<1>1. TypeOK'
  BY ClaimAssumption, NoCallAssumption DEF ClaimInv, ChainInv, TypeOK, Shape,
     Targeting, Steps, NoSweep, RunningRuns, QueuedRuns, EnterBody, Proceed,
     chainVars, bodyVars, apiVars
<1>2. Shape'
  BY ClaimAssumption, NoCallAssumption DEF ClaimInv, TypeOK, ChainTypeOK, Phases,
     Shape, Targeting, EnterBody, Proceed, chainVars, bodyVars, apiVars, At
<1>3. Ownership'
  BY DEF ClaimInv, TypeOK, ChainTypeOK, Shape, Targeting, Ownership, ClaimedOnce,
     RunningHasExecutor, RunningRuns, Cancellable, EnterBody, Proceed, chainVars,
     bodyVars, apiVars
<1>4. Capacity'
  BY RunSetCardinality, ClaimAssumption DEF ClaimInv, TypeOK, ChainTypeOK, Capacity,
     Shape, Targeting, Counted, RunningRuns, EnterBody, Proceed, chainVars,
     bodyVars, apiVars
<1>5. PauseInv'
  BY ClaimAssumption DEF ClaimInv, TypeOK, ChainTypeOK, PauseInv, Shape, Targeting,
     RunningRuns, QueuedRuns, NoSweep, EnterBody, Proceed, chainVars, bodyVars,
     apiVars, At
<1> QED
  BY <1>1, <1>2, <1>3, <1>4, <1>5 DEF ClaimInv

LEMMA StopWaitingPreserves ==
    ASSUME ClaimInv, ChainInv', NEW c \in Calls, StopWaiting(c)
    PROVE  ClaimInv'
<1>1. TypeOK'
  BY ClaimAssumption, NoCallAssumption DEF ClaimInv, ChainInv, TypeOK, Shape,
     Targeting, Steps, NoSweep, RunningRuns, QueuedRuns, StopWaiting,
     ProceedByTimeout, chainVars, bodyVars, apiVars
<1>2. Shape'
  BY ClaimAssumption, NoCallAssumption DEF ClaimInv, TypeOK, ChainTypeOK, Phases,
     Shape, Targeting, StopWaiting, ProceedByTimeout, chainVars, bodyVars, apiVars, At
<1>3. Ownership'
  BY DEF ClaimInv, TypeOK, ChainTypeOK, Shape, Targeting, Ownership, ClaimedOnce,
     RunningHasExecutor, RunningRuns, Cancellable, StopWaiting, ProceedByTimeout,
     chainVars, bodyVars, apiVars
<1>4. Capacity'
  BY RunSetCardinality, ClaimAssumption DEF ClaimInv, TypeOK, ChainTypeOK, Capacity,
     Shape, Targeting, Counted, RunningRuns, StopWaiting, ProceedByTimeout,
     chainVars, bodyVars, apiVars
<1>5. PauseInv'
  BY ClaimAssumption DEF ClaimInv, TypeOK, ChainTypeOK, PauseInv, Shape, Targeting,
     RunningRuns, QueuedRuns, NoSweep, StopWaiting, ProceedByTimeout, chainVars,
     bodyVars, apiVars, At
<1> QED
  BY <1>1, <1>2, <1>3, <1>4, <1>5 DEF ClaimInv

LEMMA ReturnPreserves ==
    ASSUME ClaimInv, ChainInv', NEW c \in Calls, Return(c)
    PROVE  ClaimInv'
<1>1. TypeOK'
  BY ClaimAssumption, NoCallAssumption DEF ClaimInv, ChainInv, TypeOK, Shape,
     Targeting, Steps, NoSweep, RunningRuns, QueuedRuns, Return, Settle, chainVars,
     bodyVars, apiVars
<1>2. Shape'
  BY ClaimAssumption, NoCallAssumption DEF ClaimInv, TypeOK, ChainTypeOK, Phases,
     Shape, Targeting, Return, Settle, chainVars, bodyVars, apiVars, At
<1>3. Ownership'
  BY DEF ClaimInv, TypeOK, ChainTypeOK, Shape, Targeting, Ownership, ClaimedOnce,
     RunningHasExecutor, RunningRuns, Cancellable, Return, Settle, chainVars,
     bodyVars, apiVars
<1>4. Capacity'
  <2>1. RunningRuns' = RunningRuns /\ forced' = forced
    BY DEF Return, Settle, RunningRuns
  <2>2. ASSUME NEW d \in Calls, step'[d] \in Counted
        PROVE  step'[d] = step[d] /\ claimed'[d] = claimed[d] /\ slots'[d] = slots[d]
    BY <2>2 DEF ClaimInv, TypeOK, Return, Counted, Targeting
  <2> QED
    BY <2>1, <2>2 DEF ClaimInv, Capacity
<1>5. PauseInv'
  BY ClaimAssumption DEF ClaimInv, TypeOK, ChainTypeOK, PauseInv, Shape, Targeting,
     RunningRuns, QueuedRuns, NoSweep, Return, Settle, chainVars, bodyVars, apiVars, At
<1> QED
  BY <1>1, <1>2, <1>3, <1>4, <1>5 DEF ClaimInv

LEMMA RejectPreserves ==
    ASSUME ClaimInv, ChainInv', NEW c \in Calls, Reject(c)
    PROVE  ClaimInv'
<1>1. TypeOK'
  BY ClaimAssumption, NoCallAssumption DEF ClaimInv, ChainInv, TypeOK, Shape,
     Targeting, Steps, NoSweep, RunningRuns, QueuedRuns, Reject, Settle, chainVars,
     bodyVars, apiVars
<1>2. Shape'
  BY ClaimAssumption, NoCallAssumption DEF ClaimInv, TypeOK, ChainTypeOK, Phases,
     Shape, Targeting, Reject, Settle, chainVars, bodyVars, apiVars, At
<1>3. Ownership'
  BY DEF ClaimInv, TypeOK, ChainTypeOK, Shape, Targeting, Ownership, ClaimedOnce,
     RunningHasExecutor, RunningRuns, Cancellable, Reject, Settle, chainVars,
     bodyVars, apiVars
<1>4. Capacity'
  <2>1. RunningRuns' = RunningRuns /\ forced' = forced
    BY DEF Reject, Settle, RunningRuns
  <2>2. ASSUME NEW d \in Calls, step'[d] \in Counted
        PROVE  step'[d] = step[d] /\ claimed'[d] = claimed[d] /\ slots'[d] = slots[d]
    BY <2>2 DEF ClaimInv, TypeOK, Reject, Counted, Targeting
  <2> QED
    BY <2>1, <2>2 DEF ClaimInv, Capacity
<1>5. PauseInv'
  BY ClaimAssumption DEF ClaimInv, TypeOK, ChainTypeOK, PauseInv, Shape, Targeting,
     RunningRuns, QueuedRuns, NoSweep, Reject, Settle, chainVars, bodyVars, apiVars, At
<1> QED
  BY <1>1, <1>2, <1>3, <1>4, <1>5 DEF ClaimInv

LEMMA ThrowPreserves ==
    ASSUME ClaimInv, ChainInv', NEW c \in Calls, Throw(c)
    PROVE  ClaimInv'
<1>1. TypeOK'
  BY ClaimAssumption, NoCallAssumption DEF ClaimInv, ChainInv, TypeOK, Shape,
     Targeting, Steps, NoSweep, RunningRuns, QueuedRuns, Throw, chainVars,
     bodyVars, apiVars, At, Goto
<1>2. Shape'
  BY ClaimAssumption, NoCallAssumption DEF ClaimInv, TypeOK, ChainTypeOK, Phases,
     Shape, Targeting, Throw, chainVars, bodyVars, apiVars, At, Goto
<1>3. Ownership'
  BY DEF ClaimInv, TypeOK, ChainTypeOK, Shape, Targeting, Ownership, ClaimedOnce,
     RunningHasExecutor, RunningRuns, Cancellable, Throw, chainVars, bodyVars,
     apiVars, At, Goto
<1>4. Capacity'
  BY RunSetCardinality, ClaimAssumption DEF ClaimInv, TypeOK, ChainTypeOK, Capacity,
     Shape, Targeting, Counted, RunningRuns, Throw, chainVars, bodyVars,
     apiVars, At, Goto
<1>5. PauseInv'
  BY ClaimAssumption DEF ClaimInv, TypeOK, ChainTypeOK, PauseInv, Shape, Targeting,
     RunningRuns, QueuedRuns, NoSweep, Throw, chainVars, bodyVars, apiVars, At,
     Goto
<1> QED
  BY <1>1, <1>2, <1>3, <1>4, <1>5 DEF ClaimInv

LEMMA ReleaseEntryPreserves ==
    ASSUME ClaimInv, ChainInv', NEW c \in Calls, ReleaseEntry(c)
    PROVE  ClaimInv'
<1>1. TypeOK'
  BY ClaimAssumption, NoCallAssumption DEF ClaimInv, ChainInv, TypeOK, Shape,
     Targeting, Steps, NoSweep, RunningRuns, QueuedRuns, ReleaseEntry, Cleanup,
     chainVars, bodyVars, apiVars
<1>2. Shape'
  BY ClaimAssumption, NoCallAssumption DEF ClaimInv, TypeOK, ChainTypeOK, Phases,
     Shape, Targeting, ReleaseEntry, Cleanup, chainVars, bodyVars, apiVars, At
<1>3. Ownership'
  BY DEF ClaimInv, TypeOK, ChainTypeOK, Shape, Targeting, Ownership, ClaimedOnce,
     RunningHasExecutor, RunningRuns, Cancellable, ReleaseEntry, Cleanup, chainVars,
     bodyVars, apiVars
<1>4. Capacity'
  BY RunSetCardinality, ClaimAssumption DEF ClaimInv, TypeOK, ChainTypeOK, Capacity,
     Shape, Targeting, Counted, RunningRuns, ReleaseEntry, Cleanup, chainVars,
     bodyVars, apiVars
<1>5. PauseInv'
  BY ClaimAssumption DEF ClaimInv, TypeOK, ChainTypeOK, PauseInv, Shape, Targeting,
     RunningRuns, QueuedRuns, NoSweep, ReleaseEntry, Cleanup, chainVars, bodyVars,
     apiVars, At
<1> QED
  BY <1>1, <1>2, <1>3, <1>4, <1>5 DEF ClaimInv

LEMMA ReadAgentPreserves ==
    ASSUME ClaimInv, ChainInv', NEW c \in Calls, ReadAgent(c)
    PROVE  ClaimInv'
<1>1. TypeOK'
  BY ClaimAssumption, NoCallAssumption DEF ClaimInv, ChainInv, TypeOK, Shape,
     Targeting, Steps, NoSweep, RunningRuns, QueuedRuns, ReadAgent, chainVars,
     bodyVars, apiVars, At, Goto
<1>2. Shape'
  BY ClaimAssumption, NoCallAssumption DEF ClaimInv, TypeOK, ChainTypeOK, Phases,
     Shape, Targeting, ReadAgent, chainVars, bodyVars, apiVars, At, Goto
<1>3. Ownership'
  BY DEF ClaimInv, TypeOK, ChainTypeOK, Shape, Targeting, Ownership, ClaimedOnce,
     RunningHasExecutor, RunningRuns, Cancellable, ReadAgent, chainVars, bodyVars,
     apiVars, At, Goto
<1>4. Capacity'
  BY RunSetCardinality, ClaimAssumption DEF ClaimInv, TypeOK, ChainTypeOK, Capacity,
     Shape, Targeting, Counted, RunningRuns, ReadAgent, chainVars, bodyVars,
     apiVars, At, Goto
<1>5. PauseInv'
  BY ClaimAssumption DEF ClaimInv, TypeOK, ChainTypeOK, PauseInv, Shape, Targeting,
     RunningRuns, QueuedRuns, NoSweep, ReadAgent, chainVars, bodyVars, apiVars, At,
     Goto
<1> QED
  BY <1>1, <1>2, <1>3, <1>4, <1>5 DEF ClaimInv

LEMMA CountRunningPreserves ==
    ASSUME ClaimInv, ChainInv', NEW c \in Calls, CountRunning(c)
    PROVE  ClaimInv'
<1>1. TypeOK'
  BY ClaimAssumption, NoCallAssumption, RunSetCardinality DEF ClaimInv, ChainInv,
     TypeOK, Shape, Targeting, Steps, NoSweep, RunningRuns, QueuedRuns,
     CountRunning, chainVars, bodyVars, apiVars, At, Goto
<1>2. Shape'
  BY ClaimAssumption, NoCallAssumption DEF ClaimInv, TypeOK, ChainTypeOK, Phases,
     Shape, Targeting, CountRunning, chainVars, bodyVars, apiVars, At, Goto
<1>3. Ownership'
  BY DEF ClaimInv, TypeOK, ChainTypeOK, Shape, Targeting, Ownership, ClaimedOnce,
     RunningHasExecutor, RunningRuns, Cancellable, CountRunning, chainVars,
     bodyVars, apiVars, At, Goto
<1>4. Capacity'
  <2> SUFFICES ASSUME ~forced
               PROVE  Capacity'
    BY DEF CountRunning, chainVars, Capacity
  <2>1. /\ RunningRuns' = RunningRuns /\ claimed' = claimed /\ forced' = forced
        /\ pc[c] = "body" /\ claimed[c] = {}
        /\ \A d \in Calls : d # c => step'[d] = step[d]
    BY DEF ClaimInv, TypeOK, Shape, RunningRuns, CountRunning, At, Goto, chainVars
  <2>2. \A d \in Calls : step'[d] \in Counted => d = c
    BY <2>1, OnlyOneCounts
  <2>3. RunningRuns \ claimed[c] = RunningRuns /\ Cardinality(claimed[c]) = 0
    BY <2>1, RunSetCardinality
  <2>4. RunningRuns \in SUBSET Runs /\ Cardinality(RunningRuns) \in Nat
    BY RunSetCardinality DEF RunningRuns
  <2>5. step'[c] \in Counted => Cardinality(RunningRuns) + slots'[c] <= MaxConcurrent
    BY <2>4, ClaimAssumption
       DEF ClaimInv, TypeOK, CountRunning, At, Goto, Counted, Targeting
  <2>6. step'[c] \notin Targeting /\ slots'[c] \in Nat
    BY <2>4, ClaimAssumption DEF ClaimInv, TypeOK, CountRunning, At, Goto, Targeting
  <2>7. Cardinality(RunningRuns) <= MaxConcurrent
    BY DEF ClaimInv, Capacity
  <2>8. step'[c] \in Counted =>
          /\ Cardinality(RunningRuns' \ claimed'[c]) + slots'[c] <= MaxConcurrent
          /\ Cardinality(claimed'[c]) <= slots'[c]
          /\ step'[c] \notin Targeting
    BY <2>1, <2>3, <2>5, <2>6
  <2>9. Cardinality(RunningRuns') <= MaxConcurrent
    BY <2>1, <2>7
  <2> QED
    BY <2>2, <2>8, <2>9 DEF Capacity
<1>5. PauseInv'
  BY ClaimAssumption DEF ClaimInv, TypeOK, ChainTypeOK, PauseInv, Shape, Targeting,
     RunningRuns, QueuedRuns, NoSweep, CountRunning, chainVars, bodyVars, apiVars,
     At, Goto
<1> QED
  BY <1>1, <1>2, <1>3, <1>4, <1>5 DEF ClaimInv

LEMMA SelectQueuedPreserves ==
    ASSUME ClaimInv, ChainInv', NEW c \in Calls, SelectQueued(c)
    PROVE  ClaimInv'
<1>1. TypeOK'
  BY ClaimAssumption, NoCallAssumption DEF ClaimInv, ChainInv, TypeOK, Shape,
     Targeting, Steps, NoSweep, RunningRuns, QueuedRuns, SelectQueued, chainVars,
     bodyVars, apiVars, At, Goto
<1>2. Shape'
  BY ClaimAssumption, NoCallAssumption DEF ClaimInv, TypeOK, ChainTypeOK, Phases,
     Shape, Targeting, SelectQueued, chainVars, bodyVars, apiVars, At, Goto
<1>3. Ownership'
  BY DEF ClaimInv, TypeOK, ChainTypeOK, Shape, Targeting, Ownership, ClaimedOnce,
     RunningHasExecutor, RunningRuns, Cancellable, SelectQueued, chainVars,
     bodyVars, apiVars, At, Goto
<1>4. Capacity'
  BY RunSetCardinality, ClaimAssumption DEF ClaimInv, TypeOK, ChainTypeOK, Capacity,
     Shape, Targeting, Counted, RunningRuns, SelectQueued, chainVars, bodyVars,
     apiVars, At, Goto
<1>5. PauseInv'
  BY ClaimAssumption DEF ClaimInv, TypeOK, ChainTypeOK, PauseInv, Shape, Targeting,
     RunningRuns, QueuedRuns, NoSweep, SelectQueued, chainVars, bodyVars, apiVars,
     At, Goto
<1> QED
  BY <1>1, <1>2, <1>3, <1>4, <1>5 DEF ClaimInv

LEMMA PickRunPreserves ==
    ASSUME ClaimInv, ChainInv', NEW c \in Calls, PickRun(c)
    PROVE  ClaimInv'
<1>1. TypeOK'
  BY ClaimAssumption, NoCallAssumption DEF ClaimInv, ChainInv, TypeOK, Shape,
     Targeting, Steps, NoSweep, RunningRuns, QueuedRuns, PickRun, chainVars,
     bodyVars, apiVars, At, Goto
<1>2. Shape'
  BY ClaimAssumption, NoCallAssumption DEF ClaimInv, TypeOK, ChainTypeOK, Phases,
     Shape, Targeting, PickRun, chainVars, bodyVars, apiVars, At, Goto
<1>3. Ownership'
  BY DEF ClaimInv, TypeOK, ChainTypeOK, Shape, Targeting, Ownership, ClaimedOnce,
     RunningHasExecutor, RunningRuns, Cancellable, PickRun, chainVars, bodyVars,
     apiVars, At, Goto
<1>4. Capacity'
  BY RunSetCardinality, ClaimAssumption DEF ClaimInv, TypeOK, ChainTypeOK, Capacity,
     Shape, Targeting, Counted, RunningRuns, PickRun, chainVars, bodyVars, apiVars,
     At, Goto
<1>5. PauseInv'
  BY ClaimAssumption DEF ClaimInv, TypeOK, ChainTypeOK, PauseInv, Shape, Targeting,
     RunningRuns, QueuedRuns, NoSweep, PickRun, chainVars, bodyVars, apiVars, At,
     Goto
<1> QED
  BY <1>1, <1>2, <1>3, <1>4, <1>5 DEF ClaimInv

LEMMA CheckGatesPreserves ==
    ASSUME ClaimInv, ChainInv', NEW c \in Calls, CheckGates(c)
    PROVE  ClaimInv'
<1>1. TypeOK'
  BY ClaimAssumption, NoCallAssumption DEF ClaimInv, ChainInv, TypeOK, Shape,
     Targeting, Steps, NoSweep, RunningRuns, QueuedRuns, CheckGates, chainVars,
     bodyVars, apiVars, At, Goto
<1>2. Shape'
  BY ClaimAssumption, NoCallAssumption DEF ClaimInv, TypeOK, ChainTypeOK, Phases,
     Shape, Targeting, CheckGates, chainVars, bodyVars, apiVars, At, Goto
<1>3. Ownership'
  BY DEF ClaimInv, TypeOK, ChainTypeOK, Shape, Targeting, Ownership, ClaimedOnce,
     RunningHasExecutor, RunningRuns, Cancellable, CheckGates, chainVars, bodyVars,
     apiVars, At, Goto
<1>4. Capacity'
  BY RunSetCardinality, ClaimAssumption DEF ClaimInv, TypeOK, ChainTypeOK, Capacity,
     Shape, Targeting, Counted, RunningRuns, CheckGates, chainVars, bodyVars,
     apiVars, At, Goto
<1>5. PauseInv'
  BY ClaimAssumption DEF ClaimInv, TypeOK, ChainTypeOK, PauseInv, Shape, Targeting,
     RunningRuns, QueuedRuns, NoSweep, CheckGates, chainVars, bodyVars, apiVars, At,
     Goto
<1> QED
  BY <1>1, <1>2, <1>3, <1>4, <1>5 DEF ClaimInv

LEMMA ClaimPreserves ==
    ASSUME ClaimInv, ChainInv', NEW c \in Calls, Claim(c)
    PROVE  ClaimInv'
<1>1. TypeOK'
  BY ClaimAssumption, NoCallAssumption DEF ClaimInv, ChainInv, TypeOK, Shape,
     Targeting, Steps, NoSweep, RunningRuns, QueuedRuns, Claim, chainVars, bodyVars,
     apiVars, At, Goto
<1>2. Shape'
  BY ClaimAssumption, NoCallAssumption DEF ClaimInv, TypeOK, ChainTypeOK, Phases,
     Shape, Targeting, Claim, chainVars, bodyVars, apiVars, At, Goto
<1>3. Ownership'
  <2>1. target[c] \in Runs /\ step[c] = "update"
    BY DEF ClaimInv, TypeOK, Shape, Targeting, Claim, At
  <2>2. CASE status[target[c]] = "queued"
    <3>1. target[c] \notin executing \cup dropped /\ \A d \in Calls : target[c] \notin claimed[d]
      BY <2>1, <2>2 DEF ClaimInv, Ownership
    <3>2. /\ \A d \in Calls : claimed'[d] = IF d = c THEN claimed[c] \cup {target[c]} ELSE claimed[d]
          /\ \A r \in Runs : status'[r] = IF r = target[c] THEN "running" ELSE status[r]
          /\ UNCHANGED <<executing, dropped, throws>>
          /\ \A d \in Calls : step'[d] = "throw" => step[d] = "throw"
      BY <2>1, <2>2 DEF ClaimInv, TypeOK, Claim, At, Goto
    <3>3. ClaimedOnce'
      BY <3>1, <3>2 DEF ClaimInv, Ownership, ClaimedOnce
    <3>4. RunningHasExecutor'
      BY <3>1, <3>2 DEF ClaimInv, Ownership, RunningHasExecutor, RunningRuns
    <3>5. /\ \A r \in executing' \cup dropped' : status'[r] \notin {"absent", "queued"}
          /\ \A d \in Calls : claimed'[d] \cap dropped' = {}
          /\ \A d \in Calls : step'[d] = "throw" => throws' > 0
      BY <3>1, <3>2 DEF ClaimInv, TypeOK, Ownership
    <3>6. \A d \in Calls : \A r \in claimed'[d] : status'[r] \notin {"absent", "queued"}
      <4> SUFFICES ASSUME NEW d \in Calls, NEW r \in claimed'[d]
                   PROVE  status'[r] \notin {"absent", "queued"}
        OBVIOUS
      <4>1. CASE r = target[c]
        BY <2>1, <3>2, <4>1
      <4>2. CASE r # target[c]
        <5>1. r \in claimed[d] /\ r \in Runs
          BY <3>2, <4>2 DEF ClaimInv, TypeOK
        <5> QED
          BY <3>2, <4>2, <5>1 DEF ClaimInv, Ownership
      <4> QED
        BY <4>1, <4>2
    <3> QED
      BY <3>3, <3>4, <3>5, <3>6 DEF Ownership
  <2>3. CASE status[target[c]] # "queued"
    BY <2>1, <2>3 DEF ClaimInv, TypeOK, Shape, Ownership, ClaimedOnce, RunningHasExecutor,
       RunningRuns, Claim, At, Goto
  <2> QED
    BY <2>2, <2>3
<1>4. Capacity'
  <2> DEFINE r == target[c]
  <2> SUFFICES ASSUME ~forced
               PROVE  Capacity'
    BY DEF Claim, chainVars, Capacity
  <2>1. /\ r \in Runs /\ pc[c] = "body" /\ step[c] = "update"
        /\ forced' = forced /\ slots' = slots
        /\ \A d \in Calls : step'[d] = IF d # c THEN step[d]
                                     ELSE IF status[r] = "queued" THEN "stamp" ELSE "pick"
    BY DEF ClaimInv, TypeOK, Shape, Targeting, Claim, At, Goto, chainVars
  <2>2. \A d \in Calls : step[d] \in Counted => d = c
    BY <2>1, OnlyOneCounts
  <2>3. /\ Cardinality(RunningRuns \ claimed[c]) + slots[c] <= MaxConcurrent
        /\ Cardinality(claimed[c]) < slots[c]
        /\ Cardinality(RunningRuns) <= MaxConcurrent
    BY <2>1 DEF ClaimInv, Capacity, Counted, Targeting
  <2>4. /\ RunningRuns \in SUBSET Runs /\ claimed[c] \in SUBSET Runs
        /\ claimed'[c] \in SUBSET Runs /\ slots[c] \in Nat /\ MaxConcurrent \in Nat
    BY <1>1, ClaimAssumption DEF ClaimInv, TypeOK, RunningRuns
  <2>5. CASE status[r] = "queued"
    <3>1. /\ RunningRuns' = RunningRuns \cup {r}
          /\ claimed'[c] = claimed[c] \cup {r}
          /\ r \notin claimed[c]
      BY <2>1, <2>5 DEF ClaimInv, TypeOK, Ownership, Claim, RunningRuns
    <3>2. RunningRuns' \ claimed'[c] = RunningRuns \ claimed[c]
      BY <2>5, <3>1 DEF RunningRuns
    <3>3. Cardinality(claimed'[c]) = Cardinality(claimed[c]) + 1
      BY <2>1, <2>4, <3>1, RunSetCardinality
    <3>4. RunningRuns' \in SUBSET Runs /\ RunningRuns' \ claimed'[c] \in SUBSET Runs
      BY <2>1, <2>4, <3>1
    <3>5. Cardinality(RunningRuns')
             <= Cardinality(RunningRuns' \ claimed'[c]) + Cardinality(claimed'[c])
      BY <2>4, <3>4, RunSetCardinality
    <3>6. /\ Cardinality(RunningRuns') \in Nat /\ Cardinality(claimed[c]) \in Nat
          /\ Cardinality(RunningRuns' \ claimed'[c]) \in Nat
      BY <2>4, <3>4, RunSetCardinality
    <3>7. /\ Cardinality(RunningRuns') <= MaxConcurrent
          /\ Cardinality(RunningRuns' \ claimed'[c]) + slots'[c] <= MaxConcurrent
          /\ Cardinality(claimed'[c]) <= slots'[c]
      <4>1. Cardinality(RunningRuns' \ claimed'[c]) = Cardinality(RunningRuns \ claimed[c])
        BY <3>2
      <4>2. Cardinality(claimed'[c]) <= slots'[c]
        BY <2>1, <2>3, <2>4, <3>3, <3>6
      <4>3. Cardinality(RunningRuns' \ claimed'[c]) + slots'[c] <= MaxConcurrent
        BY <2>1, <2>3, <4>1
      <4>4. Cardinality(claimed'[c]) \in Nat /\ slots'[c] \in Nat
        BY <2>1, <2>4, <3>3, <3>6
      <4> QED
        BY <2>4, <3>5, <3>6, <4>2, <4>3, <4>4
    <3> QED
      BY <2>1, <2>2, <3>7 DEF Capacity, Counted, Targeting
  <2>6. CASE status[r] # "queued"
    <3>1. RunningRuns' = RunningRuns /\ claimed' = claimed
      BY <2>6 DEF Claim, RunningRuns
    <3>2. Cardinality(claimed[c]) <= slots[c]
      <4>1. Cardinality(claimed[c]) \in Nat
        BY <2>4, RunSetCardinality
      <4> QED
        BY <2>3, <2>4, <4>1
    <3>3. step'[c] = "pick" /\ \A d \in Calls : step'[d] \in Counted => d = c
      BY <2>1, <2>2, <2>6
    <3> QED
      BY <2>1, <2>3, <3>1, <3>2, <3>3 DEF Capacity, Targeting
  <2> QED
    BY <2>5, <2>6
<1>5. PauseInv'
  BY ClaimAssumption DEF ClaimInv, TypeOK, ChainTypeOK, PauseInv, Shape, Targeting,
     RunningRuns, QueuedRuns, NoSweep, Claim, chainVars, bodyVars, apiVars, At, Goto
<1> QED
  BY <1>1, <1>2, <1>3, <1>4, <1>5 DEF ClaimInv

LEMMA CancelQueuedPreserves ==
    ASSUME ClaimInv, ChainInv', NEW c \in Calls, CancelQueued(c)
    PROVE  ClaimInv'
<1>1. TypeOK'
  BY ClaimAssumption, NoCallAssumption DEF ClaimInv, ChainInv, TypeOK, Shape,
     Targeting, Steps, NoSweep, RunningRuns, QueuedRuns, CancelQueued, chainVars,
     bodyVars, apiVars, At, Goto
<1>2. Shape'
  BY ClaimAssumption, NoCallAssumption DEF ClaimInv, TypeOK, ChainTypeOK, Phases,
     Shape, Targeting, CancelQueued, chainVars, bodyVars, apiVars, At, Goto
<1>3. Ownership'
  BY DEF ClaimInv, TypeOK, ChainTypeOK, Shape, Targeting, Ownership, ClaimedOnce,
     RunningHasExecutor, RunningRuns, Cancellable, CancelQueued, chainVars,
     bodyVars, apiVars, At, Goto
<1>4. Capacity'
  <2>1. /\ RunningRuns' \subseteq RunningRuns /\ claimed' = claimed
        /\ slots' = slots /\ forced' = forced
    BY DEF ClaimInv, TypeOK, RunningRuns, CancelQueued, chainVars, bodyVars,
       apiVars, At, Goto
  <2>2. \A d \in Calls : /\ step'[d] \in Counted => step[d] \in Counted
                         /\ step'[d] \in Targeting => step[d] \in Targeting
    BY DEF ClaimInv, TypeOK, Counted, Targeting, CancelQueued, chainVars, bodyVars,
       apiVars, At, Goto
  <2> QED
    BY <2>1, <2>2, FewerRunningKeepsCapacity DEF ClaimInv
<1>5. PauseInv'
  BY ClaimAssumption DEF ClaimInv, TypeOK, ChainTypeOK, PauseInv, Shape, Targeting,
     RunningRuns, QueuedRuns, NoSweep, CancelQueued, chainVars, bodyVars, apiVars,
     At, Goto
<1> QED
  BY <1>1, <1>2, <1>3, <1>4, <1>5 DEF ClaimInv

LEMMA CancelReadPreserves ==
    ASSUME ClaimInv, ChainInv', NEW c \in Calls, CancelRead(c)
    PROVE  ClaimInv'
<1>1. TypeOK'
  BY ClaimAssumption, NoCallAssumption DEF ClaimInv, ChainInv, TypeOK, Shape,
     Targeting, Steps, NoSweep, RunningRuns, QueuedRuns, CancelRead, chainVars,
     bodyVars, apiVars, At, Goto
<1>2. Shape'
  BY ClaimAssumption, NoCallAssumption DEF ClaimInv, TypeOK, ChainTypeOK, Phases,
     Shape, Targeting, CancelRead, chainVars, bodyVars, apiVars, At, Goto
<1>3. Ownership'
  BY DEF ClaimInv, TypeOK, ChainTypeOK, Shape, Targeting, Ownership, ClaimedOnce,
     RunningHasExecutor, RunningRuns, Cancellable, CancelRead, chainVars, bodyVars,
     apiVars, At, Goto
<1>4. Capacity'
  BY RunSetCardinality, ClaimAssumption DEF ClaimInv, TypeOK, ChainTypeOK, Capacity,
     Shape, Targeting, Counted, RunningRuns, CancelRead, chainVars, bodyVars,
     apiVars, At, Goto
<1>5. PauseInv'
  BY ClaimAssumption DEF ClaimInv, TypeOK, ChainTypeOK, PauseInv, Shape, Targeting,
     RunningRuns, QueuedRuns, NoSweep, CancelRead, chainVars, bodyVars, apiVars, At,
     Goto
<1> QED
  BY <1>1, <1>2, <1>3, <1>4, <1>5 DEF ClaimInv

LEMMA CancelWritePreserves ==
    ASSUME ClaimInv, ChainInv', NEW c \in Calls, CancelWrite(c)
    PROVE  ClaimInv'
<1>1. TypeOK'
  BY ClaimAssumption, NoCallAssumption DEF ClaimInv, ChainInv, TypeOK, Shape,
     Targeting, Steps, NoSweep, RunningRuns, QueuedRuns, CancelWrite, chainVars,
     bodyVars, apiVars, At, Goto
<1>2. Shape'
  BY ClaimAssumption, NoCallAssumption DEF ClaimInv, TypeOK, ChainTypeOK, Phases,
     Shape, Targeting, CancelWrite, chainVars, bodyVars, apiVars, At, Goto
<1>3. Ownership'
  BY DEF ClaimInv, TypeOK, ChainTypeOK, Shape, Targeting, Ownership, ClaimedOnce,
     RunningHasExecutor, RunningRuns, Cancellable, CancelWrite, chainVars, bodyVars,
     apiVars, At, Goto
<1>4. Capacity'
  <2>1. /\ RunningRuns' \subseteq RunningRuns /\ claimed' = claimed
        /\ slots' = slots /\ forced' = forced
    BY DEF ClaimInv, TypeOK, RunningRuns, CancelWrite, chainVars, bodyVars, apiVars,
       At, Goto
  <2>2. \A d \in Calls : /\ step'[d] \in Counted => step[d] \in Counted
                         /\ step'[d] \in Targeting => step[d] \in Targeting
    BY DEF ClaimInv, TypeOK, Counted, Targeting, CancelWrite, chainVars, bodyVars,
       apiVars, At, Goto
  <2> QED
    BY <2>1, <2>2, FewerRunningKeepsCapacity DEF ClaimInv
<1>5. PauseInv'
  BY ClaimAssumption DEF ClaimInv, TypeOK, ChainTypeOK, PauseInv, Shape, Targeting,
     RunningRuns, QueuedRuns, NoSweep, CancelWrite, chainVars, bodyVars, apiVars,
     At, Goto
<1> QED
  BY <1>1, <1>2, <1>3, <1>4, <1>5 DEF ClaimInv

LEMMA StartNestedPreserves ==
    ASSUME ClaimInv, ChainInv', NEW c \in Calls, NEW d \in Calls, StartNested(c, d)
    PROVE  ClaimInv'
<1>1. TypeOK'
  BY ClaimAssumption, NoCallAssumption DEF ClaimInv, ChainInv, TypeOK, Shape,
     Targeting, Steps, NoSweep, RunningRuns, QueuedRuns, StartNested, Enter,
     chainVars, bodyVars, apiVars, At, Goto
<1>2. Shape'
  BY ClaimAssumption, NoCallAssumption DEF ClaimInv, TypeOK, ChainTypeOK, Phases,
     Shape, Targeting, StartNested, Enter, chainVars, bodyVars, apiVars, At, Goto
<1>3. Ownership'
  BY DEF ClaimInv, TypeOK, ChainTypeOK, Shape, Targeting, Ownership, ClaimedOnce,
     RunningHasExecutor, RunningRuns, Cancellable, StartNested, Enter, chainVars,
     bodyVars, apiVars, At, Goto
<1>4. Capacity'
  BY RunSetCardinality, ClaimAssumption DEF ClaimInv, TypeOK, ChainTypeOK, Capacity,
     Shape, Targeting, Counted, RunningRuns, StartNested, Enter, chainVars,
     bodyVars, apiVars, At, Goto
<1>5. PauseInv'
  BY ClaimAssumption DEF ClaimInv, TypeOK, ChainTypeOK, PauseInv, Shape, Targeting,
     RunningRuns, QueuedRuns, NoSweep, StartNested, Enter, chainVars, bodyVars,
     apiVars, At, Goto
<1> QED
  BY <1>1, <1>2, <1>3, <1>4, <1>5 DEF ClaimInv

LEMMA ResumeClaimPreserves ==
    ASSUME ClaimInv, ChainInv', NEW c \in Calls, ResumeClaim(c)
    PROVE  ClaimInv'
<1>1. TypeOK'
  BY ClaimAssumption, NoCallAssumption DEF ClaimInv, ChainInv, TypeOK, Shape,
     Targeting, Steps, NoSweep, RunningRuns, QueuedRuns, ResumeClaim, chainVars,
     bodyVars, apiVars, At, Goto
<1>2. Shape'
  BY ClaimAssumption, NoCallAssumption DEF ClaimInv, TypeOK, ChainTypeOK, Phases,
     Shape, Targeting, ResumeClaim, chainVars, bodyVars, apiVars, At, Goto
<1>3. Ownership'
  BY DEF ClaimInv, TypeOK, ChainTypeOK, Shape, Targeting, Ownership, ClaimedOnce,
     RunningHasExecutor, RunningRuns, Cancellable, ResumeClaim, chainVars, bodyVars,
     apiVars, At, Goto
<1>4. Capacity'
  BY RunSetCardinality, ClaimAssumption DEF ClaimInv, TypeOK, ChainTypeOK, Capacity,
     Shape, Targeting, Counted, RunningRuns, ResumeClaim, chainVars, bodyVars,
     apiVars, At, Goto
<1>5. PauseInv'
  BY ClaimAssumption DEF ClaimInv, TypeOK, ChainTypeOK, PauseInv, Shape, Targeting,
     RunningRuns, QueuedRuns, NoSweep, ResumeClaim, chainVars, bodyVars, apiVars,
     At, Goto
<1> QED
  BY <1>1, <1>2, <1>3, <1>4, <1>5 DEF ClaimInv

LEMMA StampPreserves ==
    ASSUME ClaimInv, ChainInv', NEW c \in Calls, Stamp(c)
    PROVE  ClaimInv'
<1>1. TypeOK'
  BY ClaimAssumption, NoCallAssumption DEF ClaimInv, ChainInv, TypeOK, Shape,
     Targeting, Steps, NoSweep, RunningRuns, QueuedRuns, Stamp, chainVars,
     bodyVars, apiVars, At, Goto
<1>2. Shape'
  BY ClaimAssumption, NoCallAssumption DEF ClaimInv, TypeOK, ChainTypeOK, Phases,
     Shape, Targeting, Stamp, chainVars, bodyVars, apiVars, At, Goto
<1>3. Ownership'
  BY DEF ClaimInv, TypeOK, ChainTypeOK, Shape, Targeting, Ownership, ClaimedOnce,
     RunningHasExecutor, RunningRuns, Cancellable, Stamp, chainVars, bodyVars,
     apiVars, At, Goto
<1>4. Capacity'
  BY RunSetCardinality, ClaimAssumption DEF ClaimInv, TypeOK, ChainTypeOK, Capacity,
     Shape, Targeting, Counted, RunningRuns, Stamp, chainVars, bodyVars,
     apiVars, At, Goto
<1>5. PauseInv'
  BY ClaimAssumption DEF ClaimInv, TypeOK, ChainTypeOK, PauseInv, Shape, Targeting,
     RunningRuns, QueuedRuns, NoSweep, Stamp, chainVars, bodyVars, apiVars,
     At, Goto
<1> QED
  BY <1>1, <1>2, <1>3, <1>4, <1>5 DEF ClaimInv

LEMMA EnqueuePreserves ==
    ASSUME ClaimInv, ChainInv', NEW r \in Runs, Enqueue(r)
    PROVE  ClaimInv'
<1>1. TypeOK'
  BY ClaimAssumption, NoCallAssumption DEF ClaimInv, ChainInv, TypeOK, Shape,
     Targeting, Steps, NoSweep, RunningRuns, QueuedRuns, Enqueue, chainVars,
     bodyVars, apiVars
<1>2. Shape'
  BY ClaimAssumption, NoCallAssumption DEF ClaimInv, TypeOK, ChainTypeOK, Phases,
     Shape, Targeting, Enqueue, chainVars, bodyVars, apiVars, At
<1>3. Ownership'
  BY DEF ClaimInv, TypeOK, ChainTypeOK, Shape, Targeting, Ownership, ClaimedOnce,
     RunningHasExecutor, RunningRuns, Cancellable, Enqueue, chainVars, bodyVars,
     apiVars
<1>4. Capacity'
  BY RunSetCardinality, ClaimAssumption DEF ClaimInv, TypeOK, ChainTypeOK, Capacity,
     Shape, Targeting, Counted, RunningRuns, Enqueue, chainVars, bodyVars, apiVars
<1>5. PauseInv'
  BY ClaimAssumption DEF ClaimInv, TypeOK, ChainTypeOK, PauseInv, Shape, Targeting,
     RunningRuns, QueuedRuns, NoSweep, Enqueue, chainVars, bodyVars, apiVars, At
<1> QED
  BY <1>1, <1>2, <1>3, <1>4, <1>5 DEF ClaimInv

LEMMA RunEndsPreserves ==
    ASSUME ClaimInv, ChainInv', NEW r \in Runs, RunEnds(r)
    PROVE  ClaimInv'
<1>1. TypeOK'
  BY ClaimAssumption, NoCallAssumption DEF ClaimInv, ChainInv, TypeOK, Shape,
     Targeting, Steps, NoSweep, RunningRuns, QueuedRuns, RunEnds, chainVars,
     bodyVars, apiVars
<1>2. Shape'
  BY ClaimAssumption, NoCallAssumption DEF ClaimInv, TypeOK, ChainTypeOK, Phases,
     Shape, Targeting, RunEnds, chainVars, bodyVars, apiVars, At
<1>3. Ownership'
  BY DEF ClaimInv, TypeOK, ChainTypeOK, Shape, Targeting, Ownership, ClaimedOnce,
     RunningHasExecutor, RunningRuns, Cancellable, RunEnds, chainVars, bodyVars,
     apiVars
<1>4. Capacity'
  <2>1. /\ RunningRuns' \subseteq RunningRuns /\ claimed' = claimed
        /\ slots' = slots /\ forced' = forced
    BY DEF ClaimInv, TypeOK, RunningRuns, RunEnds, chainVars, bodyVars, apiVars
  <2>2. \A d \in Calls : /\ step'[d] \in Counted => step[d] \in Counted
                         /\ step'[d] \in Targeting => step[d] \in Targeting
    BY DEF ClaimInv, TypeOK, Counted, Targeting, RunEnds, chainVars, bodyVars,
       apiVars
  <2> QED
    BY <2>1, <2>2, FewerRunningKeepsCapacity DEF ClaimInv
<1>5. PauseInv'
  BY ClaimAssumption DEF ClaimInv, TypeOK, ChainTypeOK, PauseInv, Shape, Targeting,
     RunningRuns, QueuedRuns, NoSweep, RunEnds, chainVars, bodyVars, apiVars, At
<1> QED
  BY <1>1, <1>2, <1>3, <1>4, <1>5 DEF ClaimInv

LEMMA ReapPreserves ==
    ASSUME ClaimInv, ChainInv', NEW r \in Runs, Reap(r)
    PROVE  ClaimInv'
<1>1. TypeOK'
  BY ClaimAssumption, NoCallAssumption DEF ClaimInv, ChainInv, TypeOK, Shape,
     Targeting, Steps, NoSweep, RunningRuns, QueuedRuns, Reap, chainVars,
     bodyVars, apiVars
<1>2. Shape'
  BY ClaimAssumption, NoCallAssumption DEF ClaimInv, TypeOK, ChainTypeOK, Phases,
     Shape, Targeting, Reap, chainVars, bodyVars, apiVars, At
<1>3. Ownership'
  BY DEF ClaimInv, TypeOK, ChainTypeOK, Shape, Targeting, Ownership, ClaimedOnce,
     RunningHasExecutor, RunningRuns, Cancellable, Reap, chainVars, bodyVars,
     apiVars
<1>4. Capacity'
  <2>1. /\ RunningRuns' \subseteq RunningRuns /\ claimed' = claimed
        /\ slots' = slots /\ forced' = forced
    BY DEF ClaimInv, TypeOK, RunningRuns, Reap, chainVars, bodyVars, apiVars
  <2>2. \A d \in Calls : /\ step'[d] \in Counted => step[d] \in Counted
                         /\ step'[d] \in Targeting => step[d] \in Targeting
    BY DEF ClaimInv, TypeOK, Counted, Targeting, Reap, chainVars, bodyVars,
       apiVars
  <2> QED
    BY <2>1, <2>2, FewerRunningKeepsCapacity DEF ClaimInv
<1>5. PauseInv'
  BY ClaimAssumption DEF ClaimInv, TypeOK, ChainTypeOK, PauseInv, Shape, Targeting,
     RunningRuns, QueuedRuns, NoSweep, Reap, chainVars, bodyVars, apiVars, At
<1> QED
  BY <1>1, <1>2, <1>3, <1>4, <1>5 DEF ClaimInv

LEMMA CloseGatePreserves ==
    ASSUME ClaimInv, ChainInv', NEW r \in Runs, CloseGate(r)
    PROVE  ClaimInv'
<1>1. TypeOK'
  BY ClaimAssumption, NoCallAssumption DEF ClaimInv, ChainInv, TypeOK, Shape,
     Targeting, Steps, NoSweep, RunningRuns, QueuedRuns, CloseGate, chainVars,
     bodyVars, apiVars
<1>2. Shape'
  BY ClaimAssumption, NoCallAssumption DEF ClaimInv, TypeOK, ChainTypeOK, Phases,
     Shape, Targeting, CloseGate, chainVars, bodyVars, apiVars, At
<1>3. Ownership'
  BY DEF ClaimInv, TypeOK, ChainTypeOK, Shape, Targeting, Ownership, ClaimedOnce,
     RunningHasExecutor, RunningRuns, Cancellable, CloseGate, chainVars, bodyVars,
     apiVars
<1>4. Capacity'
  BY RunSetCardinality, ClaimAssumption DEF ClaimInv, TypeOK, ChainTypeOK, Capacity,
     Shape, Targeting, Counted, RunningRuns, CloseGate, chainVars, bodyVars, apiVars
<1>5. PauseInv'
  BY ClaimAssumption DEF ClaimInv, TypeOK, ChainTypeOK, PauseInv, Shape, Targeting,
     RunningRuns, QueuedRuns, NoSweep, CloseGate, chainVars, bodyVars, apiVars, At
<1> QED
  BY <1>1, <1>2, <1>3, <1>4, <1>5 DEF ClaimInv

LEMMA ApiCancelReadPreserves ==
    ASSUME ClaimInv, ChainInv', NEW r \in Runs, ApiCancelRead(r)
    PROVE  ClaimInv'
<1>1. TypeOK'
  BY ClaimAssumption, NoCallAssumption DEF ClaimInv, ChainInv, TypeOK, Shape,
     Targeting, Steps, NoSweep, RunningRuns, QueuedRuns, ApiCancelRead, chainVars,
     bodyVars, apiVars
<1>2. Shape'
  BY ClaimAssumption, NoCallAssumption DEF ClaimInv, TypeOK, ChainTypeOK, Phases,
     Shape, Targeting, ApiCancelRead, chainVars, bodyVars, apiVars, At
<1>3. Ownership'
  BY DEF ClaimInv, TypeOK, ChainTypeOK, Shape, Targeting, Ownership, ClaimedOnce,
     RunningHasExecutor, RunningRuns, Cancellable, ApiCancelRead, chainVars,
     bodyVars, apiVars
<1>4. Capacity'
  BY RunSetCardinality, ClaimAssumption DEF ClaimInv, TypeOK, ChainTypeOK, Capacity,
     Shape, Targeting, Counted, RunningRuns, ApiCancelRead, chainVars, bodyVars,
     apiVars
<1>5. PauseInv'
  BY ClaimAssumption DEF ClaimInv, TypeOK, ChainTypeOK, PauseInv, Shape, Targeting,
     RunningRuns, QueuedRuns, NoSweep, ApiCancelRead, chainVars, bodyVars, apiVars, At
<1> QED
  BY <1>1, <1>2, <1>3, <1>4, <1>5 DEF ClaimInv

LEMMA ApiCancelWritePreserves ==
    ASSUME ClaimInv, ChainInv', NEW r \in Runs, ApiCancelWrite(r)
    PROVE  ClaimInv'
<1>1. TypeOK'
  BY ClaimAssumption, NoCallAssumption DEF ClaimInv, ChainInv, TypeOK, Shape,
     Targeting, Steps, NoSweep, RunningRuns, QueuedRuns, ApiCancelWrite, chainVars,
     bodyVars, apiVars
<1>2. Shape'
  BY ClaimAssumption, NoCallAssumption DEF ClaimInv, TypeOK, ChainTypeOK, Phases,
     Shape, Targeting, ApiCancelWrite, chainVars, bodyVars, apiVars, At
<1>3. Ownership'
  BY DEF ClaimInv, TypeOK, ChainTypeOK, Shape, Targeting, Ownership, ClaimedOnce,
     RunningHasExecutor, RunningRuns, Cancellable, ApiCancelWrite, chainVars,
     bodyVars, apiVars
<1>4. Capacity'
  <2>1. /\ RunningRuns' \subseteq RunningRuns /\ claimed' = claimed
        /\ slots' = slots /\ forced' = forced
    BY DEF ClaimInv, TypeOK, RunningRuns, ApiCancelWrite, chainVars, bodyVars,
       apiVars
  <2>2. \A d \in Calls : /\ step'[d] \in Counted => step[d] \in Counted
                         /\ step'[d] \in Targeting => step[d] \in Targeting
    BY DEF ClaimInv, TypeOK, Counted, Targeting, ApiCancelWrite, chainVars,
       bodyVars, apiVars
  <2> QED
    BY <2>1, <2>2, FewerRunningKeepsCapacity DEF ClaimInv
<1>5. PauseInv'
  BY ClaimAssumption DEF ClaimInv, TypeOK, ChainTypeOK, PauseInv, Shape, Targeting,
     RunningRuns, QueuedRuns, NoSweep, ApiCancelWrite, chainVars, bodyVars, apiVars, At
<1> QED
  BY <1>1, <1>2, <1>3, <1>4, <1>5 DEF ClaimInv

LEMMA PausePreserves ==
    ASSUME ClaimInv, ChainInv', Pause
    PROVE  ClaimInv'
<1>1. TypeOK'
  BY ClaimAssumption, NoCallAssumption DEF ClaimInv, ChainInv, TypeOK, Shape,
     Targeting, Steps, NoSweep, RunningRuns, QueuedRuns, Pause, chainVars, bodyVars,
     apiVars
<1>2. Shape'
  BY ClaimAssumption, NoCallAssumption DEF ClaimInv, TypeOK, ChainTypeOK, Phases,
     Shape, Targeting, Pause, chainVars, bodyVars, apiVars, At
<1>3. Ownership'
  BY DEF ClaimInv, TypeOK, ChainTypeOK, Shape, Targeting, Ownership, ClaimedOnce,
     RunningHasExecutor, RunningRuns, Cancellable, Pause, chainVars, bodyVars,
     apiVars
<1>4. Capacity'
  BY RunSetCardinality, ClaimAssumption DEF ClaimInv, TypeOK, ChainTypeOK, Capacity,
     Shape, Targeting, Counted, RunningRuns, Pause, chainVars, bodyVars, apiVars
<1>5. PauseInv'
  BY ClaimAssumption DEF ClaimInv, TypeOK, ChainTypeOK, PauseInv, Shape, Targeting,
     RunningRuns, QueuedRuns, NoSweep, Pause, chainVars, bodyVars, apiVars, At
<1> QED
  BY <1>1, <1>2, <1>3, <1>4, <1>5 DEF ClaimInv

LEMMA SweepReadPreserves ==
    ASSUME ClaimInv, ChainInv', SweepRead
    PROVE  ClaimInv'
<1>1. TypeOK'
  BY ClaimAssumption, NoCallAssumption DEF ClaimInv, ChainInv, TypeOK, Shape,
     Targeting, Steps, NoSweep, RunningRuns, QueuedRuns, SweepRead, chainVars,
     bodyVars, apiVars
<1>2. Shape'
  BY ClaimAssumption, NoCallAssumption DEF ClaimInv, TypeOK, ChainTypeOK, Phases,
     Shape, Targeting, SweepRead, chainVars, bodyVars, apiVars, At
<1>3. Ownership'
  BY DEF ClaimInv, TypeOK, ChainTypeOK, Shape, Targeting, Ownership, ClaimedOnce,
     RunningHasExecutor, RunningRuns, Cancellable, SweepRead, chainVars, bodyVars,
     apiVars
<1>4. Capacity'
  BY RunSetCardinality, ClaimAssumption DEF ClaimInv, TypeOK, ChainTypeOK, Capacity,
     Shape, Targeting, Counted, RunningRuns, SweepRead, chainVars, bodyVars, apiVars
<1>5. PauseInv'
  BY ClaimAssumption DEF ClaimInv, TypeOK, ChainTypeOK, PauseInv, Shape, Targeting,
     RunningRuns, QueuedRuns, NoSweep, SweepRead, chainVars, bodyVars, apiVars, At
<1> QED
  BY <1>1, <1>2, <1>3, <1>4, <1>5 DEF ClaimInv

LEMMA SweepWritePreserves ==
    ASSUME ClaimInv, ChainInv', NEW r \in Runs, SweepWrite(r)
    PROVE  ClaimInv'
<1>1. TypeOK'
  BY ClaimAssumption, NoCallAssumption DEF ClaimInv, ChainInv, TypeOK, Shape,
     Targeting, Steps, NoSweep, RunningRuns, QueuedRuns, SweepWrite, chainVars,
     bodyVars, apiVars
<1>2. Shape'
  BY ClaimAssumption, NoCallAssumption DEF ClaimInv, TypeOK, ChainTypeOK, Phases,
     Shape, Targeting, SweepWrite, chainVars, bodyVars, apiVars, At
<1>3. Ownership'
  BY DEF ClaimInv, TypeOK, ChainTypeOK, Shape, Targeting, Ownership, ClaimedOnce,
     RunningHasExecutor, RunningRuns, Cancellable, SweepWrite, chainVars, bodyVars,
     apiVars
<1>4. Capacity'
  <2>1. /\ RunningRuns' \subseteq RunningRuns /\ claimed' = claimed
        /\ slots' = slots /\ forced' = forced
    BY DEF ClaimInv, TypeOK, RunningRuns, SweepWrite, chainVars, bodyVars, apiVars
  <2>2. \A d \in Calls : /\ step'[d] \in Counted => step[d] \in Counted
                         /\ step'[d] \in Targeting => step[d] \in Targeting
    BY DEF ClaimInv, TypeOK, Counted, Targeting, SweepWrite, chainVars, bodyVars,
       apiVars
  <2> QED
    BY <2>1, <2>2, FewerRunningKeepsCapacity DEF ClaimInv
<1>5. PauseInv'
  BY ClaimAssumption DEF ClaimInv, TypeOK, ChainTypeOK, PauseInv, Shape, Targeting,
     RunningRuns, QueuedRuns, NoSweep, SweepWrite, chainVars, bodyVars, apiVars, At
<1> QED
  BY <1>1, <1>2, <1>3, <1>4, <1>5 DEF ClaimInv

LEMMA ResumePreserves ==
    ASSUME ClaimInv, ChainInv', Resume
    PROVE  ClaimInv'
<1>1. TypeOK'
  BY ClaimAssumption, NoCallAssumption DEF ClaimInv, ChainInv, TypeOK, Shape,
     Targeting, Steps, NoSweep, RunningRuns, QueuedRuns, Resume, chainVars,
     bodyVars, apiVars
<1>2. Shape'
  BY ClaimAssumption, NoCallAssumption DEF ClaimInv, TypeOK, ChainTypeOK, Phases,
     Shape, Targeting, Resume, chainVars, bodyVars, apiVars, At
<1>3. Ownership'
  BY DEF ClaimInv, TypeOK, ChainTypeOK, Shape, Targeting, Ownership, ClaimedOnce,
     RunningHasExecutor, RunningRuns, Cancellable, Resume, chainVars, bodyVars,
     apiVars
<1>4. Capacity'
  BY RunSetCardinality, ClaimAssumption DEF ClaimInv, TypeOK, ChainTypeOK, Capacity,
     Shape, Targeting, Counted, RunningRuns, Resume, chainVars, bodyVars, apiVars
<1>5. PauseInv'
  BY ClaimAssumption DEF ClaimInv, TypeOK, ChainTypeOK, PauseInv, Shape, Targeting,
     RunningRuns, QueuedRuns, NoSweep, Resume, chainVars, bodyVars, apiVars, At
<1> QED
  BY <1>1, <1>2, <1>3, <1>4, <1>5 DEF ClaimInv

LEMMA InitEstablishes == Init => ClaimInv
<1> SUFFICES ASSUME Init
             PROVE  ClaimInv
  OBVIOUS
<1>1. ChainInv
  BY ChainInit_ChainInv DEF Init
<1>2. TypeOK
  <2>1. ChainTypeOK
    BY <1>1 DEF ChainInv
  <2>2. slots \in [Calls -> 0..MaxConcurrent]
    BY ClaimAssumption DEF Init
  <2>3. sweep \in [open : BOOLEAN, rows : SUBSET Runs]
    BY DEF Init, NoSweep
  <2>4. step \in [Calls -> Steps]
    BY DEF Init, Steps
  <2>5. throws \in 0..MaxThrows
    BY ClaimAssumption DEF Init
  <2> QED
    BY <2>1, <2>2, <2>3, <2>4, <2>5 DEF Init, TypeOK
<1>3. Shape
  BY DEF Init, ChainInit, Shape, Targeting
<1>4. Ownership
  BY DEF Init, Ownership, ClaimedOnce, RunningHasExecutor, RunningRuns
<1>5. RunningRuns = {}
  BY DEF Init, RunningRuns
<1>6. Capacity
  BY <1>5, RunSetCardinality, ClaimAssumption DEF Init, Capacity, Counted, Targeting
<1>7. PauseInv
  BY <1>5, ClaimAssumption DEF Init, PauseInv, NoSweep
<1> QED
  BY <1>1, <1>2, <1>3, <1>4, <1>6, <1>7 DEF ClaimInv

LEMMA StepPreservesClaimInv ==
    ASSUME ClaimInv, [Next]_claimVars
    PROVE  ClaimInv'
<1>1. CASE UNCHANGED claimVars
  <2>1. ChainInv'
    BY <1>1, StepPreservesChainInv DEF ClaimInv, claimVars
  <2>2. TypeOK'
    BY <1>1 DEF ClaimInv, claimVars, chainVars, bodyVars, apiVars, TypeOK, ChainTypeOK
  <2>3. Shape' /\ Capacity' /\ PauseInv'
    BY <1>1 DEF ClaimInv, claimVars, chainVars, bodyVars, apiVars, Shape, At, Capacity,
       PauseInv, RunningRuns
  <2>4. Ownership'
    BY <1>1 DEF ClaimInv, claimVars, bodyVars, Ownership, ClaimedOnce, RunningHasExecutor,
       RunningRuns
  <2> QED
    BY <2>1, <2>2, <2>3, <2>4 DEF ClaimInv
<1>2. CASE Next
  <2>1. ChainInv'
    BY <1>2, ChainStep, StepPreservesChainInv DEF ClaimInv
  <2>2. ASSUME NEW c \in Calls, StartNext(c) \/ PassStep(c) \/ Throw(c)
        PROVE  ClaimInv'
    BY <2>1, <2>2, StartNextPreserves, EnterBodyPreserves, StopWaitingPreserves,
       ReturnPreserves, RejectPreserves, ReleaseEntryPreserves, ThrowPreserves,
       ReadAgentPreserves, CountRunningPreserves,
       SelectQueuedPreserves, PickRunPreserves, CheckGatesPreserves, ClaimPreserves, StampPreserves,
       CancelQueuedPreserves, CancelReadPreserves, CancelWritePreserves,
       StartNestedPreserves, ResumeClaimPreserves DEF PassStep
  <2>3. CASE ApiStep
    BY <2>1, <2>3, EnqueuePreserves, RunEndsPreserves, ReapPreserves, CloseGatePreserves,
       ApiCancelReadPreserves, ApiCancelWritePreserves, PausePreserves,
       SweepReadPreserves, SweepWritePreserves, ResumePreserves DEF ApiStep
  <2> QED
    BY <1>2, <2>2, <2>3 DEF Next
<1> QED
  BY <1>1, <1>2

(* ClaimInv holds for any calls, runs and limit.                             *)
THEOREM ClaimInvariant == Spec => []ClaimInv
<1>1. Init => ClaimInv
  BY InitEstablishes
<1>2. ClaimInv /\ [Next]_claimVars => ClaimInv'
  BY StepPreservesClaimInv
<1> QED
  BY <1>1, <1>2, PTL DEF Spec

(* maxConcurrentRuns holds until a start-lock wait has timed out, whatever   *)
(* the limit and however many passes, cancels and pauses interleave.         *)
THEOREM NoOverbookingUnlessForced == Spec => []OverbookedOnlyIfForced
<1>1. ClaimInv => OverbookedOnlyIfForced
  BY DEF ClaimInv, Capacity, OverbookedOnlyIfForced
<1> QED
  BY <1>1, ClaimInvariant, PTL

(* No run is claimed by two passes or executed twice, also when passes       *)
(* overlap after a timeout.                                                  *)
THEOREM EveryClaimExecutedOnce == Spec => []ClaimedOnce
<1>1. ClaimInv => ClaimedOnce
  BY DEF ClaimInv, Ownership
<1> QED
  BY <1>1, ClaimInvariant, PTL

(* A running run has an executor or a pass that starts one, unless the pass  *)
(* that claimed it failed after the claim: those alone run for nobody.       *)
THEOREM NoRunForNobody == Spec => []RunningHasExecutor
<1>1. ClaimInv => RunningHasExecutor
  BY DEF ClaimInv, Ownership
<1> QED
  BY <1>1, ClaimInvariant, PTL

(* The locals of the passes and the rows of the runs keep to their types.    *)
THEOREM TypesKept == Spec => []TypeOK
<1>1. ClaimInv => TypeOK
  BY DEF ClaimInv
<1> QED
  BY <1>1, ClaimInvariant, PTL

(* Once a pause has swept the agent's runs, none runs until it is resumed.   *)
THEOREM PauseKeepsQuiet == Spec => []QuietAfterPause
<1>1. ClaimInv => QuietAfterPause
  BY DEF ClaimInv, PauseInv, QuietAfterPause
<1> QED
  BY <1>1, ClaimInvariant, PTL

-----------------------------------------------------------------------------
(* Passes never all wait for each other.  The last nested pass of the line   *)
(* waits for a caller that waits for it, so its timer may fire; and if no    *)
(* pass waits for a nested one, the first of the line waits for nobody.      *)

(* A step that adds nobody to the line and moves no nested pass keeps Line.  *)
LEMMA LineStays ==
    ASSUME ClaimInv, Line, Live' = Live, UNCHANGED <<ahead, child>>,
           \A c \in Calls : pred'[c] \in {pred[c], NoCall},
           \A c \in Calls : child[c] # NoCall => At(c, "nested")'
    PROVE  Line'
  BY DEF Line

LEMMA LineByEnter ==
    ASSUME ClaimInv, ChainInv', Line, NEW c \in Calls, Enter(c),
           \/ /\ UNCHANGED child
              /\ \A b \in Calls \ {c} : step'[b] = step[b]
           \/ \E b \in Calls : /\ At(b, "startNext")
                               /\ child' = [child EXCEPT ![b] = c]
                               /\ \A d \in Calls \ {b, c} : step'[d] = step[d]
                               /\ step'[b] = "nested"
    PROVE  Line'
<1>1. /\ c \notin Live /\ Live' = Live \cup {c}
      /\ pc' = [pc EXCEPT ![c] = "waiting"]
      /\ \A d \in Calls : ahead'[d] = IF d = c THEN Live ELSE ahead[d]
      /\ \A d \in Calls : pred'[d] = IF d # c THEN pred[d]
                                     ELSE IF entry \in Live THEN entry ELSE NoCall
  BY DEF ClaimInv, ChainInv, ChainTypeOK, Enter, Live
<1>2. Live \subseteq Calls /\ \A d \in Calls : ahead[d] \subseteq Live
  BY DEF ClaimInv, ChainInv, Live
<1>3. IsFiniteSet(Live')
  BY <1>1, FS_AddElement DEF Line
<1>4. \A d \in Calls : \A e \in ahead'[d] : ahead'[e] \subseteq ahead'[d]
  BY <1>1, <1>2 DEF Line
<1>5. \A d \in Calls : pred'[d] # NoCall => pred'[d] \in ahead'[d]
  BY <1>1 DEF Line
<1>6. ASSUME NEW d \in Calls, child'[d] # NoCall
      PROVE  At(d, "nested")' /\ child'[d] \in Live' /\ d \in ahead'[child'[d]]
  <2>1. child \in [Calls -> Calls \cup {NoCall}] /\ pc \in [Calls -> Phases]
    BY DEF ClaimInv, TypeOK, ChainTypeOK
  <2>2. CASE child[d] # NoCall /\ child'[d] = child[d]
    <3>1. At(d, "nested") /\ child[d] \in Live /\ d \in ahead[child[d]]
      BY <2>2 DEF Line
    <3>2. d # c /\ child[d] # c
      BY <1>1, <3>1 DEF At, Live
    <3>3. step'[d] = step[d]
      <4>1. \A b \in Calls : At(b, "startNext") => b # d
        BY <3>1 DEF At
      <4> QED
        BY <3>2, <4>1
    <3> QED
      BY <1>1, <1>2, <2>1, <2>2, <3>1, <3>2, <3>3 DEF At
  <2>3. CASE child'[d] # child[d] \/ child[d] = NoCall
    <3>1. /\ At(d, "startNext") /\ child'[d] = c /\ step'[d] = "nested"
      BY <1>6, <2>1, <2>3
    <3>2. d \in Live /\ d # c
      BY <1>1, <3>1 DEF At, Live
    <3> QED
      BY <1>1, <2>1, <3>1, <3>2 DEF At
  <2> QED
    BY <2>2, <2>3
<1> QED
  BY <1>3, <1>4, <1>5, <1>6 DEF Line

LEMMA LineByReturn ==
    ASSUME ClaimInv, Line, NEW c \in Calls, Return(c)
    PROVE  Line'
<1>1. /\ c \in Live /\ Live' = Live \ {c}
      /\ \A d \in Calls : /\ ahead'[d] = ahead[d] \ {c}
                          /\ pred'[d] = IF pred[d] = c THEN NoCall ELSE pred[d]
                          /\ child'[d] = IF child[d] = c THEN NoCall ELSE child[d]
                          /\ d # c => pc'[d] = pc[d] /\ step'[d] = step[d]
  BY DEF ClaimInv, ChainInv, ChainTypeOK, TypeOK, Return, Settle, Live
<1>2. Live \subseteq Calls /\ \A d \in Calls : ahead[d] \subseteq Live
  BY DEF ClaimInv, ChainInv, Live
<1>3. child[c] = NoCall
  BY DEF Line, Return, At
<1>4. IsFiniteSet(Live')
  BY <1>1, FS_RemoveElement DEF Line
<1>5. \A d \in Calls : \A e \in ahead'[d] : ahead'[e] \subseteq ahead'[d]
  BY <1>1, <1>2 DEF Line
<1>6. \A d \in Calls : pred'[d] # NoCall => pred'[d] \in ahead'[d]
  BY <1>1 DEF Line
<1>7. \A d \in Calls : child'[d] # NoCall =>
         At(d, "nested")' /\ child'[d] \in Live' /\ d \in ahead'[child'[d]]
  BY <1>1, <1>2, <1>3 DEF Line, At
<1> QED
  BY <1>4, <1>5, <1>6, <1>7 DEF Line

LEMMA LineByReject ==
    ASSUME ClaimInv, Line, NEW c \in Calls, Reject(c)
    PROVE  Line'
<1>1. /\ c \in Live /\ Live' = Live \ {c}
      /\ \A d \in Calls : /\ ahead'[d] = ahead[d] \ {c}
                          /\ pred'[d] = IF pred[d] = c THEN NoCall ELSE pred[d]
                          /\ child'[d] = IF child[d] = c THEN NoCall ELSE child[d]
                          /\ d # c => pc'[d] = pc[d]
                          /\ d # c /\ child[d] # c => step'[d] = step[d]
  BY DEF ClaimInv, ChainInv, ChainTypeOK, TypeOK, Reject, Settle, Live
<1>2. Live \subseteq Calls /\ \A d \in Calls : ahead[d] \subseteq Live
  BY DEF ClaimInv, ChainInv, Live
<1>3. child[c] = NoCall
  BY DEF Line, Reject, At
<1>4. IsFiniteSet(Live')
  BY <1>1, FS_RemoveElement DEF Line
<1>5. \A d \in Calls : \A e \in ahead'[d] : ahead'[e] \subseteq ahead'[d]
  BY <1>1, <1>2 DEF Line
<1>6. \A d \in Calls : pred'[d] # NoCall => pred'[d] \in ahead'[d]
  BY <1>1 DEF Line
<1>7. \A d \in Calls : child'[d] # NoCall =>
         At(d, "nested")' /\ child'[d] \in Live' /\ d \in ahead'[child'[d]]
  BY <1>1, <1>2, <1>3 DEF Line, At
<1> QED
  BY <1>4, <1>5, <1>6, <1>7 DEF Line

LEMMA LineByCleanup ==
    ASSUME ClaimInv, Line, NEW c \in Calls, ReleaseEntry(c)
    PROVE  Line'
<1>1. /\ c \notin Live /\ Live' = Live
      /\ \A d \in Calls : /\ ahead'[d] = IF d = c THEN {} ELSE ahead[d]
                          /\ d # c => pc'[d] = pc[d]
      /\ UNCHANGED <<pred, child, step>>
  BY DEF ClaimInv, ChainInv, ChainTypeOK, TypeOK, ReleaseEntry, Cleanup, Live, bodyVars
<1>2. /\ Live \subseteq Calls /\ \A d \in Calls : ahead[d] \subseteq Live
      /\ pred[c] = NoCall
  BY <1>1 DEF ClaimInv, ChainInv, Live
<1>3. \A d \in Calls : \A e \in ahead'[d] : ahead'[e] \subseteq ahead'[d]
  BY <1>1, <1>2 DEF Line
<1>4. \A d \in Calls : pred'[d] # NoCall => pred'[d] \in ahead'[d]
  BY <1>1, <1>2 DEF Line
<1>5. \A d \in Calls : child'[d] # NoCall =>
         At(d, "nested")' /\ child'[d] \in Live' /\ d \in ahead'[child'[d]]
  <2> SUFFICES ASSUME NEW d \in Calls, child[d] # NoCall
               PROVE  At(d, "nested")' /\ child[d] \in Live' /\ d \in ahead'[child[d]]
    BY <1>1
  <2>1. At(d, "nested") /\ child[d] \in Live /\ d \in ahead[child[d]]
    BY DEF Line
  <2>2. d # c /\ child[d] # c
    BY <1>1, <2>1 DEF At, Live
  <2> QED
    BY <1>1, <1>2, <2>1, <2>2 DEF At
<1> QED
  BY <1>1, <1>3, <1>4, <1>5 DEF Line

LEMMA LineStep ==
    ASSUME ClaimInv, Line, [Next]_claimVars
    PROVE  Line'
<1>1. ChainInv'
  <2>1. [ChainNext]_chainVars
    BY ChainStep DEF claimVars, chainVars
  <2> QED
    BY <2>1, StepPreservesChainInv DEF ClaimInv
<1>2. ASSUME NEW c \in Calls, StartNext(c) PROVE Line'
  BY <1>1, <1>2, LineByEnter DEF StartNext, ClaimInv, TypeOK
<1>3. ASSUME NEW c \in Calls, NEW d \in Calls, StartNested(c, d) PROVE Line'
  <2>1. c # d
    BY <1>3 DEF StartNested, At, Enter
  <2> QED
    BY <1>1, <1>3, <2>1, LineByEnter DEF StartNested, ClaimInv, TypeOK
<1>4. ASSUME NEW c \in Calls, Return(c) \/ Reject(c) \/ ReleaseEntry(c) PROVE Line'
  BY <1>4, LineByReturn, LineByReject, LineByCleanup
<1>5. ASSUME NEW c \in Calls, EnterBody(c) \/ StopWaiting(c) PROVE Line'
  <2>1. /\ Live' = Live /\ UNCHANGED <<ahead, child, step>>
        /\ \A d \in Calls : /\ pred'[d] \in {pred[d], NoCall}
                            /\ d # c => pc'[d] = pc[d]
    BY <1>5 DEF EnterBody, StopWaiting, Proceed, ProceedByTimeout, Live, bodyVars, ClaimInv,
                TypeOK, ChainTypeOK
  <2>2. pc[c] = "waiting"
    BY <1>5 DEF EnterBody, StopWaiting, Proceed, ProceedByTimeout
  <2> QED
    BY <2>1, <2>2, LineStays DEF Line, At
<1>6. ASSUME NEW c \in Calls, pc[c] = "body", step[c] # "nested" \/ child[c] = NoCall,
             NEW s \in Steps, Goto(c, s), UNCHANGED chainVars, UNCHANGED child
      PROVE  Line'
  <2>1. /\ Live' = Live /\ UNCHANGED <<ahead, child, pc, pred>>
        /\ \A d \in Calls : d # c => step'[d] = step[d]
    BY <1>6 DEF chainVars, Live, Goto, ClaimInv, TypeOK
  <2>2. child[c] = NoCall
    BY <1>6 DEF Line, At
  <2> QED
    BY <2>1, <2>2, LineStays DEF Line, At
<1>7. ASSUME NEW c \in Calls,
             \/ ReadAgent(c) \/ CountRunning(c) \/ SelectQueued(c) \/ PickRun(c) \/ CheckGates(c)
             \/ Claim(c) \/ CancelQueued(c) \/ CancelRead(c) \/ CancelWrite(c) \/ ResumeClaim(c)
             \/ Stamp(c) \/ Throw(c)
      PROVE  Line'
  <2>1. pc[c] = "body" /\ (step[c] # "nested" \/ child[c] = NoCall)
        /\ UNCHANGED chainVars /\ UNCHANGED child
    BY <1>7 DEF ReadAgent, CountRunning, SelectQueued, PickRun, CheckGates, Claim, CancelQueued,
                CancelRead, CancelWrite, ResumeClaim, Stamp, Throw, At
  <2>2. \E s \in Steps : Goto(c, s)
    BY <1>7 DEF ReadAgent, CountRunning, SelectQueued, PickRun, CheckGates, Claim, CancelQueued,
                CancelRead, CancelWrite, ResumeClaim, Stamp, Throw, Steps
  <2> QED
    BY <1>6, <2>1, <2>2
<1>8. CASE UNCHANGED <<chainVars, bodyVars>>
  BY <1>8, LineStays DEF chainVars, bodyVars, Live, Line, At
<1>9. CASE ApiStep
  BY <1>8, <1>9 DEF ApiStep, Enqueue, RunEnds, Reap, CloseGate, ApiCancelRead, ApiCancelWrite,
                    Pause, SweepRead, SweepWrite, Resume
<1> QED
  BY <1>2, <1>3, <1>4, <1>5, <1>7, <1>8, <1>9 DEF Next, PassStep, claimVars

LEMMA Minimum ==
    ASSUME NEW S \in SUBSET Nat, S # {}
    PROVE  \E m \in S : \A n \in S : m <= n
<1> DEFINE less == {ss \in Nat \X Nat : ss[1] < ss[2]}
<1>1. IsWellFoundedOn(less, Nat)
  BY NatLessThanWellFounded DEF OpToRel
<1>2. PICK m \in S : \A n \in S : ~(<<n, m>> \in less)
  BY <1>1, WFMin
<1>3. ASSUME NEW n \in S, n < m PROVE FALSE
  BY <1>2, <1>3
<1> QED
  BY <1>3

(* Among some passes of the line one has the fewest ahead, and one the most. *)
LEMMA Ends ==
    ASSUME ClaimInv, Line, NEW S \in SUBSET Live, S # {}
    PROVE  /\ \E c \in S : \A d \in S : d \notin ahead[c]
           /\ \E c \in S : \A d \in S : c \notin ahead[d]
<1> DEFINE size(c) == Cardinality(ahead[c])
<1>1. Live \subseteq Calls /\ \A c \in Calls : ahead[c] \subseteq Live /\ c \notin ahead[c]
  BY DEF ClaimInv, ChainInv, Live
<1>2. Cardinality(Live) \in Nat
      /\ \A c \in Calls : /\ IsFiniteSet(ahead[c]) /\ size(c) \in Nat
                          /\ size(c) <= Cardinality(Live)
  BY <1>1, FS_Subset, FS_CardinalityType DEF Line
<1>3. ASSUME NEW c \in Calls, NEW d \in ahead[c]
      PROVE  size(d) < size(c)
  <2>1. d \in Calls /\ ahead[d] \subseteq ahead[c] /\ d \notin ahead[d]
    BY <1>1 DEF Line
  <2>2. size(d) <= size(c) /\ size(d) # size(c)
    BY <1>2, <2>1, FS_Subset
  <2> QED
    BY <1>2, <2>1, <2>2
<1> HIDE DEF size
<1>4. \E c \in S : \A d \in S : d \notin ahead[c]
  <2>1. PICK m \in {size(c) : c \in S} : \A n \in {size(c) : c \in S} : m <= n
    <3>1. {size(c) : c \in S} \in SUBSET Nat /\ {size(c) : c \in S} # {}
      BY <1>1, <1>2
    <3> QED
      BY <3>1, Minimum
  <2>2. PICK c \in S : m = size(c)
    BY <2>1
  <2>3. ASSUME NEW d \in S PROVE ~(size(d) < size(c))
    <3>1. size(c) <= size(d)
      BY <2>1, <2>2
    <3>2. size(c) \in Nat /\ size(d) \in Nat
      BY <1>1, <1>2
    <3> QED
      BY <3>1, <3>2
  <2> QED
    BY <1>1, <1>3, <2>3
<1>5. \E c \in S : \A d \in S : c \notin ahead[d]
  <2> DEFINE rest(c) == Cardinality(Live) - size(c)
  <2>1. PICK m \in {rest(c) : c \in S} : \A n \in {rest(c) : c \in S} : m <= n
    <3>1. {rest(c) : c \in S} \in SUBSET Nat /\ {rest(c) : c \in S} # {}
      BY <1>1, <1>2
    <3> QED
      BY <3>1, Minimum
  <2>2. PICK c \in S : m = rest(c)
    BY <2>1
  <2>3. ASSUME NEW d \in S PROVE ~(size(c) < size(d))
    <3>1. rest(c) <= rest(d)
      BY <2>1, <2>2
    <3>2. size(c) \in Nat /\ size(d) \in Nat /\ Cardinality(Live) \in Nat
      BY <1>1, <1>2
    <3> QED
      BY <3>1, <3>2
  <2> QED
    BY <1>1, <1>3, <2>3
<1> QED
  BY <1>4, <1>5

(* Whatever the number of passes: as long as one is under way, one of them   *)
(* waits for nothing, or for a lock whose timer may end the wait.  The       *)
(* nested start of cancelRunInternal waits for the lock of its own caller    *)
(* (heartbeat.ts:9443); the timer of agent-start-lock.ts is what breaks the  *)
(* circle.                                                                   *)
THEOREM PassesNeverDeadlock == Spec => []NoDeadlock
<1>1. Init => Line
  BY FS_EmptySet DEF Init, ChainInit, Line, Live
<1>2. ClaimInv /\ Line /\ [Next]_claimVars => Line'
  BY LineStep
<1>3. ClaimInv /\ Line => NoDeadlock
  <2> SUFFICES ASSUME ClaimInv, Line, Live # {}
               PROVE  \E c \in Live : MayGoOn(c)
    BY DEF NoDeadlock
  <2> DEFINE nested == {c \in Live : child[c] # NoCall}
  <2>1. Live \subseteq Calls
    BY DEF Live
  <2>2. CASE nested # {}
    <3>1. PICK c \in nested : \A d \in nested : c \notin ahead[d]
      BY <2>2, Ends
    <3>2. At(c, "nested") /\ child[c] \in Live /\ c \in ahead[child[c]]
      BY <2>1, <3>1 DEF Line
    <3>3. child[child[c]] = NoCall
      BY <3>1, <3>2
    <3>4. MayTimeOut(child[c])
      BY <3>2 DEF MayTimeOut, At
    <3> QED
      BY <3>2, <3>3, <3>4 DEF MayGoOn, Live
  <2>3. CASE nested = {}
    <3>1. PICK c \in Live : \A d \in Live : d \notin ahead[c]
      BY Ends
    <3>2. pred[c] = NoCall
      BY <2>1, <3>1 DEF Line, ClaimInv, ChainInv
    <3> QED
      BY <2>3, <3>1, <3>2 DEF MayGoOn, Live
  <2> QED
    BY <2>2, <2>3
<1> QED
  BY <1>1, <1>2, <1>3, ClaimInvariant, PTL DEF Spec
=============================================================================
