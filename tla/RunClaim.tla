------------------------------- MODULE RunClaim -------------------------------
(*****************************************************************************)
(* Starting queued runs of one agent: startNextQueuedRunForAgent counts the  *)
(* running runs and claims queued ones inside withAgentStartLock, each claim *)
(* passing the gates of claimQueuedRun.  A claim whose gate refuses calls    *)
(* cancelRunInternal, which ends by calling startNextQueuedRunForAgent for   *)
(* the same agent: a nested call that queues up behind its own caller.       *)
(* Beside them the API cancels runs, and pauses and resumes the agent.       *)
(*                                                                           *)
(* Each action is what the code does between two awaits of a database call.  *)
(* Source: server/src/services/heartbeat.ts, agents.ts, routes/agents.ts     *)
(*****************************************************************************)
EXTENDS StartChain

CONSTANTS
    Runs,
    NoRun,
    MaxConcurrent,   \* policy.maxConcurrentRuns
    SlowBodies,      \* may a body that is making progress last 30 s?
    MaxOutermost,    \* bound: passes under way that no other pass awaits
    ApiRuns,         \* bound: the runs the API may cancel
    GatedRuns,       \* bound: the runs whose gate may close
    MaxThrows        \* bound: awaited calls of a pass that fail

ASSUME ClaimAssumption ==
    /\ NoRun \notin Runs /\ IsFiniteSet(Runs)
    /\ MaxConcurrent \in Nat \ {0}
    /\ SlowBodies \in BOOLEAN
    /\ MaxOutermost \in Nat /\ MaxThrows \in Nat
    /\ ApiRuns \subseteq Runs /\ GatedRuns \subseteq Runs

VARIABLES
    status,     \* heartbeat_runs.status of each run
    agent,      \* is agents.status one that may start runs?
    gate,       \* "held": a budget block or a pause hold covers the run;
                \* "unready": its issue is blocked or no longer its agent's
    step,       \* where each start pass is
    slots,      \* its availableSlots
    todo,       \* its prioritizedRuns not tried yet
    claimed,    \* the runs it has claimed, its claimedRuns
    target,     \* the run it is claiming
    child,      \* the nested start pass it awaits
    executing,  \* runs handed to executeRun
    dropped,    \* history: runs claimed by a pass that failed
    throws,     \* the failures so far
    cancels,    \* runs an API cancel has read as cancellable
    sweep,      \* cancelActiveForAgent: the rows it has read, or none
    quiet       \* history: the agent has stayed paused since a sweep finished

bodyVars == <<step, slots, todo, claimed, target, child>>
apiVars == <<agent, gate, cancels, sweep, quiet>>
claimVars == <<chainVars, bodyVars, apiVars, status, executing, dropped, throws>>

Cancellable == {"queued", "running"}

Steps == {"none", "agent", "count", "select", "pick", "gates", "update",
          "stamp", "cancelQueued", "cancelRead", "cancelWrite", "startNext", "nested",
          "return", "throw"}

NoSweep == [open |-> FALSE, rows |-> {}]

RunningRuns == {r \in Runs : status[r] = "running"}
QueuedRuns == {r \in Runs : status[r] = "queued"}

TypeOK ==
    /\ ChainTypeOK
    /\ status \in [Runs -> {"absent", "queued", "running", "ended", "cancelled"}]
    /\ agent \in {"invokable", "paused"}
    /\ gate \in [Runs -> {"open", "held", "unready"}]
    /\ step \in [Calls -> Steps]
    /\ slots \in [Calls -> 0..MaxConcurrent]
    /\ todo \in [Calls -> SUBSET Runs]
    /\ claimed \in [Calls -> SUBSET Runs]
    /\ target \in [Calls -> Runs \cup {NoRun}]
    /\ child \in [Calls -> Calls \cup {NoCall}]
    /\ executing \subseteq Runs /\ dropped \subseteq Runs /\ cancels \subseteq Runs
    /\ throws \in 0..MaxThrows
    /\ sweep \in [open : BOOLEAN, rows : SUBSET Runs]
    /\ quiet \in BOOLEAN

Init ==
    /\ ChainInit
    /\ status = [r \in Runs |-> "absent"]
    /\ agent = "invokable"
    /\ gate = [r \in Runs |-> "open"]
    /\ step = [c \in Calls |-> "none"]
    /\ slots = [c \in Calls |-> 0]
    /\ todo = [c \in Calls |-> {}]
    /\ claimed = [c \in Calls |-> {}]
    /\ target = [c \in Calls |-> NoRun]
    /\ child = [c \in Calls |-> NoCall]
    /\ executing = {} /\ dropped = {} /\ cancels = {}
    /\ throws = 0
    /\ sweep = NoSweep /\ quiet = FALSE

(***************************** the start lock *******************************)

(* Any enqueue, cancel, finished run or scheduler tick starts a pass.        *)
Outermost == {c \in Live : \A d \in Calls : child[d] # c}

StartNext(c) ==
    /\ Cardinality(Outermost) < MaxOutermost
    /\ Enter(c)
    /\ step' = [step EXCEPT ![c] = "agent"]
    /\ UNCHANGED <<slots, todo, claimed, target, child, apiVars,
                   status, executing, dropped, throws>>

EnterBody(c) ==
    /\ Proceed(c)
    /\ UNCHANGED <<bodyVars, apiVars, status, executing, dropped, throws>>

(* Mutant: the lock has no timeout.                                          *)
NeverTimesOut(c) == SlowBodies

(* 30 s pass either because bodies may be slow, or because the line in front *)
(* holds a pass that waits for a nested pass of its own.                     *)
MayTimeOut(c) == SlowBodies \/ \E d \in ahead[c] : step[d] = "nested"

StopWaiting(c) ==
    /\ MayTimeOut(c)
    /\ ProceedByTimeout(c)
    /\ UNCHANGED <<bodyVars, apiVars, status, executing, dropped, throws>>

(* Mutant: the claimed runs are not handed to executeRun.                    *)
ReturnForgetful(c) ==
    /\ step[c] = "return"
    /\ Settle(c)
    /\ step' = [step EXCEPT ![c] = "none"]
    /\ slots' = [slots EXCEPT ![c] = 0]
    /\ claimed' = [claimed EXCEPT ![c] = {}]
    /\ child' = [d \in Calls |-> IF child[d] = c THEN NoCall ELSE child[d]]
    /\ UNCHANGED <<todo, target, apiVars, status, executing, dropped, throws>>

(* The claimed runs are handed to executeRun before the callback returns; a  *)
(* caller that awaits this pass resumes.                                     *)
Return(c) ==
    /\ step[c] = "return"
    /\ Settle(c)
    /\ executing' = executing \cup claimed[c]
    /\ step' = [step EXCEPT ![c] = "none"]
    /\ slots' = [slots EXCEPT ![c] = 0]
    /\ claimed' = [claimed EXCEPT ![c] = {}]
    /\ child' = [d \in Calls |-> IF child[d] = c THEN NoCall ELSE child[d]]
    /\ UNCHANGED <<todo, target, apiVars, status, dropped, throws>>

(* The callback has rejected: the marker resolves all the same (finally),    *)
(* the runs already claimed are handed to nobody, and a caller that awaits   *)
(* this pass inside cancelRunInternal rejects in turn.                       *)
Reject(c) ==
    /\ step[c] = "throw"
    /\ Settle(c)
    /\ dropped' = dropped \cup claimed[c]
    /\ step' = [d \in Calls |-> IF d = c THEN "none"
                               ELSE IF child[d] = c THEN "throw" ELSE step[d]]
    /\ slots' = [slots EXCEPT ![c] = 0]
    /\ claimed' = [claimed EXCEPT ![c] = {}]
    /\ todo' = [d \in Calls |-> IF d = c \/ child[d] = c THEN {} ELSE todo[d]]
    /\ child' = [d \in Calls |-> IF child[d] = c THEN NoCall ELSE child[d]]
    /\ UNCHANGED <<target, apiVars, status, executing, throws>>

ReleaseEntry(c) ==
    /\ Cleanup(c)
    /\ UNCHANGED <<bodyVars, apiVars, status, executing, dropped, throws>>

(********************* startNextQueuedRunForAgent's body ********************)

At(c, s) == pc[c] = "body" /\ step[c] = s
Goto(c, s) == step' = [step EXCEPT ![c] = s]

ReadAgent(c) ==
    /\ At(c, "agent")
    /\ Goto(c, IF agent = "paused" THEN "return" ELSE "count")
    /\ UNCHANGED <<chainVars, slots, todo, claimed, target, child, apiVars,
                   status, executing, dropped, throws>>

(* Mutant: one slot more than maxConcurrentRuns.                             *)
CountOneTooMany(c) ==
    /\ At(c, "count")
    /\ LET running == Cardinality(RunningRuns)
       IN  /\ slots' = [slots EXCEPT ![c] = IF running <= MaxConcurrent THEN MaxConcurrent - running + 1
                                            ELSE 0]
           /\ Goto(c, IF running > MaxConcurrent THEN "return" ELSE "select")
    /\ UNCHANGED <<chainVars, todo, claimed, target, child, apiVars,
                   status, executing, dropped, throws>>

CountRunning(c) ==
    /\ At(c, "count")
    /\ LET running == Cardinality(RunningRuns)
           free == IF running < MaxConcurrent THEN MaxConcurrent - running ELSE 0
       IN  /\ slots' = [slots EXCEPT ![c] = free]
           /\ Goto(c, IF free = 0 THEN "return" ELSE "select")
    /\ UNCHANGED <<chainVars, todo, claimed, target, child, apiVars,
                   status, executing, dropped, throws>>

SelectQueued(c) ==
    /\ At(c, "select")
    /\ todo' = [todo EXCEPT ![c] = QueuedRuns]
    /\ Goto(c, IF QueuedRuns = {} THEN "return" ELSE "pick")
    /\ UNCHANGED <<chainVars, slots, claimed, target, child, apiVars,
                   status, executing, dropped, throws>>

(* Mutant: one run more than there are slots.                                *)
PickOneTooMany(c) ==
    /\ At(c, "pick")
    /\ \/ /\ todo[c] = {} \/ Cardinality(claimed[c]) > slots[c]
          /\ Goto(c, "return")
          /\ todo' = [todo EXCEPT ![c] = {}]
          /\ UNCHANGED target
       \/ /\ Cardinality(claimed[c]) <= slots[c]
          /\ \E r \in todo[c] :
                /\ todo' = [todo EXCEPT ![c] = @ \ {r}]
                /\ target' = [target EXCEPT ![c] = r]
          /\ Goto(c, "gates")
    /\ UNCHANGED <<chainVars, slots, claimed, child, apiVars,
                   status, executing, dropped, throws>>

(* The next run of the snapshot, in whatever order priorities put them; the  *)
(* snapshot and availableSlots are not read again.                           *)
PickRun(c) ==
    /\ At(c, "pick")
    /\ \/ /\ todo[c] = {} \/ Cardinality(claimed[c]) >= slots[c]
          /\ Goto(c, "return")
          /\ todo' = [todo EXCEPT ![c] = {}]
          /\ UNCHANGED target
       \/ /\ Cardinality(claimed[c]) < slots[c]
          /\ \E r \in todo[c] :
                /\ todo' = [todo EXCEPT ![c] = @ \ {r}]
                /\ target' = [target EXCEPT ![c] = r]
          /\ Goto(c, "gates")
    /\ UNCHANGED <<chainVars, slots, claimed, child, apiVars,
                   status, executing, dropped, throws>>

(****************************** claimQueuedRun ******************************)

(* The gates read the agent, the budget, the holds and the issue, not the    *)
(* run: the run row is the snapshot's.                                       *)
CheckGates(c) ==
    /\ At(c, "gates")
    /\ Goto(c, IF agent = "paused" \/ gate[target[c]] = "held" THEN "cancelRead"
               ELSE IF gate[target[c]] = "unready" THEN "cancelQueued"
               ELSE "update")
    /\ UNCHANGED <<chainVars, slots, todo, claimed, target, child, apiVars,
                   status, executing, dropped, throws>>

(* Mutant: the UPDATE has no status = 'queued' condition.                    *)
ClaimUnconditionally(c) ==
    /\ At(c, "update")
    /\ status' = [status EXCEPT ![target[c]] = "running"]
    /\ claimed' = [claimed EXCEPT ![c] = @ \cup {target[c]}]
    /\ target' = [target EXCEPT ![c] = NoRun]
    /\ Goto(c, "stamp")
    /\ UNCHANGED <<chainVars, slots, todo, child, apiVars, executing, dropped, throws>>

(* UPDATE ... SET running WHERE id = run.id AND status = 'queued'            *)
Claim(c) ==
    /\ At(c, "update")
    /\ \/ /\ status[target[c]] = "queued"
          /\ status' = [status EXCEPT ![target[c]] = "running"]
          /\ claimed' = [claimed EXCEPT ![c] = @ \cup {target[c]}]
          /\ Goto(c, "stamp")
       \/ /\ status[target[c]] # "queued"
          /\ Goto(c, "pick")
          /\ UNCHANGED <<status, claimed>>
    /\ target' = [target EXCEPT ![c] = NoRun]
    /\ UNCHANGED <<chainVars, slots, todo, child, apiVars, executing, dropped, throws>>

(* The wakeup request is claimed and the issue stamped: awaits that follow   *)
(* the UPDATE, on rows this module does not have.                            *)
Stamp(c) ==
    /\ At(c, "stamp")
    /\ Goto(c, "pick")
    /\ UNCHANGED <<chainVars, slots, todo, claimed, target, child, apiVars, status,
                   executing, dropped, throws>>

(* cancelQueuedRunForBlockedDependencies and cancelQueuedRunForStaleIssue    *)
(* write the row whatever it has become since the snapshot.                  *)
CancelQueued(c) ==
    /\ At(c, "cancelQueued")
    /\ status' = [status EXCEPT ![target[c]] = "cancelled"]
    /\ target' = [target EXCEPT ![c] = NoRun]
    /\ Goto(c, "pick")
    /\ UNCHANGED <<chainVars, slots, todo, claimed, child, apiVars,
                   executing, dropped, throws>>

(***************** cancelRunInternal, called inside a claim *****************)

CancelRead(c) ==
    /\ At(c, "cancelRead")
    /\ \/ /\ status[target[c]] \in Cancellable
          /\ Goto(c, "cancelWrite")
          /\ UNCHANGED target
       \/ /\ status[target[c]] \notin Cancellable
          /\ target' = [target EXCEPT ![c] = NoRun]
          /\ Goto(c, "pick")
    /\ UNCHANGED <<chainVars, slots, todo, claimed, child, apiVars,
                   status, executing, dropped, throws>>

CancelWrite(c) ==
    /\ At(c, "cancelWrite")
    /\ status' = [status EXCEPT ![target[c]] = "cancelled"]
    /\ target' = [target EXCEPT ![c] = NoRun]
    /\ Goto(c, "startNext")
    /\ UNCHANGED <<chainVars, slots, todo, claimed, child, apiVars,
                   executing, dropped, throws>>

(* await startNextQueuedRunForAgent(run.agentId), still inside the lock.     *)
StartNested(c, d) ==
    /\ At(c, "startNext")
    /\ Enter(d)
    /\ child' = [child EXCEPT ![c] = d]
    /\ step' = [step EXCEPT ![c] = "nested", ![d] = "agent"]
    /\ UNCHANGED <<slots, todo, claimed, target, apiVars,
                   status, executing, dropped, throws>>

ResumeClaim(c) ==
    /\ At(c, "nested")
    /\ child[c] = NoCall
    /\ Goto(c, "pick")
    /\ UNCHANGED <<chainVars, slots, todo, claimed, target, child, apiVars,
                   status, executing, dropped, throws>>

(* Any awaited call of a pass may fail: a database error, or the unique      *)
(* index under the stamp (issues_open_routine_execution_uq).  Nothing on the *)
(* way up to the start lock catches it.                                      *)
Throw(c) ==
    /\ pc[c] = "body" /\ step[c] \notin {"nested", "return", "throw"}
    /\ throws < MaxThrows
    /\ throws' = throws + 1
    /\ target' = [target EXCEPT ![c] = NoRun]
    /\ todo' = [todo EXCEPT ![c] = {}]
    /\ slots' = [slots EXCEPT ![c] = 0]
    /\ Goto(c, "throw")
    /\ UNCHANGED <<chainVars, claimed, child, apiVars, status, executing, dropped>>

(**************************** runs and the API ******************************)

(* enqueueWakeup inserts a run for an agent it has found invokable; by the   *)
(* time of the insert the agent may have been paused.                        *)
Enqueue(r) ==
    /\ status[r] = "absent"
    /\ status' = [status EXCEPT ![r] = "queued"]
    /\ UNCHANGED <<chainVars, bodyVars, apiVars, executing, dropped, throws>>

RunEnds(r) ==
    /\ r \in executing
    /\ status[r] = "running"
    /\ status' = [status EXCEPT ![r] = "ended"]
    /\ UNCHANGED <<chainVars, bodyVars, apiVars, executing, dropped, throws>>

(* reapOrphanedRuns fails a running row nobody executes, once it has been    *)
(* left alone for the stale threshold of index.ts: no pass that claimed it   *)
(* is left by then, unless bodies are slow.                                  *)
Reap(r) ==
    /\ status[r] = "running"
    /\ r \notin executing
    /\ SlowBodies \/ \A c \in Calls : r \notin claimed[c]
    /\ status' = [status EXCEPT ![r] = "ended"]
    /\ UNCHANGED <<chainVars, bodyVars, apiVars, executing, dropped, throws>>

CloseGate(r) ==
    /\ r \in GatedRuns
    /\ gate[r] = "open"
    /\ \E g \in {"held", "unready"} : gate' = [gate EXCEPT ![r] = g]
    /\ UNCHANGED <<chainVars, bodyVars, agent, cancels, sweep, quiet,
                   status, executing, dropped, throws>>

(* cancelRunInternal from a route: read, kill, write unconditionally.        *)
ApiCancelRead(r) ==
    /\ r \in ApiRuns
    /\ status[r] \in Cancellable
    /\ cancels' = cancels \cup {r}
    /\ UNCHANGED <<chainVars, bodyVars, agent, gate, sweep, quiet,
                   status, executing, dropped, throws>>

ApiCancelWrite(r) ==
    /\ r \in cancels
    /\ cancels' = cancels \ {r}
    /\ status' = [status EXCEPT ![r] = "cancelled"]
    /\ UNCHANGED <<chainVars, bodyVars, agent, gate, sweep, quiet,
                   executing, dropped, throws>>

(* POST /agents/:id/pause: write the status, then cancelActiveForAgent.      *)
Pause ==
    /\ agent = "invokable" /\ ~sweep.open
    /\ agent' = "paused"
    /\ sweep' = [open |-> TRUE, rows |-> {}]
    /\ UNCHANGED <<chainVars, bodyVars, gate, cancels, quiet,
                   status, executing, dropped, throws>>

(* Mutant: the sweep of a pause reads the running runs only.                 *)
SweepReadRunning ==
    /\ sweep.open /\ sweep.rows = {}
    /\ sweep' = IF RunningRuns = {} THEN NoSweep ELSE [open |-> TRUE, rows |-> RunningRuns]
    /\ quiet' = (agent = "paused" /\ RunningRuns = {})
    /\ UNCHANGED <<chainVars, bodyVars, agent, gate, cancels,
                   status, executing, dropped, throws>>

SweepRead ==
    /\ sweep.open /\ sweep.rows = {}
    /\ LET active == QueuedRuns \cup RunningRuns
       IN  /\ sweep' = IF active = {} THEN NoSweep ELSE [open |-> TRUE, rows |-> active]
           /\ quiet' = (agent = "paused" /\ active = {})
    /\ UNCHANGED <<chainVars, bodyVars, agent, gate, cancels,
                   status, executing, dropped, throws>>

SweepWrite(r) ==
    /\ r \in sweep.rows
    /\ status' = [status EXCEPT ![r] = "cancelled"]
    /\ sweep' = IF sweep.rows = {r} THEN NoSweep ELSE [sweep EXCEPT !.rows = @ \ {r}]
    /\ quiet' = (agent = "paused" /\ sweep.rows = {r})
    /\ UNCHANGED <<chainVars, bodyVars, agent, gate, cancels,
                   executing, dropped, throws>>

Resume ==
    /\ agent = "paused"
    /\ agent' = "invokable"
    /\ quiet' = FALSE
    /\ UNCHANGED <<chainVars, bodyVars, gate, cancels, sweep,
                   status, executing, dropped, throws>>

PassStep(c) ==
    \/ EnterBody(c) \/ StopWaiting(c) \/ Return(c) \/ Reject(c) \/ ReleaseEntry(c)
    \/ ReadAgent(c) \/ CountRunning(c) \/ SelectQueued(c) \/ PickRun(c)
    \/ CheckGates(c) \/ Claim(c) \/ Stamp(c) \/ CancelQueued(c)
    \/ CancelRead(c) \/ CancelWrite(c) \/ ResumeClaim(c)
    \/ \E d \in Calls : StartNested(c, d)

ApiStep ==
    \/ \E r \in Runs : \/ Enqueue(r) \/ RunEnds(r) \/ Reap(r) \/ CloseGate(r)
                       \/ ApiCancelRead(r) \/ ApiCancelWrite(r) \/ SweepWrite(r)
    \/ Pause \/ SweepRead \/ Resume

Next ==
    \/ \E c \in Calls : StartNext(c) \/ PassStep(c) \/ Throw(c)
    \/ ApiStep

Spec == Init /\ [][Next]_claimVars

(* Promises resolve and database calls return or fail; runs end; the         *)
(* scheduler's tick reaps orphans and starts a pass while any run is queued. *)
FairSpec ==
    /\ Spec
    /\ \A c \in Calls : WF_claimVars(PassStep(c))
    /\ \A r \in Runs :
          WF_claimVars(RunEnds(r)) /\ WF_claimVars(Reap(r)) /\ WF_claimVars(SweepWrite(r))
    /\ WF_claimVars(QueuedRuns # {} /\ \E c \in Calls : StartNext(c))

-------------------------------------------------------------------------------
(* maxConcurrentRuns is respected until a start-lock wait has timed out:     *)
(* counting and claiming are then one critical section (6734-6805).          *)
OverbookedOnlyIfForced == ~forced => Cardinality(RunningRuns) <= MaxConcurrent

(* The same without the escape: maxConcurrentRuns is honored, as the test    *)
(* heartbeat-dependency-scheduling.test.ts:398 has it.                       *)
NoOverbooking == Cardinality(RunningRuns) <= MaxConcurrent

(* A run is claimed by one pass at most and executed once, even when passes  *)
(* overlap after a timeout: the claim is a conditional UPDATE.               *)
ClaimedOnce ==
    \A c, d \in Calls : /\ c # d => claimed[c] \cap claimed[d] = {}
                        /\ claimed[c] \cap executing = {}

(* A run whose row says running has an executor, or the pass that claimed it *)
(* is still there to start one.  The one exception is a run whose pass, or a *)
(* pass nested in it, failed after the claim's UPDATE (5882-5940): such a    *)
(* run is never executed and waits for the reaper.                           *)
RunningHasExecutor ==
    /\ RunningRuns \subseteq executing \cup dropped \cup UNION {claimed[c] : c \in Calls}
    /\ dropped \cap executing = {}
    /\ dropped # {} => throws > 0

(* After the sweep of a pause nothing runs until the agent is resumed, not   *)
(* even a run whose gates were checked before the pause.                     *)
QuietAfterPause == quiet => RunningRuns = {}

(* A queued run of an agent that is not paused is claimed or cancelled in    *)
(* the end, although passes may wait for passes that wait for them.          *)
QueuedRunDecided ==
    \A r \in Runs : status[r] = "queued" ~> status[r] # "queued" \/ agent = "paused"

(* A pass that waits for nothing, or whose timer may end its wait.           *)
MayGoOn(c) ==
    \/ pc[c] = "waiting" /\ (pred[c] = NoCall \/ MayTimeOut(c))
    \/ pc[c] = "body" /\ child[c] = NoCall

(* Passes never all wait for each other: a nested pass waits for the lock    *)
(* its own caller holds (heartbeat.ts:9443), but the timer of some wait is   *)
(* due by then (agent-start-lock.ts:3).                                      *)
NoDeadlock == Live # {} => \E c \in Live : MayGoOn(c)

-------------------------------------------------------------------------------
(* The inductive strengthening.                                              *)
Targeting == {"gates", "update", "cancelQueued", "cancelRead", "cancelWrite"}
Counted == Targeting \cup {"select", "pick", "stamp", "startNext", "nested"}

(* Which locals of a pass mean something at which step.                      *)
Shape ==
    \A c \in Calls :
        /\ pc[c] \in {"idle", "settled"} <=> step[c] = "none"
        /\ pc[c] = "waiting" => step[c] = "agent"
        /\ step[c] \in {"none", "agent", "count", "select"} => claimed[c] = {}
        /\ target[c] # NoRun <=> step[c] \in Targeting
        /\ child[c] # NoCall => At(c, "nested")

(* A claimed run never becomes claimable again.                              *)
Ownership ==
    /\ ClaimedOnce
    /\ RunningHasExecutor
    /\ \A r \in executing \cup dropped : status[r] \notin {"absent", "queued"}
    /\ \A c \in Calls : claimed[c] \cap dropped = {}
    /\ \A c \in Calls : step[c] = "throw" => throws > 0
    /\ \A c \in Calls : \A r \in claimed[c] : status[r] \notin {"absent", "queued"}

(* What a pass has counted stays an upper bound of what others run.          *)
Capacity ==
    ~forced =>
        /\ Cardinality(RunningRuns) <= MaxConcurrent
        /\ \A c \in Calls : step[c] \in Counted =>
              /\ Cardinality(RunningRuns \ claimed[c]) + slots[c] <= MaxConcurrent
              /\ Cardinality(claimed[c]) <= slots[c]
              /\ step[c] \in Targeting => Cardinality(claimed[c]) < slots[c]

(* While a paused agent is swept, what still runs or can still be claimed is *)
(* among the rows the sweep has read.                                        *)
PauseInv ==
    /\ sweep.rows # {} => sweep.open
    /\ quiet => agent = "paused" /\ ~sweep.open
    /\ agent = "paused" /\ ~sweep.open => quiet
    /\ \A c \in Calls : \A r \in todo[c] \cup ({target[c]} \ {NoRun}) : status[r] # "absent"
    /\ quiet \/ (agent = "paused" /\ sweep.rows # {}) =>
          /\ RunningRuns \subseteq sweep.rows
          /\ \A c \in Calls : step[c] = "update" /\ status[target[c]] = "queued" =>
                target[c] \in sweep.rows

ClaimInv ==
    /\ TypeOK
    /\ ChainInv
    /\ Shape
    /\ Ownership
    /\ Capacity
    /\ PauseInv

(* The waiting line: whoever is ahead of a pass has its own line ahead of it *)
(* too, and a nested pass stands behind its caller, which waits for it.      *)
Line ==
    /\ IsFiniteSet(Live)
    /\ \A c \in Calls : \A d \in ahead[c] : ahead[d] \subseteq ahead[c]
    /\ \A c \in Calls : pred[c] # NoCall => pred[c] \in ahead[c]
    /\ \A c \in Calls : child[c] # NoCall =>
          At(c, "nested") /\ child[c] \in Live /\ c \in ahead[child[c]]
=============================================================================
