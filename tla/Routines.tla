------------------------------- MODULE Routines -------------------------------
(* One routine with a cron trigger that matches every unit of time            *)
(* (server/src/services/routines.ts): scheduler ticks, webhooks, manual runs   *)
(* and PATCHes against each other and against the start pass that claims the   *)
(* runs of the issues they create. A dispatch keeps the routine's row locked,  *)
(* in a transaction, until the issue it has created is linked to a queued run; *)
(* what it creates is written by other connections.                            *)
EXTENDS Naturals, FiniteSets

CONSTANTS
    Calls, NoCall,     \* slots for requests and ticks under way
    Issues, NoIssue,   \* bound: one row for each dispatch of a behaviour
    Cap,               \* MAX_CATCH_UP_RUNS
    Horizon,           \* bound: the last moment of a behaviour
    Setups             \* policies of the routine, and how many edits, crashes and
                       \* cancellations of runs that are not executed yet

ASSUME CallAssumption == NoCall \notin Calls
ASSUME IssueAssumption == IsFiniteSet(Issues) /\ NoIssue \notin Issues
Policies == {"coalesce_if_active", "skip_if_active", "always_enqueue"}
CatchUps == {"skip_missed", "enqueue_missed_with_cap"}
ASSUME SetupAssumption ==
    Setups \subseteq [policy : Policies, catchUp : CatchUps,
                      edits : Nat, crashes : Nat, cancels : Nat]
ASSUME NumberAssumption == Cap \in Nat \ {0} /\ Horizon \in Nat

VARIABLES
    now,
    routine,     \* the row: status, policy, catchUp
    trigger,     \* the schedule trigger's row: enabled, nextRunAt
    issue,       \* execution issues, each with its live run and executionRunId: the
                 \* lock is held by that run, or stale, if its run is over
    holder,      \* the dispatch that has the routine's row locked
    call,        \* requests and ticks under way
    pass,        \* the start pass of the agent
    left,        \* bounds: what may still happen in the behaviour
    fired,       \* history: how often a moment of the schedule was dispatched
    overran      \* history: a write of nextRunAt came later than its moment

rows == <<routine, trigger, issue>>
history == <<fired, overran>>
vars == <<now, rows, holder, call, pass, left, history>>

Statuses == {"active", "paused", "archived"}
Moments == 0..(Horizon + 1)

IssueRows == [state : {"none", "open", "closed", "deleted"},
              run : {"none", "queued", "claimed", "executing", "orphan"},
              lock : {"free", "held", "stale"}, by : {"dispatch", "other"}]
CallRecords == [pc : {"idle", "claim", "lock", "create", "wake", "start", "pass", "finish", "undo"},
                source : {"none", "dispatch", "patch", "retrigger"}, touches : BOOLEAN,
                slot : Moments, next : Moments, at : 0..Horizon, left : Nat,
                issue : Issues \cup {NoIssue}, status : Statuses, enabled : BOOLEAN]
TypeOK ==
    /\ now \in 0..Horizon
    /\ routine \in [status : Statuses, policy : Policies, catchUp : CatchUps]
    /\ trigger \in [enabled : BOOLEAN, nextRunAt : Moments]
    /\ issue \in [Issues -> IssueRows]
    /\ holder \in Calls \cup {NoCall}
    /\ call \in [Calls -> CallRecords]
    /\ pass \in [on : BOOLEAN, owner : Calls \cup {NoCall},
                 target : Issues \cup {NoIssue}, claimed : SUBSET Issues]
    /\ left \in [dispatches : Nat, edits : Nat, crashes : Nat, cancels : Nat]
    /\ fired \in [Moments -> Nat]
    /\ overran \in BOOLEAN

NoRow == [state |-> "none", run |-> "none", lock |-> "free", by |-> "dispatch"]
Idle == [pc |-> "idle", source |-> "none", touches |-> FALSE, slot |-> 0, next |-> 0,
         at |-> 0, left |-> 0, issue |-> NoIssue, status |-> "active", enabled |-> TRUE]
NoPass == [on |-> FALSE, owner |-> NoCall, target |-> NoIssue, claimed |-> {}]

Init ==
    /\ now = 0
    /\ trigger = [enabled |-> TRUE, nextRunAt |-> 1]
    /\ issue = [i \in Issues |-> NoRow]
    /\ holder = NoCall
    /\ call = [c \in Calls |-> Idle]
    /\ pass = NoPass
    /\ \E s \in Setups :
         /\ routine = [status |-> "active", policy |-> s.policy, catchUp |-> s.catchUp]
         /\ left = [dispatches |-> Cardinality(Issues), edits |-> s.edits, crashes |-> s.crashes,
                   cancels |-> s.cancels]
    /\ fired = [m \in Moments |-> 0]
    /\ overran = FALSE

-------------------------------------------------------------------------------
(* What findLiveExecutionIssue looks for: an open issue with a live run.       *)
Live(i) == issue[i].state = "open" /\ issue[i].run # "none"

GoTo(c, pc) == call' = [call EXCEPT ![c].pc = pc]

(* issues_open_routine_execution_uq: of the open issues of one routine with    *)
(* one fingerprint only one may be locked.                                     *)
InTheWay(i, j) == j # i /\ issue[j].state = "open" /\ issue[j].lock # "free"
Collides(i) ==
    /\ issue[i].state = "open" /\ issue[i].lock = "free"
    /\ \E j \in Issues : InTheWay(i, j)

(* What enqueueWakeup makes of an issue: with a live run the lock becomes that *)
(* run's, without one a run is queued and a lock of an earlier run is dropped. *)
Woken(i) ==
    IF issue[i].run = "none" THEN [issue[i] EXCEPT !.run = "queued", !.lock = "free"]
    ELSE [issue[i] EXCEPT !.lock = IF issue[i].state = "open" THEN "held" ELSE "free"]
WakeCollides(i) == issue[i].run # "none" /\ Collides(i)

-------------------------------------------------------------------------------
(* Who starts a dispatch.                                                      *)

Due == /\ routine.status = "active" /\ trigger.enabled
       /\ trigger.nextRunAt <= now

(* How many of the missed moments a tick stands for, and the moment after.     *)
Missed ==
    LET all == now - trigger.nextRunAt + 1
    IN  IF routine.catchUp = "skip_missed" THEN 1 ELSE IF all < Cap THEN all ELSE Cap

(* Mutant: the cursor is moved by the cap, not by the runs counted.            *)
AfterCap == IF routine.catchUp = "skip_missed" THEN now + 1 ELSE trigger.nextRunAt + Cap

After == IF routine.catchUp = "skip_missed" THEN now + 1 ELSE trigger.nextRunAt + Missed

(* A tick reads the due triggers; ticks may overlap.                           *)
TickRead(c) ==
    /\ call[c].pc = "idle" /\ Due
    /\ Missed <= left.dispatches
    /\ call' = [call EXCEPT ![c] = [Idle EXCEPT !.pc = "claim", !.source = "dispatch",
                                    !.touches = TRUE, !.slot = trigger.nextRunAt,
                                    !.next = After, !.left = Missed]]
    /\ left' = [left EXCEPT !.dispatches = @ - Missed]
    /\ UNCHANGED <<now, rows, holder, pass, history>>

(* The moments a tick has in hand.                                             *)
Claimed(c) == call[c].slot .. (call[c].slot + call[c].left - 1)

(* Mutant: the tick moves nextRunAt whatever it is.                            *)
TickClaimAnyway(c) ==
    /\ call[c].pc = "claim"
    /\ trigger' = [trigger EXCEPT !.nextRunAt = call[c].next]
    /\ fired' = [m \in Moments |-> IF m \in Claimed(c) THEN fired[m] + 1 ELSE fired[m]]
    /\ GoTo(c, "lock")
    /\ UNCHANGED <<now, routine, issue, holder, pass, left, overran>>

(* The conditional UPDATE: only one of the ticks that have read it moves       *)
(* nextRunAt, and it alone dispatches.                                         *)
TickClaim(c) ==
    /\ call[c].pc = "claim"
    /\ IF trigger.enabled /\ trigger.nextRunAt = call[c].slot
       THEN /\ trigger' = [trigger EXCEPT !.nextRunAt = call[c].next]
            /\ fired' = [m \in Moments |-> IF m \in Claimed(c) THEN fired[m] + 1 ELSE fired[m]]
            /\ call' = [call EXCEPT ![c] = [Idle EXCEPT !.pc = "lock", !.source = "dispatch",
                                            !.touches = TRUE, !.left = call[c].left]]
       ELSE /\ call' = [call EXCEPT ![c] = Idle]
            /\ UNCHANGED <<trigger, fired>>
    /\ UNCHANGED <<now, routine, issue, holder, pass, left, overran>>

(* A manual run needs a routine that is not archived and may name the schedule *)
(* trigger, if that is enabled; a webhook needs an active routine, so what it  *)
(* does a manual run does as well.                                             *)
Request(c) ==
    /\ call[c].pc = "idle"
    /\ left.dispatches > 0
    /\ routine.status # "archived"
    /\ \E touches \in BOOLEAN :
         /\ touches => trigger.enabled
         /\ call' = [call EXCEPT ![c] = [Idle EXCEPT !.pc = "lock", !.source = "dispatch",
                                         !.touches = touches, !.left = 1]]
    /\ left' = [left EXCEPT !.dispatches = @ - 1]
    /\ UNCHANGED <<now, rows, holder, pass, history>>

-------------------------------------------------------------------------------
(* The dispatch: a transaction under the row lock of the routine.              *)

(* Mutant: an issue whose run has not taken the lock yet is not found.         *)
VerdictByLock ==
    IF routine.policy # "always_enqueue" /\ \E i \in Issues : Live(i) /\ issue[i].lock = "held"
    THEN "finish" ELSE "create"

(* With a live issue the run is coalesced or skipped, unless the policy is     *)
(* always_enqueue.                                                             *)
Verdict ==
    IF routine.policy # "always_enqueue" /\ \E i \in Issues : Live(i)
    THEN "finish" ELSE "create"

(* The time the next run of the trigger is counted from, if it has one.        *)
Counted(c) == IF call[c].touches THEN now ELSE 0

(* Mutant: the dispatch takes no lock.                                         *)
LockNothing(c) ==
    /\ call[c].pc = "lock" /\ call[c].source = "dispatch"
    /\ holder' = c
    /\ call' = [call EXCEPT ![c].pc = Verdict, ![c].at = Counted(c)]
    /\ UNCHANGED <<now, rows, pass, left, history>>

Lock(c) ==
    /\ call[c].pc = "lock" /\ holder = NoCall /\ call[c].source = "dispatch"
    /\ holder' = c
    /\ call' = [call EXCEPT ![c].pc = Verdict, ![c].at = Counted(c)]
    /\ UNCHANGED <<now, rows, pass, left, history>>

(* The issue is inserted by another connection. It has no lock yet, so the     *)
(* unique index, which covers issues with a lock only, never refuses it.       *)
Create(c) ==
    /\ call[c].pc = "create"
    /\ \E i \in Issues :
         /\ issue[i].state = "none"
         /\ issue' = [issue EXCEPT ![i].state = "open"]
         /\ call' = [call EXCEPT ![c].pc = "wake", ![c].issue = i]
    /\ UNCHANGED <<now, routine, trigger, holder, pass, left, history>>

(* enqueueWakeup queues a run, or finds the one somebody else has queued       *)
(* meanwhile; it throws for a paused agent, a spent budget or a lock that the  *)
(* index refuses, and is skipped without an error under a pause hold or by the *)
(* agent's heartbeat policy.                                                   *)
Wake(c) ==
    /\ call[c].pc = "wake"
    /\ \/ /\ ~WakeCollides(call[c].issue)
          /\ issue' = [issue EXCEPT ![call[c].issue] = Woken(call[c].issue)]
          /\ GoTo(c, "start")
       \/ /\ GoTo(c, "undo") \/ GoTo(c, "finish")
          /\ UNCHANGED issue
    /\ UNCHANGED <<now, routine, trigger, holder, pass, left, history>>

(* The end of the transaction of c. The next run of the trigger is counted     *)
(* from the time the lock was taken.                                           *)
Commit(c) ==
    /\ holder' = NoCall
    /\ trigger' = IF call[c].touches THEN [trigger EXCEPT !.nextRunAt = call[c].at + 1]
                                     ELSE trigger
    /\ overran' = (overran \/ (call[c].touches /\ call[c].at < now))
    /\ call' = [call EXCEPT ![c] = IF call[c].left > 1
                    THEN [Idle EXCEPT !.pc = "lock", !.source = "dispatch",
                                        !.touches = TRUE, !.left = call[c].left - 1]
                    ELSE Idle]

Finish(c) ==
    /\ call[c].pc = "finish"
    /\ Commit(c)
    /\ UNCHANGED <<now, routine, issue, pass, left, fired>>

(* The wake has failed: the issue is deleted and the run marked as failed.     *)
Undo(c) ==
    /\ call[c].pc = "undo"
    /\ issue' = [issue EXCEPT ![call[c].issue].state = "deleted", ![call[c].issue].lock = "free"]
    /\ Commit(c)
    /\ UNCHANGED <<now, routine, pass, left, fired>>

-------------------------------------------------------------------------------
(* PATCHes of the routine and of its trigger: both write, under the lock, a    *)
(* row computed from what they read before.                                    *)

PatchRead(c) ==
    /\ call[c].pc = "idle"
    /\ \E status \in Statuses :     \* named in the request, or the one there is
         call' = [call EXCEPT ![c] = [Idle EXCEPT !.pc = "lock", !.source = "patch",
                                      !.status = status]]
    /\ left.edits > 0 /\ left' = [left EXCEPT !.edits = @ - 1]
    /\ UNCHANGED <<now, rows, holder, pass, history>>

RetriggerRead(c) ==
    /\ call[c].pc = "idle"
    /\ \E enabled \in BOOLEAN :
         call' = [call EXCEPT ![c] = [Idle EXCEPT !.pc = "lock", !.source = "retrigger",
                                      !.enabled = enabled, !.at = now]]
    /\ left.edits > 0 /\ left' = [left EXCEPT !.edits = @ - 1]
    /\ UNCHANGED <<now, rows, holder, pass, history>>

PatchWrite(c) ==
    /\ call[c].pc = "lock" /\ holder = NoCall /\ call[c].source = "patch"
    /\ routine' = [routine EXCEPT !.status = call[c].status]
    /\ call' = [call EXCEPT ![c] = Idle]
    /\ UNCHANGED <<now, trigger, issue, holder, pass, left, history>>

RetriggerWrite(c) ==
    /\ call[c].pc = "lock" /\ holder = NoCall /\ call[c].source = "retrigger"
    /\ trigger' = [enabled |-> call[c].enabled, nextRunAt |-> call[c].at + 1]
    /\ overran' = (overran \/ call[c].at < now)
    /\ call' = [call EXCEPT ![c] = Idle]
    /\ UNCHANGED <<now, routine, issue, holder, pass, left, fired>>

-------------------------------------------------------------------------------
(* The start pass of the agent (RunClaim has it in full): one at a time.       *)

(* enqueueWakeup waits for a pass of its own; others start passes as well.     *)
PassBegin(c) ==
    /\ call[c].pc = "start" /\ ~pass.on
    /\ pass' = [NoPass EXCEPT !.on = TRUE, !.owner = c]
    /\ GoTo(c, "pass")
    /\ UNCHANGED <<now, rows, holder, left, history>>

OtherPass ==
    /\ ~pass.on
    /\ \E i \in Issues : issue[i].run = "queued"
    /\ pass' = [NoPass EXCEPT !.on = TRUE]
    /\ UNCHANGED <<now, rows, holder, call, left, history>>

(* A run whose issue is closed or gone is cancelled, another is claimed.       *)
Claim(i) ==
    /\ pass.on /\ pass.target = NoIssue
    /\ issue[i].run = "queued"
    /\ IF issue[i].state = "open"
       THEN /\ issue' = [issue EXCEPT ![i].run = "claimed"]
            /\ pass' = [pass EXCEPT !.target = i]
       ELSE issue' = [issue EXCEPT ![i].run = "none"] /\ UNCHANGED pass
    /\ UNCHANGED <<now, routine, trigger, holder, call, left, history>>

(* The claimed run takes the lock if it is free. It may have been cancelled    *)
(* since its claim, and the lock it takes then is stale from the beginning.    *)
Stamp ==
    LET i == pass.target IN
    /\ pass.on /\ i # NoIssue
    /\ ~Collides(i)
    /\ issue' = [issue EXCEPT ![i].lock =
                    IF issue[i].state # "open" THEN "free"
                    ELSE IF issue[i].lock # "free" THEN issue[i].lock
                    ELSE IF issue[i].run = "claimed" THEN "held" ELSE "stale"]
    /\ pass' = [pass EXCEPT !.target = NoIssue, !.claimed = @ \cup {i}]
    /\ UNCHANGED <<now, routine, trigger, holder, call, left, history>>

(* What a pass has claimed and nobody has cancelled since.                     *)
InHand == {i \in pass.claimed \cup {pass.target} : i \in Issues /\ issue[i].run = "claimed"}
Become(run) ==
    issue' = [i \in Issues |-> IF i \in InHand THEN [issue[i] EXCEPT !.run = run] ELSE issue[i]]

(* The index refuses the stamp: claimQueuedRun throws, the pass throws, and    *)
(* so does the wake that awaits it. What the pass has claimed stays running    *)
(* in the database, and nobody executes it.                                    *)
StampRefused ==
    /\ pass.on /\ pass.target # NoIssue
    /\ Collides(pass.target)
    /\ Become("orphan")
    /\ pass' = NoPass
    /\ call' = IF pass.owner = NoCall THEN call ELSE [call EXCEPT ![pass.owner].pc = "undo"]
    /\ UNCHANGED <<now, routine, trigger, holder, left, history>>

(* The pass ends, perhaps before it has seen every run: the agent has other    *)
(* work. What it has claimed is executed.                                      *)
PassEnd ==
    /\ pass.on /\ pass.target = NoIssue
    /\ Become("executing")
    /\ pass' = NoPass
    /\ call' = IF pass.owner = NoCall THEN call ELSE [call EXCEPT ![pass.owner].pc = "finish"]
    /\ UNCHANGED <<now, routine, trigger, holder, left, history>>

PassStep == (\E i \in Issues : Claim(i)) \/ Stamp \/ StampRefused \/ PassEnd

-------------------------------------------------------------------------------
(* What happens to the issues.                                                 *)

(* A run that is over leaves its lock for a transaction that follows.          *)
Over(i) == issue' = [issue EXCEPT ![i].run = "none",
                                  ![i].lock = IF @ = "held" THEN "stale" ELSE @]

(* A run ends, or the reaper ends one nobody executes.                         *)
RunEnds(i) ==
    /\ issue[i].run \in {"executing", "orphan"}
    /\ Over(i)
    /\ UNCHANGED <<now, routine, trigger, holder, call, pass, left, history>>

(* The board or a pause cancels a run that is queued, or that a start pass has *)
(* in hand.                                                                    *)
Cancel(i) ==
    /\ issue[i].run \in {"queued", "claimed"}
    /\ left.cancels > 0 /\ left' = [left EXCEPT !.cancels = @ - 1]
    /\ Over(i)
    /\ UNCHANGED <<now, routine, trigger, holder, call, pass, history>>

(* Its release; for a lock that was stamped after it nothing but a checkout    *)
(* will do, or the next wake of the issue.                                     *)
Release(i) ==
    /\ issue[i].lock = "stale"
    /\ issue' = [issue EXCEPT ![i].lock = "free"]
    /\ UNCHANGED <<now, routine, trigger, holder, call, pass, left, history>>

(* Its agent or a user closes an issue; a closed one is out of the index.      *)
Close(i) ==
    /\ issue[i].state = "open"
    /\ issue' = [issue EXCEPT ![i].state = "closed", ![i].lock = "free"]
    /\ UNCHANGED <<now, routine, trigger, holder, call, pass, left, history>>

(* A comment, a retry or recovery wakes an open issue.                         *)
OtherWake(i) ==
    /\ issue[i].state = "open" /\ ~WakeCollides(i)
    /\ issue' = [issue EXCEPT ![i] =
                    [Woken(i) EXCEPT !.by = IF issue[i].run = "none" THEN "other" ELSE @]]
    /\ UNCHANGED <<now, routine, trigger, holder, call, pass, left, history>>

TimePasses ==
    /\ now < Horizon
    /\ now' = now + 1
    /\ UNCHANGED <<rows, holder, call, pass, left, history>>

(* The process dies: transactions are rolled back, the moments a tick has      *)
(* claimed are lost, and runs have nobody to execute them.                     *)
Crash ==
    /\ left.crashes > 0 /\ left' = [left EXCEPT !.crashes = @ - 1]
    /\ call' = [c \in Calls |-> Idle]
    /\ holder' = NoCall
    /\ pass' = NoPass
    /\ issue' = [i \in Issues |-> IF issue[i].run \in {"claimed", "executing"}
                                  THEN [issue[i] EXCEPT !.run = "orphan"] ELSE issue[i]]
    /\ UNCHANGED <<now, routine, trigger, history>>

-------------------------------------------------------------------------------
Arrival(c) == TickRead(c) \/ Request(c) \/ PatchRead(c) \/ RetriggerRead(c)
CallStep(c) ==
    \/ TickClaim(c) \/ Lock(c) \/ Create(c) \/ Wake(c) \/ PassBegin(c)
    \/ Finish(c) \/ Undo(c) \/ PatchWrite(c) \/ RetriggerWrite(c)

Next ==
    \/ \E c \in Calls : Arrival(c) \/ CallStep(c)
    \/ PassStep \/ OtherPass
    \/ \E i \in Issues : RunEnds(i) \/ Cancel(i) \/ Release(i) \/ Close(i) \/ OtherWake(i)
    \/ TimePasses \/ Crash

Spec == Init /\ [][Next]_vars

-------------------------------------------------------------------------------
(* Of the open issues whose runs dispatches have queued, at most one is live,  *)
(* unless the policy is always_enqueue: the lock is kept until the wake has    *)
(* queued the run, so the next dispatch finds it (test "serializes concurrent  *)
(* dispatches until the first execution issue is linked to a queued run").     *)
OneLiveDispatch ==
    routine.policy # "always_enqueue" =>
        \A i, j \in Issues :
            /\ Live(i) /\ issue[i].by = "dispatch"
            /\ Live(j) /\ issue[j].by = "dispatch"
            => i = j

(* A moment of the schedule is dispatched once, by whichever of the            *)
(* overlapping ticks wins it, unless a transaction that rewrites nextRunAt has *)
(* lasted into the next moment: it then puts the schedule back.                *)
FiredOnceUnlessOverrun == ~overran => \A m \in Moments : fired[m] <= 1

(* A stamp that the unique index refuses, with the exception that leaves       *)
(* claimed runs without an executor, has one of four causes: always_enqueue;   *)
(* an idle issue that something else than its dispatch has woken; a lock whose *)
(* run is over, since its release is still to come or a cancellation fell      *)
(* between its claim and its stamp (heartbeat.ts:5882-5915); or such a         *)
(* cancellation of the very run that is to stamp.                              *)
CollisionHasCause ==
    pass.target # NoIssue /\ Collides(pass.target)
        /\ routine.policy # "always_enqueue" /\ issue[pass.target].run = "claimed"
    => \A j \in Issues : InTheWay(pass.target, j) =>
         issue[j].lock = "stale" \/ "other" \in {issue[pass.target].by, issue[j].by}

===============================================================================
