# deal-desk in TLA+

Specifications of the core of deal-desk, a server that gives issues to AI agents and runs them:
how a *wake* becomes a *heartbeat run*, how runs are claimed and executed, how an issue is handed
from one run to the next, who owns an issue, what pauses and stops an agent, how routines
dispatch work on a schedule, and what happens when runs fail, are cancelled or the server dies.
TLC checks the models on small instances; TLAPS proves the theorems for every value of the
constants.

Paths below are relative to `server/src/services/` unless they say otherwise.

## 1. Inventory

One Node process serves an HTTP API, runs a scheduler and executes agents. All durable state is
in PostgreSQL; every `await` of a query is a point where other work of the process goes on.

| component | state | operations | status |
|---|---|---|---|
| agent start lock (`agent-start-lock.ts`) | a map agent → newest start promise, timers | `withAgentStartLock` | modelled: StartChain, AgentStartLock |
| run claiming (`heartbeat.ts` 5800-6000, 6734-6805, 9393-9491) | run statuses, locals of start passes | `startNextQueuedRunForAgent`, `claimQueuedRun`, `cancelRunInternal`, `cancelActiveForAgentInternal` | partly: RunClaim |
| issue execution (`heartbeat.ts`: enqueueWakeup, executeRun, retries, reaper, release) | runs, deferred wakes, the issue's execution lock; what the process has in hand | see IssueExecution | partly: IssueExecution |
| recovery (`recovery/service.ts`) | none of its own | `reconcileStrandedAssignedIssues`, `escalateStrandedAssignedIssue` | partly: IssueExecution |
| issues and checkout (`issues.ts`) | status, assignee, checkout, lock, blockers | `checkout`, `assertCheckoutOwner`, adoptions, `update`, `release`, `adminForceRelease` | partly: IssueCheckout ⇒ IssueOwner; `syncBlockedByIssueIds` planned |
| issue and agent routes (`../routes/`) | none | comments, patches, checkouts, releases, pause, resume, cancel | partly: in the models of what they call |
| agents (`agents.ts`) | agent status and pause reason | pause, resume, terminate, PATCH, activation, `finalizeAgentStatus` | partly: AgentStatus |
| approvals and hiring (`approvals.ts`) | approval status | approve, reject, requestRevision, resubmit | partly: AgentStatus |
| budgets (`budgets.ts`, `costs.ts`) | policies, incidents, cost events, pauses of scopes | `evaluateCostEvent`, `upsertPolicy`, `resolveIncident`, `getInvocationBlock` | partly: BudgetStop |
| routines (`routines.ts`, `cron.ts`) | routine, triggers with `nextRunAt`, routine runs | `tickScheduledTriggers`, `dispatchRoutineRun`, PATCHes | partly: Routines |
| subtree holds (`issue-tree-control.ts`) | holds | create, release, gate | a pause hold over one issue: IssueExecution; a gate in RunClaim |
| start-up and scheduler (`../index.ts`) | timers | reap, promote, resume, reconcile | partly: IssueExecution |
| issue execution policy | stage of an issue | decide, advance | not modelled |
| issue graph liveness, run liveness, productivity review | none | classify, escalate | not modelled |
| plugin host (workers, lifecycle, jobs, event bus) | worker processes, job rows | start, stop, schedule | not modelled |
| environments, workspaces, adapters | leases, child processes | acquire, realize, execute | not modelled; what `adapter.execute` may return is kept |
| companies, access, portability, skills, secrets, assets, documents, activity, feedback, live events, deal-desk tools and mail, `packages/`, `cli/`, `ui/` | tables, read models, clients | CRUD and transport | not modelled |

### Interaction and what is hard about it

* A comment, an assignment, a routine, a timer or a recovery calls `enqueueWakeup`. In one
  transaction it either skips the wake, merges it into the run that is already there, sets it
  aside as a *deferred wake*, or inserts a queued run.
* Whoever has queued, finished or cancelled a run starts a pass over the agent's queued runs, in
  `withAgentStartLock`. The pass counts, gates and claims; a gate that refuses cancels the run,
  and cancelling starts *another* pass for the same agent from inside the first.
* Claiming a run, stamping the issue's lock, checking the issue out, executing, writing the
  outcome and releasing the issue are separate statements. Cancels, pauses, reassignments and
  crashes fall between any two of them.
* `releaseIssueExecutionAndPromote` is the only reader of deferred wakes. Paths that end a run
  without calling it, or a crash before it, leave a deferred wake behind. Recovery looks only at
  issues without a live run *and* without a deferred wake.
* An agent's status is written by the board, the approval, the budget, the start of a run and the
  end of one, most of them by id alone on what they read before.
* A cost event is inserted, then the policy read, the sum taken, the incident looked for, inserted,
  the scope paused, its runs read and cancelled: eight statements, while wakes and claims pass
  gates that read the pause and the sum separately.
* An issue's row is changed by conditional UPDATEs (checkout, adoption) and by unconditional ones
  that were decided on an earlier read (PATCH, release).
* A routine's dispatch holds a row lock in one connection while the issue and the wake it creates
  are written by others; a unique index on locked issues decides at the claim, not at the insert.

What makes each part correct: start passes are serial and first come first served; the agent's
capacity is kept; a claim is executed exactly once and nothing runs after a pause; the execution
lock names a run that is live; the checkout right belongs to the assignee and passes between
live runs only by way of nobody; a run that ended stays ended; a closed issue stays closed;
deferred wakes are carried by somebody; failed work is run again or escalated; a terminated agent
stays terminated and only approved agents work; an overrun stops its scope and nothing else does;
a moment of a schedule is dispatched once, under the concurrency policy. `PROJECT.json` lists the
hazards, each at its line.

## 2. Modules

    StartChain <--refines-- AgentStartLock            agent-start-lock.ts
        ^ EXTENDS
    RunClaim                                          heartbeat.ts (claiming), agents.ts, routes
    IssueExecution --refines--> IssueOwner            heartbeat.ts (wakes, runs, release),
                                                      recovery/service.ts, issues.ts, routes
    IssueCheckout --refines--> IssueOwner             issues.ts, heartbeat.ts, routes/issues.ts
    AgentStatus                                       agents.ts, approvals.ts, budgets.ts,
                                                      heartbeat.ts
    BudgetStop                                        budgets.ts, costs.ts, heartbeat.ts
    Routines                                          routines.ts, heartbeat.ts
    <Module>_proofs                                   theorems (all but IssueOwner)
    MC_*                                              symmetry sets, patches, budgets for TLC

The models meet at the rows they share. RunClaim runs StartChain itself. Elsewhere a model keeps
its neighbour as the weakest environment that allows everything the neighbour does: IssueCheckout
has `HandLock` and `DropLock` for what IssueExecution does to the lock; AgentStatus and BudgetStop
have the gates and the claim of a run but no capacity; Routines has a start pass that claims in
any order.

An action is one database statement, or one transaction that locks what it reads. A read and the
write that goes by it are two actions wherever somebody else may write in between: the PATCH and
the release of an issue, `finalizeAgentStatus`, the budget's evaluation, the cancels, the reaper's
note on a detached child. Reads in a row that go into one decision are one action (the route's and
`issues.update`'s read of the issue; the two reads in the reaper), as are the statements section 5
names.

**StartChain** is what `withAgentStartLock` promises, without time: each call waits for the call
that was newest when it arrived. `pc` is the phase of a call, `pred` the marker it waits for,
`entry` the map entry; `ahead` and `forced` are history. `Enter` is the synchronous part up to
the `await`, `Proceed` and `ProceedByTimeout` the two ways the race ends, `Settle` the end of
`fn`, and `Cleanup` the `finally` block.

**AgentStartLock** adds the clock: an entry's age, each waiter's timer, and a due timer that
fires before time moves on. `ImplementsChain` says that it implements StartChain under the
mapping at its end, so what is proved of the chain holds of the lock. OvertakesOnlyByTimeout is
first come, first served for any number of waiters: a call passes an older one only if it, or a
call between the two, gave up its wait. A call here is made at most once; StartChain re-uses slots.

**RunClaim** runs the passes inside the chain. `step` is the program counter of a pass, one step
per database call; `slots`, `todo` (the snapshot of queued runs), `claimed` and `target` are its
locals. `StartNested` is the start of a pass from inside `cancelRunInternal`; the caller waits in
step "nested". After the claim's UPDATE comes `Stamp`, the awaits on the wake and on the issue; any
awaited call may fail (`Throw`), for the stamp by its unique index, and then `Reject` ends the pass
and every pass that awaits it. The runs such a pass had claimed are `dropped`: running, with nobody
to execute them until `Reap`. `cancels` and `sweep` are the API's cancels and the pause's
row-by-row cancel between their read and their write. A wait may time out when `MayTimeOut` says 30
s can pass: because bodies may be slow (`SlowBodies`), or because the line in front contains a pass
that waits for a nested one.

**IssueExecution** is one issue with all its runs. `runs`, `deferred` and `issue` are rows;
`posted` (calls of `enqueueWakeup` under way), `work` (where the claim and the execution of each
run are), `ends` (endings under way), `updates` (PATCHes, reopening comments and releases that have
read the issue and not yet written it) and `holding` (a request for a pause hold) are memory that
`Crash` wipes. `WriteUpdate` writes by id what was decided on the row of the read; a release writes
todo whatever the status is. An ending is a record that goes through the steps of whoever ended the
run: "write" (`setRunStatus`), then "clear", "loss" or "retry", then "release", and perhaps
"escalate" and "reblock". The reaper finds the child process dead, or notes that it lives on
("detached"), which writes `running` by id over whatever the row has become. `Escalate` may pick
any recovery owner or none. IssueExecution too implements IssueOwner (below), with the runs of the
issue as the runs. `CarrierLost` lists the steps that can leave a deferred wake with nothing to
promote it.

**IssueCheckout** is one issue row under overlapping calls. `call[c].step` is the next statement
of a call: "route" (the mutation guard), "clear" (`clearExecutionRunIfTerminal`), "update" (the
conditional UPDATE of `checkout`), "own" (the re-read), "unowned" and "adopt" (the two
adoptions), "existing" and "write" (`update` and `release`). `seen` and `unassigned` are what a
release's read has found: the checkout, and whether no agent was assigned. `unstamped` are claimed
runs whose lock is not stamped yet. A behaviour begins with a free issue, one in progress, or one
that a live run has checked out under an assignee that is perhaps not its agent: a stale PATCH has
left it so, which takes three calls. **IssueOwner** is what this promises: `checkoutRunId` passes
from a live run to another only by way of nobody. The mapping is `owner <- issue.checkout`,
`ended <- the ended runs`. `End` takes a set of runs, because one wake may cancel two stale
retries; `Revive` is a run that was taken for ended and is alive, as the reaper's note makes it.

**AgentStatus** is one agent. `agent` is its status and pause reason, `approval` its hire's
status, `row` and `exec` its runs: "begin" is `executeRun`'s look at the row, where it returns
without finalizing if the run is over (heartbeat.ts:6810), "mark" its write of the status.
`updates` are the calls of `finalizeAgentStatus` between "read", "count" and "write", by the
executor, a cancellation or the reaper; `calls` the API calls between their check and their write.
`ClaimThrows` and `Crash` leave a running run without executor, which `Reap` ends. `admitted` is
history: whether the agent was approved, or paused while it waited for approval; `stale` says that
a finalization was overtaken, wrote over a stop, was lost in a crash or will not come because a
sweep ended a running run nobody executed, or that a PATCH called the agent running.

**BudgetStop** is one hard-stop policy over an agent, a company or a project (`kind`), its window
of cost events (`spend`, `month`), its hard incidents by window and its `soft` ones, the pause of
its `scope`, runs passing the gates (`gate`) of a wake and then of a claim, and where their
execution, finalization or reaping is (`exec`): these write the status of an agent over a pause.
`call` is a cost event, an `upsertPolicy`, a `resolveIncident` or a pause under way; an evaluation
finds and inserts the soft incident ("warn", "notify") before it looks at the limit, and ends there
if the unique index refuses the insert. `kept` are the windows whose incident the board dismissed.
`amiss` is history: "late" (a pause written on a limit already raised, or left over from last
month), "lifted" (the scope was resumed while over the limit, by the board, by a raise decided on
an older sum or by a run of the agent), "blind" (a raise checked against an older sum), "unseen"
(the evaluation of an overrun ended before its pause, or a run was noted alive after its
cancellation).

**Routines** is one routine with one schedule trigger and the issues it creates. A call goes
through `pc`: "claim" (the conditional UPDATE of `nextRunAt`), "lock" (the row lock, `holder`),
"create", "wake", "start" and "pass" (the start pass the wake awaits), "undo", "finish". `pass`
is the start pass with its target between claim and stamp. An issue's lock is free, held by its
live run, or stale: `Cancel` ends a run before its stamp or after it, `Release` is what follows,
and a stamp that comes later names a dead run. A wake (`Woken`), a checkout or the closing of the
issue clears a stale lock. `fired` counts the dispatches of each
moment of the schedule and `overran` says that a transaction which rewrites `nextRunAt` lasted
into the next moment; both are history.

The definitions headed *Mutant* are plausible bugs; each checked property is shown to be violated
by one of them.

## 3. Runs

| run | checks | instance | result |
|---|---|---|---|
| start_lock | TypeOK, WaitBounded, OvertakesOnlyByTimeout, ImplementsChain, WaiterProceeds, GivesUpOnlyOnStale | 3 calls, stale after 3 ticks, fairness | holds |
| run_claim | SerialUnlessForced, TypeOK, OverbookedOnlyIfForced, ClaimedOnce, RunningHasExecutor, QuietAfterPause, QueuedRunDecided | 2 call slots, 2 runs, limit 1, API cancels of one run, a gate that closes on the other, 1 throw, fast bodies, 1 outermost pass, fairness; 331,434 states | holds |
| run_claim_overbook | NoOverbooking | as run_claim, 3 runs, no API cancels | **violated** |
| issue_safety | TypeOK, LockLeaksOnlyByCancel, CheckoutNamesOwner, ReopenedOnPurpose | `AllSafety`: pairs of comment, failure, reassignment, status change, release, blocker, cancel, pause; 2-3 runs; 911,811 states | holds |
| issue_recovery | FailedWorkFollowedUp, TerminalIsFinal | 1 crash and 1 failure; 1 hold; or 1 crash, 1 child that outlives it and 1 cancel; 2-3 runs, fairness; 126,510 states | holds |
| issue_lostwake | DeferredHasCarrier | 2 comments, or 1 comment and 1 failure | **violated** |
| issue_checkout | TypeOK, CheckedOutInProgress, CheckoutHoldsLock, ImplementsOwner, LockMovesByAdoption, ReleaseSparesWhatItSaw | 2 agents (one a manager), 3 runs (one on another issue), 2 overlapping calls, 4 patches; 2,398,943 states | holds |
| issue_assignee | SingleAssignee | the same | **violated** |
| agent_status | TypeOK, IdleAtRest, HiredOnlyByApproval, TerminationSettles, DecisionKept | 2 runs, 3 calls or crashes, PATCH to idle, running or terminated; 1,336,973 states | holds |
| budget_stop | TypeOK, NothingRunsOverBudget, OverrunStops, StopsOnlyOverruns, PausedWithIncident, ManualPauseKept | agent, company and project; 2 calls, 1 run, a limit of 2 that may become 0, 1 or 3, soft threshold at half of it, 3 events, 2 months, 2 acts; 5,165,315 states | holds |
| budget_notified | BoardNotified | an agent, 1 call, 1 raise | **violated** |
| routines | TypeOK, OneLiveDispatch, FiredOnceUnlessOverrun, CollisionHasCause | 4 set-ups: coalescing with a PATCH or with a cancellation, skipping with catch-up and a crash, always enqueueing; 2 calls, 2 issues, 3 time units; 3,824,125 states | holds |

All issue_safety, issue_recovery and issue_lostwake instances have two agents and one bounded
transient retry (`MaxAttempts`); the code allows more, which only lengthens the same cycle.

### Violations

Each is a disagreement between the code and a sentence of the repository (quoted in
`PROJECT.json`):

* **run_claim_overbook.** The nested start of `cancelRunInternal` waits for a lock its own caller
  holds, so it always ends by time-out, then counts and claims beside its caller, whose
  `availableSlots` is older. `OverbookedOnlyIfForced` shows that this is the only way to exceed
  the limit.
* **issue_lostwake.** A due retry that its gate refuses releases the lock but promotes nothing.
  The wake deferred behind it then keeps the stranded-work pass away. The staleness gate of a
  claim has the same effect: with a comment in the crash budget of issue_recovery, TLC finds
  FailedWorkFollowedUp violated by a mentioned agent whose run is lost: the gate cancels its
  retry, clears the lock and promotes nothing. issue_recovery shows that recovery
  works when no wake is deferred.
* **budget_notified.** After a raise has resolved the incident of a month, a second overrun in
  that month finds it, opens none, and pauses the scope all the same.
* **issue_assignee.** A PATCH to a user reads the issue unassigned; a checkout assigns an agent;
  the PATCH writes only its own columns. Both are assigned.

### Bounds

`MaxOutermost` limits passes under way that no other pass awaits; nested ones come on top, limited
by `Calls`. With two slots a pass and its nested pass are both possible. Two competing outermost
passes with slow bodies (`MaxOutermost = 2`, `SlowBodies = TRUE`, 5,223,891 states, safety only)
hold as well; they are left out of run_claim for its size and are covered by the theorems, which
bound neither. `ApiRuns` limits the runs the API may cancel, `MaxRuns` the rows of runs and
`Budgets` how often each outside event happens (a set: a behaviour keeps to one member). `GatedRuns`
are the runs whose gate may close, `MaxThrows` the awaited calls of a pass that fail. A crash is in
the budgets of issue_recovery only, and with it the reaper and its note on a detached child. A step
that would need a further row does not happen, so deadlock is not checked for IssueExecution, and
`FailedWork` asks for room for another run. issue_recovery starts with one of the agents, which
are interchangeable, instead of using symmetry, which is not sound for liveness. One or two
outside events at any point of the interleaving are enough for the races listed under hazards:
each needs one event between two steps of one ending or claim.

`MaxCalls` (AgentStatus, with its crashes; IssueCheckout), `MaxActs` and `MaxSpend` (BudgetStop)
and the records of `Setups` (Routines: `edits`, `crashes`, `cancels`) bound what the outside does;
two overlapping calls are what the races between a read and a write need, and a third one or an
ending supplies the check of what remains. In IssueCheckout a third call would meet the checkout
that a stale PATCH has left under another assignee: the runs begin in that state too, so two calls
are left to meet it. With `MaxCalls = 3` the same properties hold as well (10,872,495 states, too
many for a run kept here). `Patches` has one member per kind of change: reassign, unassign, give to
the user, leave in_progress. `Amounts` holds no limit, one below the first amount and one above; at
`WarnPercent` the soft threshold is the first unit spent, so that two events may race for the soft
incident and reach the limit together; two months are one turn of the calendar. `Horizon` has three
moments: one due, one missed, one that a late transaction can put back; `Cap` is the catch-up
limit. Models with such budgets come to rest when these are spent, so deadlock is not checked
there; it is checked in RunClaim and AgentStartLock.

### Fairness

* AgentStartLock: time passes and promise callbacks run. Nothing is assumed of `fn`, which may
  hang.
* RunClaim: queries return and promises resolve (each pass's next step), runs end, a sweep goes
  on, and a pass is started while something is queued: the scheduler's `resumeQueuedRuns` tick.
  Nothing need throw, and the scheduler's tick reaps a running run that nobody executes.
  No fairness on API calls. `SlowBodies` is FALSE in this run, so time-outs happen only where a
  nested pass makes them unavoidable.
* IssueExecution: the process goes on with what it has begun, and its timer reaps, promotes due
  retries and reconciles; an update that has read the issue writes it. A child process that
  outlived the server is assumed to end some day, for the reaper fails its run only then. Users
  need not act, paused agents need not be resumed, holds need not be lifted; adapters are assumed
  to return.

The other modules are checked for safety, without fairness. TerminationSettles needs none: it
says that once nothing that began before is under way, no step brings the agent back.

## 4. Proofs

Eight modules hold theorems, for any sets of calls, runs, agents, issues and patches and for any
limit. The assumptions are those named in the modules: `NoCall` is no call, the limit is a
positive number, runs are finite, and so on. No module declares a recursive operator.

* **StartChain.** `ChainInv` is inductive. SerialUnlessForced alone is not: it must be known
  that a waiting call's predecessor is live, that `ahead` of a waiter is its predecessor's
  `ahead` with the predecessor added, that live calls are totally ordered by it, and that the
  entry is its last element (EntryNeverLost). **StartPassesSerial**, **StartPassesFifo** and
  **EntryNeverLost** follow.
* **AgentStartLock.** `LockInv` adds to the types what the timers know: a waiter's remaining time
  is the stale time minus its predecessor's age, and an entry is a live call. It gives
  **WaitsAreBounded**, **OnlyStaleGivenUp** and the refinement **ChainImplemented**: each step
  is a step of StartChain or a stutter. **ServedInOrder** needs `LineInv`: the calls stand in one
  line, each behind the call it found in the map or one that had returned.
* **RunClaim.** `ClaimInv` adds to the chain: which locals mean something at which step
  (*Shape*); that a claimed or executed run is never queued again, without which a conditional
  UPDATE would not prevent a second claim, and that a running one has an executor, a pass, or was
  dropped by a pass that failed (*Ownership*); that, until a time-out, what a pass
  counted bounds what runs beside it: running runs it has not claimed, plus its slots, stay
  within the limit (*Capacity*), which needs the serial bodies of the chain; and that what may
  still be claimed during a sweep is among the rows the sweep has read (*PauseInv*).
  **NoOverbookingUnlessForced**, **EveryClaimExecutedOnce**, **NoRunForNobody** and
  **PauseKeepsQuiet** follow; they use the chain's invariant, so they do not depend on the clock.
  **PassesNeverDeadlock**: among the passes under way there is always one that waits for nothing or
  whose timer may end its wait, although each nested pass waits for the lock its own caller holds.
  `Line` (who is ahead of a pass has its own line ahead of it too; a nested pass stands behind its
  caller) makes the shortest line the argument: the pass at its head waits for nobody, and if it
  waits for a nested pass, that one's timer is due. The theorem is about states; that the pass then
  does go on is QueuedRunDecided, and the run's.
* **IssueExecution.** `TypeInv` adds to the types what an ending may still do (`EndOK`): a retry
  after a loss is the first of its run, and whoever escalates has seen an assignee; without the
  first, the count of losses has no bound. Every step makes the rows grow (`Grows`: a run keeps its
  agent and losses, and an ended one stays ended but for the reaper's note), and every step changes
  the issue in one of four ways (`IssueChange`: only the lock; taken by a run of the assignee;
  moved off its owner; set in progress). **TypesKept**, **EndedRunsStayEnded**,
  **CheckoutIsTheOwners** and **ClosedUntilReopened** follow, crashes included, with the exceptions
  their properties name: the reaper's note on a detached child revives a run (heartbeat.ts:6507); a
  PATCH that names the assignee it has read, written over another, leaves the checkout
  (issues.ts:3340); a release and an escalation do not look at the status they overwrite
  (issues.ts:3835, recovery/service.ts:1716). `LockInv` is about the lock: who succeeded or failed
  is past its stamp, nobody else has decided an outcome for a run in hand, an ending past its write
  has a terminal run, and the last step of an escalation finds its run on the lock only if the run
  was cancelled. It gives **OnlyCancelsLeak**, under the assumption that no budget contains a
  crash: a crash loses the ending that would release the lock. This theorem, LockOutlivesNoRun and
  OwnerHoldsLock are about behaviours without a revival (`[][~Revives]_vars`): a run brought back
  while its ending is under way may lose its lock alive. Four more hold with crashes.
  **OwnerImplemented**: each step is one of IssueOwner or a stutter, since a step that ends a run
  leaves the checkout alone (`EndsOrMoves`) and one that takes it finds it free or left by a dead
  run (the third conjunct of `Taken`), and the reaper's note is a `Revive`. **LockOutlivesNoRun**:
  the lock, which retries, promotions, recoveries and wakes hand on, leaves a live run for another
  only by the adoption of a dead run's checkout; it needs `ClosingOver` (an ending past its write
  has a terminal run), and that a wake which seizes the issue has found its holder to be a stale
  retry it cancels. **OwnerHoldsLock**: a live run that has the checkout has the lock as well,
  which IssueCheckout shows of overlapping calls. `CheckoutBegun` (a checkout's run is running or
  over, so it is nobody's stale retry and no promotion's) is what makes it inductive.
  **OnlyTheseLoseWakes** says why issue_lostwake fails: unless one of the four kinds of step in
  `CarrierLost` happens (a crash, a retry its gate refuses, a stale claim or a stale retry
  cancelled, a release turned away by a dead run's lock), every deferred wake has a live run, or an
  ending on its way to the release, that will see it (`Carried`).
* **AgentStatus.** `Sealed` (terminated, no budget reason, and under way only what leaves it so) is
  kept by every step, which gives **TerminationIsKept**. `NotAdmitted` (an agent that was neither
  approved nor paused is awaiting approval or terminated, has no run, no finalization and no
  resume under way) gives **WorkNeedsApproval**. **DecisionsAreKept** looks at each step.
  **RestsIdle** rests on three invariants. `LooksAgain`: while nothing is stale and the agent is
  shown as running, or a finalization has counted a run and is about to show it so, a run is
  active or another finalization has still to look. It is not inductive alone: the step that ends
  the last run must begin a finalization nobody began before (`FinalizedOnce`), and a run being
  inserted has no row yet (`RunsHeld`). What `stale` covers are the four causes IdleAtRest names,
  each a way in which nobody looks again: overtaken, lost in a crash, a quiet return, a PATCH.
* **BudgetStop.** `StopInv`: the budget's reason is on a scope, and a call is about to pause one,
  only where an incident is known. **PauseHasIncident**. **ManualPausesKept**: nothing of the
  budget lifts the board's pause; a run of the agent that begins or ends may write over it, and is
  exempted. The three properties about sums do not follow the sums through the calls; they say of
  every state which call will still act on what it has read. `OverrunIsMet` (an exceeded budget's
  scope is paused or a call on its way to the pause exists) gives **OverrunsAreStopped**;
  `PauseIsMet` (a pause within the budget has a call that will lift it) gives
  **OnlyOverrunsAreStopped**; `HotIsChased` (a run that runs, or has passed the look at the spend,
  under an exceeded budget is chased by a call that has not yet read the rows to cancel, or has
  this one among them) gives **NothingRunsOver**. They hold while the evaluation of an overrun is
  not cut short before its pause ("unseen"); "lifted" and "blind" are as in the properties. A later
  evaluation that does pause the scope clears "unseen" and "lifted".
* **IssueCheckout.** TypeOK, CheckedOutInProgress, CheckoutHoldsLock and `Decided` (what a call
  that has read the row may rely on when it writes) are inductive together:
  a stale read does no harm to these because the UPDATE asks again or clears both fields.
  **CheckoutMeansInProgress**, **OwnerHoldsLock**, **LockMovesOnlyByAdoption**,
  **ReleaseSparesSeen** and the refinement **OwnerImplemented** follow.
* **Routines.** **FiredOnce** rests on `FiredInv`: until a transaction has overrun, everything
  fired lies before `nextRunAt`, so a tick that wins the conditional UPDATE fires what nobody has.
  **DispatchesSerialized** and **CollisionsExplained** rest on `DispatchInv`: only the holder of
  the row lock is between "create" and "finish" (*Exclusive*), a pass with an owner is the one its
  dispatch awaits (*OwnerPasses*), an issue not yet created has neither run nor lock (*FreshRows*),
  a lock that is held is a live run's (*HeldLive*), and until a dispatch has queued its run no
  dispatched issue is live (*NoneLive*).

LockPassesFromTheDead, CheckoutHoldsLock and ImplementsOwner of IssueExecution, NoDeadlock and what
is said of CarrierLost are theorems without a run of their own, and so is FifoUnlessForced of
StartChain, since RunClaim's run has room for one waiter only. TLC found the first three to
hold on the instance of issue_safety, NoDeadlock on run_claim's with a third slot and no throw, and
FifoUnlessForced with three outermost passes over one run. Without the steps of CarrierLost the
instance of issue_safety still has 864,279 of its 911,811 states, and in each of them every deferred
wake is carried.

Only model-checked: the liveness properties (WaiterProceeds, QueuedRunDecided,
FailedWorkFollowedUp), which are out of the prover's reach, as is induction over data. Every
invariant and action property of the passing runs is a theorem.

## 5. What the models leave out, and what was noticed

*RunClaim.* Priorities: a pass tries the runs of its snapshot in any order. A budget block and a
hold are one kind of closed gate, an unmet dependency and staleness the other; gates do not
reopen. A restart is not modelled, so the reaper finds no detached child here. A throw costs the
pass its claimed runs (heartbeat.ts:5882-5940): they run for nobody until the reaper's threshold has
passed. `finalizeAgentStatus` is AgentStatus's; live events are left out.

*IssueExecution.* Capacity and the start lock are RunClaim's. `timed_out` counts as failed.
Max-turn continuations, reviews and participants, continuation-summary parking, budgets, the
successful-run hand-off, liveness continuations, the issue-comment policy, recovery issues blocked
in place, `backlog`, and human assignees (IssueCheckout has them) are not modelled.
`issues.checkout` is one step; a retry's promotion gate, its write and its lock clearing are one
step; the route's read and the service's read of an update are one step, identical updates under
way at the same time are one record, and the statements of a pause before its sweep are one step;
the reads of `enqueueWakeup` before its transaction are folded into it. The reaper's threshold is
assumed to have passed. Comments are users'; an interrupting one is a cancellation followed by a
comment. Rows of a sweep may be cancelled in any order. A pass of the scheduler waits for its
predecessor's steps on this issue. A wake in `posted` is lost in a crash, as is an ending under
way. With lazy locking a mentioned agent's run and the assignee's may run side by side; no document
forbids it. Noticed: the reaper's note on a child that is alive overwrites a cancellation made
since its read (heartbeat.ts:6480, 6507); a PATCH that repeats the assignee it has read, written
when the issue has gone to another, leaves that one's checkout and lock under the old assignee
(issues.ts:3246, 3340, 3451); a release reopens an issue closed since its read or before it
(issues.ts:3835); a cancellation between claim and stamp leaves the lock to a dead run.

*IssueCheckout.* "todo" stands for every status but in_progress, one user for all. Holds, blockers
and permissions only refuse. A release wipes a checkout made after its read, or one it has read on an
issue that a stale update had unassigned (issues.ts:3814-3823 asks about an assignee only), and
`adoptStaleCheckoutRun` takes the execution lock whoever holds it: ReleaseSparesWhatItSaw and
LockMovesByAdoption say how far that goes.

*AgentStatus.* `executeRun` (heartbeat.ts:7528) and `finalizeAgentStatus` write by id alone, so a
terminated agent can be shown as idle or running until what had begun has ended, and is then
terminated no more; doc/SPEC-implementation.md:415 calls termination irreversible.
TerminationSettles is what does hold. Noticed: an agent can rest as running, after a crash before a
finalization or when a sweep ends a run that `executeRun` then leaves without one
(heartbeat.ts:6810); IdleAtRest lists the ways. The hire hook, keys and configuration revisions are
left out.

*BudgetStop.* The notifications and the approval that accompany an incident are left out; an
approval inserted beside an incident the index refuses is left an orphan. Noticed: two evaluations
that race for the soft incident may lose the hard stop, for the one that is refused the insert
throws before it looks at the limit (budgets.ts:671-672), and if it carries the overrun nobody
stops the scope until the next cost event; a run's start and its finalization write an agent's
status over a pause, the board's or the budget's (heartbeat.ts:7528, 6230). RunClaim and
AgentStatus have what else a run does; here a run's execution is a begin, some work, and the read
and the write of its finalization. A new month resumes nothing, although
docs/guides/board-operator/costs-and-budgets.md:47 says so; the board's explicit resume does not
override the gate's own look at the spend; the stop of a company overwrites an archived or paused
status; `spentMonthlyCents` is written from an older total (costs.ts:79) but decides nothing;
PATCHing `budgetMonthlyCents` of an agent or company does not reach its policy.

*Routines.* One fingerprint: dispatches with differing variables do not meet in the index. Left out
are changes of the policy by PATCH (the dispatch reads it before the lock), idempotency keys,
webhook secrets and signatures, variables, revisions and restore, reopening of closed issues,
retries that keep the lock while queued, and the pool of connections (client.ts:49: as many
dispatches as it has connections can wait for each other). Noticed: a lock that a cancellation
between claim and stamp has left makes the stamp of every later dispatch collide, and fail the run,
until the issue that holds it is woken, checked out or closed; a moment that a tick has
claimed is lost in a crash; skip_missed fires one late run; `syncRunStatusForIssue` called before
the dispatch's commit finds no row, and the routine run stays issue_created; a PATCH that does not
name the status writes back the one it read before the lock (routines.ts:1558), undoing a pause or
an archival made in between; an archived routine can be made active again by PATCH, although
docs/api/routines.md:218 says not; under always_enqueue the index still lets only one issue be
locked, although ui/src/pages/Routines.tsx:53 offers overlapping runs.

### Not modelled

The execution policy is a pure stage machine within one request. Graph liveness classifies rows
it reads and changes nothing but by recovery wakes, which IssueExecution has. The plugin host,
the environments and the workspaces are supervision of external processes, independent of the run
core. Companies, access, portability, secrets, assets, documents, activity, feedback and the
deal-desk tools are CRUD, permission checks or transport without interleavings that decide
anything; live events are best effort. Adapters, the command line and the web interface are
clients or external programs. Most of the repository's lines are of these kinds.

## 6. Plan

Done: the start lock with its refinement, run claiming, issue execution, the checkout with its
refinement, agent status and hiring, the budget's hard stop, routines; proofs for all of them.

1. *Wake delivery*: an abstract specification of what IssueExecution promises of a wake (turned
   into a run, merged, or refused, never forgotten), with IssueExecution refining it where it
   does.
2. *BlockerGraph*: `syncBlockedByIssueIds` and the wakes of dependents; no lost wake, and cycles
   only by concurrent updates.
3. Candidates after that: the connection pool under routine dispatches, the execution-policy
   stage machine as operators, the plugin worker manager.
