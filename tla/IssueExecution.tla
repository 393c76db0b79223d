---------------------------- MODULE IssueExecution ----------------------------
(*****************************************************************************)
(* One issue and every heartbeat run about it: wakes are turned into runs or *)
(* set aside while another run holds the issue (enqueueWakeup), runs are     *)
(* claimed and executed (claimQueuedRun, executeRun), end in several ways,   *)
(* and each ending hands the issue over (releaseIssueExecutionAndPromote).   *)
(* A crash forgets what the server holds in memory; the reaper and the       *)
(* stranded-work pass of the recovery service pick up what is left.          *)
(*                                                                           *)
(* The rows of the three tables are runs, deferred and issue; what the       *)
(* server process is in the middle of is posted, work, ends, updates and     *)
(* holding.  An action is one transaction or one statement, with the reads   *)
(* in front of it that nothing can come between and the calls it begins;     *)
(* issues.update and issues.release read and write in two actions.           *)
(* Source: server/src/services/heartbeat.ts, recovery/service.ts, issues.ts  *)
(*****************************************************************************)
EXTENDS Naturals, Sequences, FiniteSets

CONSTANTS
    Agents,
    NoAgent,
    MaxRuns,       \* bound: the most rows any budget allows
    MaxAttempts,   \* BOUNDED_TRANSIENT_HEARTBEAT_RETRY_MAX_ATTEMPTS
    Budgets        \* bounds: how often each kind of outside event happens, and
                   \* under "row" how many rows of runs there may be

NoRun == 0

Events == {"comment", "assign", "status", "release", "cancel", "pause", "hold", "block",
           "crash", "detach", "fail", "row"}

ASSUME IssueExecutionAssumption ==
    /\ NoAgent \notin Agents
    /\ MaxRuns \in Nat /\ MaxAttempts \in Nat
    /\ Budgets \subseteq {b \in [Events -> Nat] : b["row"] <= MaxRuns}

VARIABLES
    runs,       \* heartbeat_runs about the issue, in the order of createdAt
    deferred,   \* agent_wakeup_requests with status deferred_issue_execution
    issue,      \* the issue row
    invokable,  \* the agents that are not paused
    held,       \* does a subtree pause hold cover the issue?
    ready,      \* are all its blockers resolved?
    posted,     \* memory: calls of enqueueWakeup that have not reached the database
    work,       \* memory: where the claim and the execution of each run are
    ends,       \* memory: endings of runs under way
    holding,    \* memory: how far the request for a pause hold is
    updates,    \* memory: updates and releases of the issue that have read its row
    left        \* what is left of the budget of this behaviour

rows == <<runs, deferred, issue>>
world == <<invokable, held, ready>>
memory == <<posted, work, ends, holding, updates>>
vars == <<rows, world, memory, left>>

LiveStatuses == {"queued", "scheduled_retry", "running"}
TerminalStatuses == {"succeeded", "failed", "cancelled"}
Open == {"todo", "in_progress"}
Closed == {"done", "cancelled"}

(* issue_assigned stands for every reason no gate tells apart from it, such  *)
(* as issue_status_changed and issue_blockers_resolved.                      *)
Reasons == {"issue_assigned", "issue_commented", "issue_reopened_via_comment",
            "issue_comment_mentioned", "issue_recovery", "process_lost_retry",
            "transient_failure_retry", "source_scoped_recovery_action"}
(* context.retryReason; "productive_continuation" stands for the reason      *)
(* issue_continuation_needed with the source of a productive continuation.   *)
RetryReasons == {"none", "assignment_recovery", "issue_continuation_needed",
                 "productive_continuation", "process_lost", "transient_failure"}

RetryKind(retry) == IF retry = "productive_continuation" THEN "issue_continuation_needed" ELSE retry

(* What an ending is called after decides what it does once the status is    *)
(* written: see NextStep.                                                    *)
Enders == {"gate", "stale", "api", "sweep", "adapter", "transient", "setup", "reaper",
           "reaperRetry", "detached", "reconcile"}

RunIds == 1..Len(runs)
Live == {r \in RunIds : runs[r].status \in LiveStatuses}
Terminal(r) == r \in RunIds /\ runs[r].status \in TerminalStatuses

Wakes == [agent : Agents, reason : Reasons, retry : RetryReasons, comment : BOOLEAN,
          user : BOOLEAN]

RunRows == [agent : Agents, reason : Reasons, retry : RetryReasons, comment : BOOLEAN,
            status : LiveStatuses \cup TerminalStatuses, losses : 0..1, attempt : 0..MaxAttempts]

IssueStatuses == Open \cup Closed \cup {"blocked"}
IssueRows == [status : IssueStatuses, assignee : Agents \cup {NoAgent}, lock : 0..Len(runs),
              key : Agents \cup {NoAgent}, checkout : 0..Len(runs)]

EndSteps == {"write", "clear", "loss", "retry", "release", "escalate", "reblock"}
EndRecords ==
    {e \in [run : RunIds, by : Enders, status : TerminalStatuses \cup {"running"},
            step : EndSteps, assignee : Agents \cup {NoAgent}] :
       e.status = "running" => e.by = "detached"}

(* status and agent are what the call writes, was and of what it has read.   *)
UpdateRecords == [by : {"assign", "status", "comment", "release"}, status : IssueStatuses,
                  agent : Agents \cup {NoAgent}, was : IssueStatuses,
                  of : Agents \cup {NoAgent}, run : 0..Len(runs), mentioned : SUBSET Agents]

TypeOK ==
    /\ runs \in Seq(RunRows) /\ Len(runs) <= MaxRuns
    /\ deferred \in Seq(Wakes)
    /\ issue \in IssueRows
    /\ invokable \subseteq Agents /\ held \in BOOLEAN /\ ready \in BOOLEAN
    /\ posted \subseteq Wakes
    /\ work \in [1..MaxRuns -> {"none", "update", "stamp", "start", "adapter"}]
    /\ ends \subseteq EndRecords
    /\ holding \in [step : {"none", "create", "wakeups"}, runs : SUBSET RunIds]
    /\ updates \subseteq UpdateRecords
    /\ left \in [Events -> Nat]

NoRequest == [step |-> "none", runs |-> {}]

Init ==
    /\ runs = <<>> /\ deferred = <<>>
    /\ \E a \in Agents :
         /\ issue = [status |-> "todo", assignee |-> a, lock |-> NoRun, key |-> NoAgent,
                     checkout |-> NoRun]
         /\ posted = {[agent |-> a, reason |-> "issue_assigned", retry |-> "none",
                       comment |-> FALSE, user |-> FALSE]}
    /\ invokable = Agents /\ held = FALSE /\ ready = TRUE
    /\ work = [r \in 1..MaxRuns |-> "none"]
    /\ ends = {} /\ updates = {}
    /\ holding = NoRequest
    /\ left \in Budgets

Spend(event) == left[event] > 0 /\ left' = [left EXCEPT ![event] = @ - 1]

SystemWake(a, why) ==
    [agent |-> a, reason |-> why, retry |-> "none", comment |-> FALSE, user |-> FALSE]
UserComment(a, why) == [SystemWake(a, why) EXCEPT !.comment = TRUE, !.user = TRUE]
RecoveryWake(a, retry) == [SystemWake(a, "issue_recovery") EXCEPT !.retry = retry]

(* allowsIssueInteractionWake: the reason of a human interaction and a comment *)
Interaction(w) ==
    /\ w.reason \in {"issue_commented", "issue_reopened_via_comment", "issue_comment_mentioned"}
    /\ w.comment

(* mergeCoalescedContextSnapshot: the later context overrides, comments add up *)
Merge(old, new) ==
    [old EXCEPT !.reason = new.reason,
                !.retry = IF new.retry = "none" THEN RetryKind(@) ELSE new.retry,
                !.comment = @ \/ new.comment]

NewRun(w) ==
    [agent |-> w.agent, reason |-> w.reason, retry |-> w.retry, comment |-> w.comment,
     status |-> "queued", losses |-> 0, attempt |-> 0]

Unlocked(i) == [i EXCEPT !.lock = NoRun, !.key = NoAgent]
Locked(i, r, a) == [i EXCEPT !.lock = r, !.key = a]

(* Mutant: the lock is cleared, the checkout stays.                          *)
VacatedLockOnly(i) == Unlocked(i)

(* issues.update leaving in_progress, or changing the assignee *)
Vacated(i) == [Unlocked(i) EXCEPT !.checkout = NoRun]

(******************************* enqueueWakeup ******************************)

(* Both enqueueWakeup and the promotion of a deferred wake ask this first.   *)
Admitted(w) == w.agent \in invokable /\ (~held \/ Interaction(w))

(* cancelStaleScheduledRetry's condition                                     *)
RetryIsStale(r) ==
    /\ runs[r].status = "scheduled_retry"
    /\ runs[r].agent # issue.assignee \/ issue.status = "cancelled"

First(S) ==
    IF S = {} THEN NoRun
    ELSE LET running == {r \in S : runs[r].status = "running"}
         IN  CHOOSE r \in S : /\ running # {} => r \in running
                              /\ \A s \in S : (running # {} => s \in running) => r <= s

(* The live run the wake meets: the one the lock names, else legacyRun; a    *)
(* stale scheduled retry met on the way is cancelled.                        *)
Holder == IF issue.lock \in Live THEN issue.lock ELSE NoRun
Met == IF Holder # NoRun /\ ~RetryIsStale(Holder) THEN Holder ELSE First(Live \ {Holder})
Dropped == {r \in {Holder, Met} \ {NoRun} : RetryIsStale(r)}
Active == IF Met \in Dropped THEN NoRun ELSE Met

RunsSwept ==
    [r \in RunIds |-> IF r \in Dropped THEN [runs[r] EXCEPT !.status = "cancelled"] ELSE runs[r]]
IssueSeized ==
    IF Active = NoRun THEN Unlocked(issue)
    ELSE IF Active = issue.lock THEN issue
    ELSE Locked(issue, Active, runs[Active].agent)

(* isSameExecutionAgent; issue.executionAgentNameKey was read before the lock *)
(* was stamped.                                                              *)
SameAgent(w) == w.agent = IF issue.key # NoAgent THEN issue.key ELSE runs[Active].agent

Coalesces(w) == SameAgent(w) /\ ~(w.comment /\ runs[Active].status = "running")

DeferredBy(a) == {i \in 1..Len(deferred) : deferred[i].agent = a}

Deliver(w) ==
    /\ w \in posted
    /\ posted' = posted \ {w}
    /\ UNCHANGED <<work, ends, world, holding, left>>

WakeRefused(w) ==
    /\ Deliver(w)
    /\ ~Admitted(w)
    /\ UNCHANGED rows

WakeSkipped(w) ==
    /\ Deliver(w)
    /\ Admitted(w) /\ Active = NoRun /\ ~ready /\ ~Interaction(w)
    /\ runs' = RunsSwept /\ issue' = IssueSeized
    /\ UNCHANGED deferred

WakeQueued(w) ==
    /\ Deliver(w)
    /\ Admitted(w) /\ Active = NoRun /\ (ready \/ Interaction(w))
    /\ Len(runs) < left["row"]
    /\ runs' = Append(RunsSwept, NewRun(w))
    /\ issue' = IssueSeized   \* executionRunId is stamped by the claim, not here
    /\ UNCHANGED deferred

WakeCoalesced(w) ==
    /\ Deliver(w)
    /\ Admitted(w) /\ Active # NoRun /\ Coalesces(w)
    /\ runs' = [RunsSwept EXCEPT ![Active] = Merge(@, w)]
    /\ issue' = IssueSeized
    /\ UNCHANGED deferred

WakeDeferred(w) ==
    /\ Deliver(w)
    /\ Admitted(w) /\ Active # NoRun /\ ~Coalesces(w)
    /\ runs' = RunsSwept /\ issue' = IssueSeized
    /\ deferred' = IF DeferredBy(w.agent) = {} THEN Append(deferred, w)
                   ELSE LET i == CHOOSE i \in DeferredBy(w.agent) :
                                     \A j \in DeferredBy(w.agent) : i <= j
                        IN  [deferred EXCEPT ![i] = Merge(@, w)]

EnqueueWakeup(w) ==
    /\ \/ WakeRefused(w) \/ WakeSkipped(w) \/ WakeQueued(w)
       \/ WakeCoalesced(w) \/ WakeDeferred(w)
    /\ UNCHANGED updates

(************************ claimQueuedRun and executeRun *********************)

Ending(r, by, status) ==
    [run |-> r, by |-> by, status |-> status, step |-> "write", assignee |-> NoAgent]

Goto(r, step) == work' = [work EXCEPT ![r] = step]

(* evaluateQueuedRunStaleness: another assignee, or a closed issue           *)
StaleQueued(r) ==
    \/ runs[r].agent # issue.assignee /\ ~Interaction(runs[r])
    \/ issue.status \in Closed /\ ~runs[r].comment

(* The gates of claimQueuedRun, in their order                               *)
ClaimGates(r) ==
    /\ runs[r].status = "queued" /\ work[r] = "none"
    /\ \A e \in ends : e.run = r => e.by \notin {"gate", "stale"}
    /\ IF ~Admitted(runs[r])
       THEN ends' = ends \cup {Ending(r, "gate", "cancelled")} /\ UNCHANGED work
       ELSE IF (~ready /\ ~Interaction(runs[r])) \/ StaleQueued(r)
       THEN ends' = ends \cup {Ending(r, "stale", "cancelled")} /\ UNCHANGED work
       ELSE Goto(r, "update") /\ UNCHANGED ends
    /\ UNCHANGED <<rows, world, posted, holding, left>>

(* Mutant: the UPDATE has no status = 'queued' condition.                    *)
ClaimUnconditionally(r) ==
    /\ work[r] = "update"
    /\ runs' = [runs EXCEPT ![r].status = "running"] /\ Goto(r, "stamp")
    /\ UNCHANGED <<deferred, issue, world, posted, ends, holding, left>>

ClaimUpdate(r) ==
    /\ work[r] = "update"
    /\ IF runs[r].status = "queued"
       THEN runs' = [runs EXCEPT ![r].status = "running"] /\ Goto(r, "stamp")
       ELSE UNCHANGED runs /\ Goto(r, "none")
    /\ UNCHANGED <<deferred, issue, world, posted, ends, holding, left>>

(* Lazy locking: only the assignee's run takes the lock, and only a free one *)
StampLock(r) ==
    /\ work[r] = "stamp"
    /\ issue' = IF /\ runs[r].reason # "source_scoped_recovery_action"
                   /\ issue.assignee = runs[r].agent
                   /\ issue.lock \in {NoRun, r}
                THEN Locked(issue, r, runs[r].agent) ELSE issue
    /\ Goto(r, "start")
    /\ UNCHANGED <<runs, deferred, world, posted, ends, holding, left>>

(* shouldAutoCheckoutIssueForWake                                            *)
AutoCheckout(r) ==
    /\ issue.assignee = runs[r].agent /\ ready
    /\ issue.status \in Open \cup {"blocked"}
    /\ runs[r].reason \notin {"source_scoped_recovery_action", "issue_comment_mentioned"}

(* issues.checkout, with clearExecutionRunIfTerminal in front: take the issue *)
(* over, adopt an unowned or a stale checkout, or leave it (409, caught).     *)
CheckedOut(r) ==
    LET i == IF Terminal(issue.lock) THEN Unlocked(issue) ELSE issue
        free == i.lock \in {NoRun, r}
        taken == [i EXCEPT !.status = "in_progress", !.lock = r, !.checkout = r]
    IN  IF i.status # "in_progress" /\ i.checkout \in {NoRun, r} /\ free THEN taken
        ELSE IF i.status = "in_progress" /\ i.checkout = NoRun /\ free THEN taken
        ELSE IF i.status = "in_progress" /\ i.checkout # r /\ Terminal(i.checkout) THEN taken
        ELSE i

(* executeRun up to adapter.execute: a run no longer running is left alone,  *)
(* and a hold makes the checkout throw, which fails the run.                 *)
BeginExecution(r) ==
    /\ work[r] = "start"
    /\ IF runs[r].status # "running"
       THEN Goto(r, "none") /\ UNCHANGED <<issue, ends>>
       ELSE IF AutoCheckout(r) /\ held /\ ~Interaction(runs[r])
       THEN Goto(r, "none") /\ ends' = ends \cup {Ending(r, "setup", "failed")} /\ UNCHANGED issue
       ELSE /\ Goto(r, "adapter")
            /\ issue' = IF AutoCheckout(r) THEN CheckedOut(r) ELSE issue
            /\ UNCHANGED ends
    /\ UNCHANGED <<runs, deferred, world, posted, holding, left>>

(* Mutant: whatever status the row has becomes the outcome.                  *)
AdapterTrustsRow(r) ==
    /\ work[r] = "adapter"
    /\ Goto(r, "none")
    /\ ends' = ends \cup {Ending(r, "adapter", runs[r].status)}
    /\ UNCHANGED <<rows, world, posted, holding, left>>

(* adapter.execute resolves and the run row is read again: a terminal status *)
(* found there becomes the outcome.  When it throws, or what follows it does, *)
(* the catch writes failed and does not look at the row.                     *)
AdapterReturns(r) ==
    /\ work[r] = "adapter"
    /\ Goto(r, "none")
    /\ \/ /\ ends' = ends \cup {Ending(r, "adapter", IF Terminal(r) THEN runs[r].status
                                                   ELSE "succeeded")}
          /\ UNCHANGED left
       \/ Spend("fail") /\ ends' = ends \cup {Ending(r, "adapter", "failed")}
       \/ /\ Spend("fail") /\ ~Terminal(r)
          /\ ends' = ends \cup {Ending(r, "transient", "failed")}
    /\ UNCHANGED <<rows, world, posted, holding>>

(***************************** how runs end *********************************)

(* setRunStatus is unconditional; what follows depends on who ends the run.  *)
NextStep(by) ==
    CASE by = "stale"       -> "clear"
      [] by = "reaperRetry" -> "loss"
      [] by = "transient"   -> "retry"
      [] OTHER              -> "release"

(* Between the decision to escalate and the update, what it was decided on   *)
(* may change; the assignee it saw is kept.                                  *)
Escalating(e) == [e EXCEPT !.step = "escalate", !.assignee = issue.assignee]

Advance(e, step) == ends' = (ends \ {e}) \cup {[e EXCEPT !.step = step]}
Finish(e) == ends' = ends \ {e}

(* The reaper's note that a child process lives on ends nothing.             *)
WriteStatus(e) ==
    /\ e.step = "write"
    /\ runs' = [runs EXCEPT ![e.run].status = e.status]
    /\ IF e.by = "detached" THEN Finish(e) ELSE Advance(e, NextStep(e.by))
    /\ UNCHANGED <<deferred, issue, world, posted, work, holding, left>>

(* cancelQueuedRunForStaleIssue, cancelQueuedRunForBlockedDependencies       *)
ClearLock(e) ==
    /\ e.step = "clear"
    /\ issue' = IF issue.lock = e.run THEN Unlocked(issue) ELSE issue
    /\ Finish(e)
    /\ UNCHANGED <<runs, deferred, world, posted, work, holding, left>>

Handed(i, from, to) == IF i.lock = from THEN Locked(i, to, runs[from].agent) ELSE i

(* enqueueProcessLossRetry                                                   *)
RetryAfterLoss(e) ==
    /\ e.step = "loss" /\ Len(runs) < left["row"]
    /\ runs' = Append(runs, [runs[e.run] EXCEPT
                               !.reason = "process_lost_retry", !.retry = "process_lost",
                               !.status = "queued", !.losses = @ + 1, !.attempt = 0])
    /\ issue' = Handed(issue, e.run, Len(runs) + 1)
    /\ Finish(e)
    /\ UNCHANGED <<deferred, world, posted, work, holding, left>>

(* scheduleBoundedRetryForRun for a transient failure                        *)
ScheduleRetry(e) ==
    /\ e.step = "retry"
    /\ IF runs[e.run].attempt < MaxAttempts
       THEN /\ Len(runs) < left["row"]
            /\ runs' = Append(runs, [runs[e.run] EXCEPT
                                       !.reason = "transient_failure_retry",
                                       !.retry = "transient_failure",
                                       !.status = "scheduled_retry", !.losses = 0,
                                       !.attempt = @ + 1])
            /\ issue' = Handed(issue, e.run, Len(runs) + 1)
       ELSE UNCHANGED <<runs, issue>>
    /\ Advance(e, "release")
    /\ UNCHANGED <<deferred, world, posted, work, holding, left>>

(* The status in the row that releaseIssueExecutionAndPromote is called with: *)
(* cancelActiveForAgentInternal passes the row it read before cancelling.     *)
Seen(e) == IF e.by = "sweep" THEN "running" ELSE e.status

Releasing(e) == e.step = "release" /\ issue.lock \in {NoRun, e.run}
NextWake ==
    IF \E i \in 1..Len(deferred) : Admitted(deferred[i])
    THEN CHOOSE i \in 1..Len(deferred) :
           Admitted(deferred[i]) /\ \A j \in 1..(i - 1) : ~Admitted(deferred[j])
    ELSE 0

(* Another run holds the issue                                               *)
ReleaseRefused(e) ==
    /\ e.step = "release" /\ issue.lock \notin {NoRun, e.run}
    /\ Finish(e)
    /\ UNCHANGED <<rows, world, posted, work, holding, left>>

(* Mutant: any wake that waited reopens the issue, not only a comment's.     *)
PromotesAndReopens(e) ==
    /\ Releasing(e) /\ NextWake # 0 /\ Len(runs) < left["row"]
    /\ runs' = Append(runs, NewRun(deferred[NextWake]))
    /\ issue' = IF issue.status \in Closed THEN [Vacated(issue) EXCEPT !.status = "todo"]
                ELSE Unlocked(issue)
    /\ deferred' = SubSeq(deferred, NextWake + 1, Len(deferred))
    /\ Finish(e)
    /\ UNCHANGED <<world, posted, work, holding, left>>

(* The oldest deferred wake that may still run becomes a queued run; those   *)
(* in front of it are settled as failed or cancelled.  The wake of a user's  *)
(* comment, or of one that reopened the issue before, reopens a closed one.  *)
ReleasePromotes(e) ==
    /\ Releasing(e) /\ NextWake # 0 /\ Len(runs) < left["row"]
    /\ LET w == deferred[NextWake]
           new == Len(runs) + 1
           free == Unlocked(issue)
           reopened == IF /\ w.comment /\ issue.status \in Closed
                          /\ w.user \/ w.reason = "issue_reopened_via_comment"
                       THEN [Vacated(free) EXCEPT !.status = "todo"] ELSE free
       IN  /\ runs' = Append(runs, NewRun(w))
           /\ issue' = IF issue.assignee = w.agent THEN Locked(reopened, new, w.agent) ELSE reopened
    /\ deferred' = SubSeq(deferred, NextWake + 1, Len(deferred))
    /\ Finish(e)
    /\ UNCHANGED <<world, posted, work, holding, left>>

(* issueNeedsImmediateRecovery, no other execution path, no pause hold       *)
NeedsRecovery(e) ==
    /\ issue.status \in Open /\ issue.assignee = runs[e.run].agent
    /\ Seen(e) \in {"failed", "cancelled"}
    /\ Live \ {e.run} = {} /\ ~held

RecoveryReason == IF issue.status = "todo" THEN "assignment_recovery" ELSE "issue_continuation_needed"

(* shouldBlockImmediately                                                    *)
MustEscalate(r) == runs[r].agent \notin invokable \/ RetryKind(runs[r].retry) = RecoveryReason

ReleaseRecovers(e) ==
    /\ Releasing(e) /\ NextWake = 0
    /\ NeedsRecovery(e) /\ ~MustEscalate(e.run) /\ Len(runs) < left["row"]
    /\ runs' = Append(runs, NewRun(RecoveryWake(issue.assignee, RecoveryReason)))
    /\ issue' = Locked(issue, Len(runs) + 1, issue.assignee)
    /\ deferred' = <<>>
    /\ Finish(e)
    /\ UNCHANGED <<world, posted, work, holding, left>>

(* Mutant: a release that promotes nothing leaves the lock as it is.         *)
ReleaseLeaky(e) ==
    /\ Releasing(e) /\ NextWake = 0
    /\ ~NeedsRecovery(e) \/ MustEscalate(e.run)
    /\ deferred' = <<>>
    /\ ends' = (ends \ {e}) \cup IF NeedsRecovery(e) THEN {Escalating(e)} ELSE {}
    /\ UNCHANGED <<issue, runs, world, posted, work, holding, left>>

ReleaseOnly(e) ==
    /\ Releasing(e) /\ NextWake = 0
    /\ ~NeedsRecovery(e) \/ MustEscalate(e.run)
    /\ issue' = Unlocked(issue)
    /\ deferred' = <<>>
    /\ ends' = (ends \ {e}) \cup IF NeedsRecovery(e) THEN {Escalating(e)} ELSE {}
    /\ UNCHANGED <<runs, world, posted, work, holding, left>>

(* escalateStrandedAssignedIssue, after the transaction that decided it: the *)
(* issue is blocked and goes to a recovery owner, who is woken.              *)
Escalate(e) ==
    /\ e.step = "escalate"
    /\ \E owner \in Agents \cup {NoAgent} :
         /\ issue' = [Vacated(issue) EXCEPT
                        !.status = "blocked",
                        !.assignee = IF owner = NoAgent THEN e.assignee ELSE owner]
         /\ posted' = IF owner = NoAgent THEN posted
                      ELSE posted \cup {SystemWake(owner, "source_scoped_recovery_action")}
         /\ ends' = (ends \ {e}) \cup
              IF owner = e.assignee THEN {[e EXCEPT !.step = "reblock"]} ELSE {}
    /\ UNCHANGED <<runs, deferred, world, work, holding, left>>

Reblock(e) ==
    /\ e.step = "reblock"
    /\ SystemWake(e.assignee, "source_scoped_recovery_action") \notin posted
    /\ issue' = IF issue.status # "blocked" \/ issue.assignee # e.assignee
                THEN [Vacated(issue) EXCEPT !.status = "blocked", !.assignee = e.assignee] ELSE issue
    /\ Finish(e)
    /\ UNCHANGED <<runs, deferred, world, posted, work, holding, left>>

EndingStep(e) ==
    /\ \/ WriteStatus(e) \/ ClearLock(e) \/ RetryAfterLoss(e) \/ ScheduleRetry(e)
       \/ ReleaseRefused(e) \/ ReleasePromotes(e) \/ ReleaseRecovers(e) \/ ReleaseOnly(e)
       \/ Escalate(e) \/ Reblock(e)
    /\ UNCHANGED updates

(******************************* the scheduler ******************************)

(* promoteScheduledRetryRun: due, gated, then queued or cancelled            *)
PromoteRetry(r) ==
    /\ runs[r].status = "scheduled_retry"
    /\ IF /\ runs[r].agent \in invokable /\ issue.assignee = runs[r].agent
          /\ issue.status \notin Closed /\ ~held /\ ready
       THEN runs' = [runs EXCEPT ![r].status = "queued"] /\ UNCHANGED issue
       ELSE /\ runs' = [runs EXCEPT ![r].status = "cancelled"]
            /\ issue' = IF issue.lock = r THEN Unlocked(issue) ELSE issue
    /\ UNCHANGED <<deferred, world, memory, left>>

(* reapOrphanedRuns: running in the table, unknown to this process, and its  *)
(* child process is gone; retried once if the child had been tracked.        *)
ByReaper == {"reaper", "reaperRetry", "detached"}

Orphan(r) ==
    /\ runs[r].status = "running" /\ work[r] = "none"
    /\ \A e \in ends : e.run = r => e.by \notin {"adapter", "transient", "setup"} \cup ByReaper

Reap(r) ==
    /\ Orphan(r)
    /\ \E tracked \in BOOLEAN :
         ends' = ends \cup {Ending(r, IF tracked /\ runs[r].losses < 1 THEN "reaperRetry"
                                      ELSE "reaper", "failed")}
    /\ UNCHANGED <<rows, world, posted, work, holding, updates, left>>

(* Its child process is alive, which is noted once, in a write of the row    *)
(* that says running again, whatever the row says by then.                   *)
ReapDetached(r) ==
    /\ Orphan(r) /\ Spend("detach")
    /\ ends' = ends \cup {Ending(r, "detached", "running")}
    /\ UNCHANGED <<rows, world, posted, work, holding, updates>>

(* reconcileStrandedAssignedIssues on this issue: hasActiveExecutionPath     *)
(* counts live runs and deferred wakes.  A tick waits for the reaper before  *)
(* this pass, and for each wake and escalation the pass makes.               *)
(* Mutant: a lock counts as an execution path, whatever run it names.        *)
StrandedUnlocked ==
    /\ issue.status \in Open /\ issue.assignee \in invokable
    /\ Live = {} /\ deferred = <<>> /\ ~held /\ issue.lock = NoRun

Stranded ==
    /\ issue.status \in Open /\ issue.assignee \in invokable
    /\ Live = {} /\ deferred = <<>> /\ ~held

Pass == \A e \in ends : e.by \notin ByReaper \cup {"reconcile"}

Dispatch ==
    /\ Stranded /\ Pass /\ issue.status = "todo" /\ runs = <<>>
    /\ posted' = posted \cup {SystemWake(issue.assignee, "issue_assigned")}
    /\ UNCHANGED <<rows, world, work, ends, holding, updates, left>>

FollowUp(again, retry) ==
    IF again
    THEN /\ ends' = ends \cup {Escalating(Ending(Len(runs), "reconcile", runs[Len(runs)].status))}
         /\ UNCHANGED posted
    ELSE /\ posted' = posted \cup {RecoveryWake(issue.assignee, retry)}
         /\ UNCHANGED ends

(* An unsuccessful latest run gets one recovery of each kind, then escalates *)
ReconcileFailed ==
    /\ Stranded /\ Pass /\ runs # <<>>
    /\ runs[Len(runs)].status \in {"failed", "cancelled"}
    /\ FollowUp(RetryKind(runs[Len(runs)].retry) = RecoveryReason, RecoveryReason)
    /\ UNCHANGED <<rows, world, work, holding, updates, left>>

(* A successful one, while the issue is in progress and if its output counts *)
(* as progress, gets one continuation.                                       *)
ReconcileProductive ==
    /\ Stranded /\ Pass /\ runs # <<>> /\ issue.status = "in_progress"
    /\ runs[Len(runs)].status = "succeeded"
    /\ FollowUp(runs[Len(runs)].retry = "productive_continuation", "productive_continuation")
    /\ UNCHANGED <<rows, world, work, holding, updates, left>>

(****************************** outside events ******************************)

(* issues.update reads the row, decides, and writes by id in a transaction   *)
(* of its own; the route has read the row before it, here in the same step.  *)
Update(by, status, agent, run, mentioned) ==
    [by |-> by, status |-> status, agent |-> agent, was |-> issue.status,
     of |-> issue.assignee, run |-> run, mentioned |-> mentioned]

Request(u) ==
    /\ Spend(u.by)
    /\ updates' = updates \cup {u}
    /\ UNCHANGED <<runs, deferred, world, posted, work, ends, holding>>

CommentWakes(owner, why, mentioned) ==
    {UserComment(a, why) : a \in {owner} \cap Agents}
        \cup {UserComment(a, "issue_comment_mentioned") : a \in mentioned \ {owner}}

(* A user comments: an issue that is closed, or blocked though its blockers  *)
(* are resolved, is to go back to todo; the assignee and the agents mentioned *)
(* are woken.  An interrupting comment is a CancelRun before it.             *)
Reopens == issue.assignee # NoAgent /\ (issue.status \in Closed \/ (issue.status = "blocked" /\ ready))

Comment(mentioned) ==
    \/ /\ Reopens
       /\ Request(Update("comment", "todo", issue.assignee, NoRun, mentioned))
       /\ UNCHANGED issue
    \/ /\ ~Reopens /\ Spend("comment")
       /\ posted' = posted \cup CommentWakes(issue.assignee, "issue_commented", mentioned)
       /\ UNCHANGED <<rows, world, work, ends, holding, updates>>

(* PATCH of the assignee, perhaps to the one it has                          *)
Assign(a) ==
    /\ Request(Update("assign", issue.status, a, NoRun, {}))
    /\ UNCHANGED issue

(* resolveActiveIssueRun: the running run to cancel with the issue           *)
ActiveIssueRuns ==
    {r \in RunIds : runs[r].status = "running" /\ (r = issue.lock \/ runs[r].agent = issue.assignee)}

(* PATCH of the status, by a user or by the agent from inside its run        *)
SetStatus(s) ==
    /\ s = "in_progress" => ready /\ issue.assignee # NoAgent
    /\ \E r \in IF s = "cancelled" /\ issue.status # s /\ ActiveIssueRuns # {}
                THEN ActiveIssueRuns ELSE {NoRun} :
          Request(Update("status", s, issue.assignee, r, {}))
    /\ UNCHANGED issue

(* issues.release, after clearExecutionRunIfTerminal: the board's is not     *)
(* refused whatever the row says; who else may, IssueCheckout says.          *)
Release ==
    /\ Request(Update("release", "todo", NoAgent, NoRun, {}))
    /\ issue' = IF Terminal(issue.lock) THEN Unlocked(issue) ELSE issue

(* Whether checkout and lock go is decided on the row that was read.         *)
Vacates(u) == u.agent # u.of \/ (u.by # "assign" /\ u.status # "in_progress")

Written(u) ==
    [(IF Vacates(u) THEN Vacated(issue) ELSE issue) EXCEPT
        !.status = IF u.by = "assign" THEN @ ELSE u.status,
        !.assignee = IF u.by \in {"assign", "release"} THEN u.agent ELSE @]

(* Who is woken after it depends on the row read before and the row written. *)
Woken(u, i) ==
    IF u.by = "comment" THEN CommentWakes(i.assignee, "issue_reopened_via_comment", u.mentioned)
    ELSE {SystemWake(a, "issue_assigned") :
            a \in {x \in {i.assignee} \cap Agents :
                    /\ u.by # "release"
                    /\ \/ x # u.of
                       \/ u.by = "status" /\ i.status = "todo" /\ u.was \in Closed \cup {"blocked"}}}

WriteUpdate(u) ==
    /\ updates' = updates \ {u}
    /\ issue' = Written(u)
    /\ posted' = posted \cup Woken(u, Written(u))
    /\ ends' = ends \cup {Ending(r, "api", "cancelled") : r \in {u.run} \cap Live}
    /\ UNCHANGED <<runs, deferred, world, work, holding, left>>

CancelRun(r) ==
    /\ Spend("cancel") /\ r \in Live
    /\ ends' = ends \cup {Ending(r, "api", "cancelled")}
    /\ UNCHANGED <<rows, world, posted, work, holding, updates>>

(* Pause: the status, then cancelActiveForAgentInternal over the rows it     *)
(* reads; RunClaim has the two apart, and the rows one after the other.      *)
PauseAgent(a) ==
    /\ Spend("pause") /\ a \in invokable
    /\ invokable' = invokable \ {a}
    /\ ends' = ends \cup {Ending(r, "sweep", "cancelled") : r \in {s \in Live : runs[s].agent = a}}
    /\ UNCHANGED <<rows, held, ready, posted, work, holding, updates>>

ResumeAgent(a) ==
    /\ a \notin invokable
    /\ invokable' = invokable \cup {a}
    /\ UNCHANGED <<rows, held, ready, memory, left>>

(* A pause hold on the issue's tree: the runs to interrupt are read first,   *)
(* then the hold is inserted and their cancellations begin, and the deferred *)
(* wakes are cancelled last.                                                 *)
PreviewHold ==
    /\ ~held /\ holding = NoRequest /\ Spend("hold")
    /\ holding' = [step |-> "create",
                   runs |-> {r \in RunIds : runs[r].status \in {"queued", "running"}}]
    /\ UNCHANGED <<rows, world, posted, work, ends, updates>>

CreateHold ==
    /\ holding.step = "create"
    /\ held' = TRUE
    /\ ends' = ends \cup {Ending(r, "api", "cancelled") : r \in holding.runs \cap Live}
    /\ holding' = [NoRequest EXCEPT !.step = "wakeups"]
    /\ UNCHANGED <<rows, invokable, ready, posted, work, updates, left>>

CancelWakeups ==
    /\ holding.step = "wakeups"
    /\ deferred' = <<>>
    /\ holding' = NoRequest
    /\ UNCHANGED <<runs, issue, world, posted, work, ends, updates, left>>

ReleaseHold ==
    /\ held
    /\ held' = FALSE
    /\ UNCHANGED <<rows, invokable, ready, memory, left>>

(* A blocker is added.  When the last one is done the assignee of an open    *)
(* issue is woken; when it is taken off the list nobody is.                  *)
Block ==
    /\ ready /\ Spend("block")
    /\ ready' = FALSE
    /\ UNCHANGED <<rows, invokable, held, memory>>

Unblock ==
    /\ ~ready
    /\ ready' = TRUE
    /\ \/ UNCHANGED posted
       \/ /\ issue.status \notin Closed /\ issue.assignee # NoAgent
          /\ posted' = posted \cup {SystemWake(issue.assignee, "issue_assigned")}
    /\ UNCHANGED <<rows, invokable, held, work, ends, holding, updates, left>>

(* The server process dies and starts again                                  *)
Crash ==
    /\ Spend("crash")
    /\ posted' = {} /\ ends' = {} /\ updates' = {} /\ holding' = NoRequest
    /\ work' = [r \in 1..MaxRuns |-> "none"]
    /\ UNCHANGED <<rows, world>>

RunStep(r) ==
    /\ \/ ClaimGates(r) \/ ClaimUpdate(r) \/ StampLock(r)
       \/ BeginExecution(r) \/ AdapterReturns(r)
    /\ UNCHANGED updates

Server ==
    \/ \E w \in posted : EnqueueWakeup(w)
    \/ \E r \in RunIds : RunStep(r)
    \/ \E e \in ends : EndingStep(e)
    \/ \E u \in updates : WriteUpdate(u)
    \/ CreateHold \/ CancelWakeups

Scheduler ==
    \/ \E r \in RunIds : PromoteRetry(r) \/ Reap(r) \/ ReapDetached(r)
    \/ Dispatch \/ ReconcileFailed

Environment ==
    \/ \E mentioned \in SUBSET Agents : Comment(mentioned)
    \/ \E a \in Agents \cup {NoAgent} : Assign(a)
    \/ \E a \in Agents : PauseAgent(a) \/ ResumeAgent(a)
    \/ \E s \in IssueStatuses : SetStatus(s)
    \/ \E r \in RunIds : CancelRun(r)
    \/ Release \/ PreviewHold \/ ReleaseHold \/ Block \/ Unblock \/ Crash \/ ReconcileProductive

Next == Server \/ Scheduler \/ Environment

Spec == Init /\ [][Next]_vars

(* The process runs what it has begun, its timer reaps, promotes and         *)
(* reconciles; people need not do anything, and the server need not crash.   *)
Fairness ==
    /\ WF_vars(\E r \in RunIds : RunStep(r))
    /\ WF_vars(\E r \in RunIds : PromoteRetry(r))
    /\ WF_vars(\E r \in RunIds : Reap(r))
    /\ WF_vars(\E w \in posted : EnqueueWakeup(w))
    /\ WF_vars(\E e \in ends : EndingStep(e))
    /\ WF_vars(\E u \in updates : WriteUpdate(u))
    /\ WF_vars(CreateHold \/ CancelWakeups)
    /\ WF_vars(Dispatch \/ ReconcileFailed)

FairSpec == Spec /\ Fairness

(******************************** properties ********************************)

(* issues.executionRunId names a run that is live, or whose ending is under  *)
(* way in this process and will release it, or else a run that was           *)
(* cancelled: only a cancellation that falls between the claim of a run       *)
(* (heartbeat.ts:5882) and the stamp of the lock (5915) leaves a dead run     *)
(* holding the issue.  No failure, retry, promotion or reassignment does.    *)
(* (After a crash it waits for the next wake or checkout to be cleared; no    *)
(* crash is in the budget of this property.)                                 *)
LockLeaksOnlyByCancel ==
    issue.lock # NoRun =>
        \/ issue.lock \in Live
        \/ \E e \in ends : e.run = issue.lock
        \/ runs[issue.lock].status = "cancelled"

(* A wake set aside behind a run has a run, or the ending of one, that will  *)
(* promote it: releaseIssueExecutionAndPromote is the only reader of the     *)
(* deferred wakes, and reconcileStrandedAssignedIssues leaves an issue with  *)
(* one alone.                                                                *)
DeferredHasCarrier ==
    deferred # <<>> => Live # {} \/ ends # {}

(* What will promote it: a run that has yet to end, or an ending on its way  *)
(* to the release.  A stale claim's ending only clears the lock.             *)
Carried ==
    \/ Live # {}
    \/ \E e \in ends : e.by # "stale" /\ e.step \in {"write", "loss", "retry", "release"}

(* How the last carrier can go: with the process; with a retry that its gate *)
(* refuses (heartbeat.ts:5049) or that a wake finds stale before it is       *)
(* skipped itself (8791); with a claim found stale (5945, 6153); or with a   *)
(* release that the lock of a run that is over turns away (8215).            *)
CarrierLost ==
    \/ Crash
    \/ \E r \in RunIds : PromoteRetry(r) /\ runs'[r].status = "cancelled"
    \/ \E w \in posted : WakeSkipped(w) /\ Dropped # {}
    \/ \E e \in ends : \/ WriteStatus(e) /\ e.by = "stale"
                       \/ ReleaseRefused(e) /\ Terminal(issue.lock)

(* The lock passes from one run to another only when the first is over; the  *)
(* exception is the adoption of a checkout that a dead run has left, which   *)
(* takes the lock with it.                                                   *)
LockPassesFromTheDead ==
    [][issue.lock \in Live /\ issue'.lock \notin {NoRun, issue.lock} =>
         \/ issue.lock \notin Live'
         \/ Terminal(issue.checkout) /\ issue'.checkout = issue'.lock]_vars

(* issues.checkoutRunId is the execution right of the assignee: on an issue  *)
(* in progress it belongs to a run of the agent the issue is assigned to.    *)
OwnerNamed ==
    issue.checkout # NoRun =>
        issue.status = "in_progress" /\ runs[issue.checkout].agent = issue.assignee

(* A PATCH that names the assignee it has read, written when the issue has    *)
(* gone to another: issues.ts:3340 compares with the old row and clears       *)
(* nothing, 3451 writes by id.                                               *)
StaleAssignment ==
    \E u \in updates \ updates' :
        u.by = "assign" /\ u.agent = u.of /\ u.of # issue.assignee

(* Whoever takes, adopts, releases, escalates or reopens the issue, and       *)
(* whatever an update or a release read before it writes, the checkout stays  *)
(* with the assignee: only a stale assignment leaves one agent's run with the *)
(* right to another agent's issue.                                           *)
CheckoutNamesOwner == [][OwnerNamed => OwnerNamed' \/ StaleAssignment]_vars

(* A live run that has the right also holds the lock: no retry, promotion,   *)
(* recovery or wake takes one away and leaves the other, as no overlapping   *)
(* calls do in IssueCheckout.                                                *)
CheckoutHoldsLock ==
    issue.checkout # NoRun => issue.lock = issue.checkout \/ Terminal(issue.checkout)

(* The right itself passes from one live run to another only by way of        *)
(* nobody, as IssueOwner promises: a retry, a promotion or a recovery takes   *)
(* over the lock of the run before it, never its checkout.                    *)
Ended == {r \in RunIds : Terminal(r)}
Owner == INSTANCE IssueOwner WITH
             Runs <- 1..MaxRuns, NoRun <- NoRun, owner <- issue.checkout, ended <- Ended
ImplementsOwner == Owner!Spec

(* The reaper's note on a run whose child process outlived the server is     *)
(* written by id, on a row read earlier (heartbeat.ts:6480, 6507).            *)
Revived(r) == \E e \in ends : WriteStatus(e) /\ e.by = "detached" /\ e.run = r

(* A run that ended never lives again, whichever of the claim, the executor, *)
(* a cancellation, a pause, the reaper and the retry timer writes its row    *)
(* last; but for that one note, which overtakes a cancellation.              *)
TerminalIsFinal == [][\A r \in RunIds : Terminal(r) => Terminal(r)' \/ Revived(r)]_vars

(* A person's doing: a status that is set, a comment, or the promotion of the *)
(* wake of a comment made before, the last of the deferred wakes the step     *)
(* settles.                                                                  *)
ByPerson ==
    \/ \E u \in updates \ updates' : u.by \in {"status", "comment"}
    \/ LET promoted == Len(deferred) - Len(deferred')
       IN  promoted > 0 /\ deferred[promoted].comment

(* Two writers do not look at the status they overwrite: issues.release      *)
(* (issues.ts:3835) and an escalation decided while the issue was open       *)
(* (recovery/service.ts:1716).                                               *)
Unlooked ==
    \/ \E u \in updates \ updates' : u.by = "release"
    \/ \E e \in ends \ ends' : e.step \in {"escalate", "reblock"}

(* A closed issue is reopened by a person, or by one of these two.  No claim, *)
(* checkout, retry, ending, promotion of a wake that is not a comment's,      *)
(* reassignment or recovery run reopens it, however old what it acts on is.  *)
ReopenedOnPurpose ==
    [][issue.status \in Closed /\ issue'.status \notin Closed => ByPerson \/ Unlooked]_vars

(* Open work of an agent that may run, last touched by a run that failed or  *)
(* was cancelled, is not left so: it is run again, or blocked and escalated. *)
(* left["row"] bounds the model, not the code.                               *)
FailedWork ==
    /\ issue.status \in Open /\ issue.assignee \in invokable /\ ~held /\ ready
    /\ Len(runs) \in 1..(left["row"] - 1) /\ runs[Len(runs)].status \in {"failed", "cancelled"}

FailedWorkFollowedUp == FailedWork ~> ~FailedWork
=============================================================================
