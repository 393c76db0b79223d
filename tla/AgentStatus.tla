------------------------------ MODULE AgentStatus ------------------------------
(*****************************************************************************)
(* The status of one agent and everything that writes it: the board's pause, *)
(* resume, terminate and PATCH, the hire approval, the budget's pause and    *)
(* resume, executeRun when a run begins, and finalizeAgentStatus when one    *)
(* ends.  Most of them read the row first and then write it unconditionally; *)
(* what they have read travels with them.                                    *)
(*                                                                           *)
(* An action is one statement against the database.  "active" is counted as  *)
(* idle; the issue side of a run, and the reaper's note on a process that    *)
(* outlived the server, are IssueExecution's, capacity RunClaim's.           *)
(* Source: server/src/services/agents.ts, approvals.ts, budgets.ts,          *)
(* heartbeat.ts, routes/agents.ts                                            *)
(*****************************************************************************)
EXTENDS Naturals, FiniteSets

CONSTANTS
    Runs,
    PatchTo,    \* bound: the statuses a PATCH asks for
    MaxCalls    \* bound: calls of the API and of the budget service, and crashes

Statuses == {"pending_approval", "idle", "running", "error", "paused", "terminated"}
NotInvokable == {"paused", "terminated", "pending_approval"}

ASSUME AgentStatusAssumption ==
    /\ IsFiniteSet(Runs)
    /\ PatchTo \subseteq Statuses \ {"pending_approval"}
    /\ MaxCalls \in Nat

VARIABLES
    agent,      \* agents.status and agents.pauseReason
    approval,   \* approvals.status of its hire, or "none"
    row,        \* heartbeat_runs.status
    exec,       \* where the claim and the execution of each run are
    updates,    \* calls of finalizeAgentStatus under way
    calls,      \* calls of the API under way, with what they have read
    left,       \* calls and crashes that may still come
    admitted,   \* history: how the agent came to be one that may work
    stale       \* history: a finalization was overtaken, wrote over a stop or was
                \* lost, or will not come; or a PATCH called the agent running

vars == <<agent, approval, row, exec, updates, calls, left, admitted, stale>>

Decided == {"approved", "rejected"}
Resolvable == {"pending", "revision_requested"}

Ops == {"pause", "resume", "patch", "sweep", "activate", "reject", "revise", "resubmit"}
Call(op, to) == [op |-> op, to |-> to]

Finalizations == [run : Runs, by : {"executor", "cancel", "reaper"}, bad : BOOLEAN,
                  step : {"read", "count", "write"}, next : Statuses]

TypeOK ==
    /\ agent \in [status : Statuses, reason : {"none", "manual", "budget"}]
    /\ approval \in {"none"} \cup Resolvable \cup Decided
    /\ row \in [Runs -> {"absent", "queued", "running", "over"}]
    /\ exec \in [Runs -> {"none", "insert", "claim", "begin", "mark", "adapter"}]
    /\ updates \subseteq Finalizations
    /\ calls \subseteq [op : Ops, to : Statuses]
    /\ left \in Nat
    /\ admitted \in {"no", "hired", "paused"}
    /\ stale \in BOOLEAN

(* An agent of the board's own making, or one whose hire awaits a decision.  *)
Init ==
    /\ \/ /\ agent = [status |-> "idle", reason |-> "none"]
          /\ approval = "none" /\ admitted = "hired"
       \/ /\ agent = [status |-> "pending_approval", reason |-> "none"]
          /\ approval = "pending" /\ admitted = "no"
    /\ row = [r \in Runs |-> "absent"]
    /\ exec = [r \in Runs |-> "none"]
    /\ updates = {} /\ calls = {}
    /\ left = MaxCalls
    /\ stale = FALSE

Goto(r, step) == exec' = [exec EXCEPT ![r] = step]
RunningRuns == {r \in Runs : row[r] = "running"}
Executing(r) == exec[r] \in {"mark", "adapter"}

Finalization(r, by, bad) ==
    [run |-> r, by |-> by, bad |-> bad, step |-> "read", next |-> "idle"]

(******************************** the runs **********************************)

(* enqueueWakeup refuses an agent that may not work; the insert comes later. *)
Wake(r) ==
    /\ row[r] = "absent" /\ exec[r] = "none"
    /\ agent.status \notin NotInvokable
    /\ Goto(r, "insert")
    /\ UNCHANGED <<agent, approval, row, updates, calls, left, admitted, stale>>

Enqueue(r) ==
    /\ exec[r] = "insert"
    /\ row' = [row EXCEPT ![r] = "queued"]
    /\ Goto(r, "none")
    /\ UNCHANGED <<agent, approval, updates, calls, left, admitted, stale>>

(* cancelRunInternal: the row, then finalizeAgentStatus                      *)
CancelRun(r) ==
    /\ row' = [row EXCEPT ![r] = "over"]
    /\ updates' = updates \cup {Finalization(r, "cancel", FALSE)}

(* claimQueuedRun looks at the agent, and cancels what may not start.        *)
ClaimGate(r) ==
    /\ row[r] = "queued" /\ exec[r] = "none"
    /\ IF agent.status \in NotInvokable
       THEN CancelRun(r) /\ UNCHANGED exec
       ELSE Goto(r, "claim") /\ UNCHANGED <<row, updates>>
    /\ UNCHANGED <<agent, approval, calls, left, admitted, stale>>

ClaimUpdate(r) ==
    /\ exec[r] = "claim"
    /\ IF row[r] = "queued"
       THEN Goto(r, "begin") /\ row' = [row EXCEPT ![r] = "running"]
       ELSE Goto(r, "none") /\ UNCHANGED row
    /\ UNCHANGED <<agent, approval, updates, calls, left, admitted, stale>>

(* The claim's last statements throw, and nobody executes what it claimed.   *)
ClaimThrows(r) ==
    /\ exec[r] = "begin"
    /\ Goto(r, "none")
    /\ UNCHANGED <<agent, approval, row, updates, calls, left, admitted, stale>>

(* executeRun returns, and finalizes nothing, if its run is over by then.    *)
BeginExecution(r) ==
    /\ exec[r] = "begin"
    /\ Goto(r, IF row[r] = "running" THEN "mark" ELSE "none")
    /\ UNCHANGED <<agent, approval, row, updates, calls, left, admitted, stale>>

(* executeRun sets the agent to running without looking at it.               *)
MarkRunning(r) ==
    /\ exec[r] = "mark"
    /\ agent' = [agent EXCEPT !.status = "running"]
    /\ Goto(r, "adapter")
    /\ UNCHANGED <<approval, row, updates, calls, left, admitted, stale>>

(* Mutant: a run that ends as cancelled leaves the status to the canceller.  *)
EndsQuietly(r) ==
    /\ exec[r] \in {"mark", "adapter"}
    /\ row' = [row EXCEPT ![r] = "over"]
    /\ Goto(r, "none")
    /\ \E bad \in BOOLEAN :
         updates' = IF row[r] = "over" THEN updates
                    ELSE updates \cup {Finalization(r, "executor", bad)}
    /\ UNCHANGED <<agent, approval, calls, left, admitted, stale>>

(* The run ends, or its set-up fails before the agent is marked; every end   *)
(* of an execution that began calls finalizeAgentStatus.                     *)
RunEnds(r) ==
    /\ exec[r] \in {"mark", "adapter"}
    /\ row' = [row EXCEPT ![r] = "over"]
    /\ Goto(r, "none")
    /\ \E bad \in BOOLEAN : updates' = updates \cup {Finalization(r, "executor", bad)}
    /\ UNCHANGED <<agent, approval, calls, left, admitted, stale>>

(* reapOrphanedRuns: a run that nobody executes.                             *)
Reap(r) ==
    /\ row[r] = "running" /\ exec[r] = "none"
    /\ row' = [row EXCEPT ![r] = "over"]
    /\ updates' = updates \cup {Finalization(r, "reaper", TRUE)}
    /\ UNCHANGED <<agent, approval, exec, calls, left, admitted, stale>>

(*************************** finalizeAgentStatus ****************************)

Advance(u, v) == updates' = (updates \ {u}) \cup {v}

(* Another finalization has counted and is yet to write.                     *)
Overtakes(u) == \E v \in updates \ {u} : v.step = "write"

FinalizeRead(u) ==
    /\ u.step = "read"
    /\ IF agent.status \in {"paused", "terminated"}
       THEN updates' = updates \ {u} /\ stale' = (stale \/ Overtakes(u))
       ELSE Advance(u, [u EXCEPT !.step = "count"]) /\ UNCHANGED stale
    /\ UNCHANGED <<agent, approval, row, exec, calls, left, admitted>>

FinalizeCount(u) ==
    /\ u.step = "count"
    /\ Advance(u, [u EXCEPT !.step = "write",
                            !.next = IF RunningRuns # {} THEN "running"
                                     ELSE IF u.bad THEN "error" ELSE "idle"])
    /\ UNCHANGED <<agent, approval, row, exec, calls, left, admitted, stale>>

FinalizeWrite(u) ==
    /\ u.step = "write"
    /\ agent' = [agent EXCEPT !.status = u.next]
    /\ updates' = updates \ {u}
    /\ stale' = (stale \/ Overtakes(u) \/ agent.status \in {"paused", "terminated"})
    /\ UNCHANGED <<approval, row, exec, calls, left, admitted>>

(********************* the board: pause, resume, terminate ******************)

Begin(c) == left > 0 /\ left' = left - 1 /\ calls' = calls \cup {c}
Spend == left > 0 /\ left' = left - 1

ApiCancel(r) ==
    /\ Spend /\ row[r] \in {"queued", "running"}
    /\ CancelRun(r)
    /\ UNCHANGED <<agent, approval, exec, calls, admitted, stale>>

Pause ==
    /\ agent.status # "terminated"
    /\ Begin(Call("pause", "paused"))
    /\ UNCHANGED <<agent, approval, row, exec, updates, admitted, stale>>

(* Mutant: an agent that awaits approval may be resumed.                     *)
ResumePending ==
    /\ agent.status # "terminated"
    /\ Begin(Call("resume", "idle"))
    /\ UNCHANGED <<agent, approval, row, exec, updates, admitted, stale>>

(* Mutant: a terminated agent may be resumed.                                *)
ResumeAny ==
    /\ agent.status # "pending_approval"
    /\ Begin(Call("resume", "idle"))
    /\ UNCHANGED <<agent, approval, row, exec, updates, admitted, stale>>

Resume ==
    /\ agent.status \notin {"terminated", "pending_approval"}
    /\ Begin(Call("resume", "idle"))
    /\ UNCHANGED <<agent, approval, row, exec, updates, admitted, stale>>

(* PATCH /agents/:id with a status, "running" among them: no reason is       *)
(* written with it, and no run is cancelled.                                 *)
Patch(to) ==
    /\ agent.status = "terminated" => to = "terminated"
    /\ agent.status = "pending_approval" => to = "terminated"
    /\ Begin(Call("patch", to))
    /\ UNCHANGED <<agent, approval, row, exec, updates, admitted, stale>>

(* Mutant: a pause by the board is recorded as one by the system.            *)
PauseAsSystem(c) ==
    /\ c.op = "pause"
    /\ agent' = [status |-> "paused", reason |-> "system"]
    /\ admitted' = IF admitted = "no" THEN "paused" ELSE admitted
    /\ calls' = (calls \ {c}) \cup {Call("sweep", "paused")}
    /\ UNCHANGED <<approval, row, exec, updates, left, stale>>

PauseWrite(c) ==
    /\ c.op = "pause"
    /\ agent' = [status |-> "paused", reason |-> "manual"]
    /\ admitted' = IF admitted = "no" THEN "paused" ELSE admitted
    /\ calls' = (calls \ {c}) \cup {Call("sweep", "paused")}
    /\ UNCHANGED <<approval, row, exec, updates, left, stale>>

ResumeWrite(c) ==
    /\ c.op = "resume"
    /\ agent' = [status |-> "idle", reason |-> "none"]
    /\ calls' = calls \ {c}
    /\ UNCHANGED <<approval, row, exec, updates, left, admitted, stale>>

PatchWrite(c) ==
    /\ c.op = "patch"
    /\ agent' = [agent EXCEPT !.status = c.to]
    /\ stale' = (stale \/ c.to = "running")
    /\ calls' = calls \ {c}
    /\ UNCHANGED <<approval, row, exec, updates, left, admitted>>

Terminate ==
    /\ Begin(Call("sweep", "terminated"))
    /\ agent' = [status |-> "terminated", reason |-> "none"]
    /\ UNCHANGED <<approval, row, exec, updates, admitted, stale>>

(* cancelActiveForAgentInternal; RunClaim has its rows one by one.  It leaves *)
(* the status to the executors, which a run that is yet to begin has not got. *)
Sweep(c) ==
    /\ c.op = "sweep"
    /\ row' = [r \in Runs |-> IF row[r] \in {"queued", "running"} THEN "over" ELSE row[r]]
    /\ stale' = (stale \/ \E r \in RunningRuns : ~Executing(r))
    /\ calls' = calls \ {c}
    /\ UNCHANGED <<agent, approval, exec, updates, left, admitted>>

(****************************** the budget **********************************)

(* Conditional on the status, and followed by the sweep either way.          *)
BudgetPause ==
    /\ Begin(Call("sweep", "paused"))
    /\ agent' = IF agent.status \in {"idle", "running", "error"}
                THEN [status |-> "paused", reason |-> "budget"] ELSE agent
    /\ UNCHANGED <<approval, row, exec, updates, admitted, stale>>

(* Conditional on the reason only.                                           *)
BudgetResume ==
    /\ agent.reason = "budget" /\ Spend
    /\ agent' = [status |-> "idle", reason |-> "none"]
    /\ UNCHANGED <<approval, row, exec, updates, calls, admitted, stale>>

(******************************* the hire ***********************************)

(* activatePendingApproval is one conditional UPDATE.                        *)
Activated ==
    IF agent.status = "pending_approval"
    THEN /\ agent' = [agent EXCEPT !.status = "idle"]
         /\ admitted' = "hired"
    ELSE UNCHANGED <<agent, admitted>>

ApproveAgent ==
    /\ agent.status = "pending_approval" /\ Spend
    /\ Activated
    /\ UNCHANGED <<approval, row, exec, updates, calls, stale>>

(* resolveApproval is conditional; what it decided is done in a second step. *)
Approve ==
    /\ approval \in Resolvable
    /\ approval' = "approved"
    /\ Begin(Call("activate", "idle"))
    /\ UNCHANGED <<agent, row, exec, updates, admitted, stale>>

ActivateHired(c) ==
    /\ c.op = "activate"
    /\ Activated
    /\ calls' = calls \ {c}
    /\ UNCHANGED <<approval, row, exec, updates, left, stale>>

(* Mutant: the UPDATE of a rejection does not look at the status.            *)
RejectAny ==
    /\ approval # "none"
    /\ approval' = "rejected"
    /\ Begin(Call("reject", "terminated"))
    /\ UNCHANGED <<agent, row, exec, updates, admitted, stale>>

Reject ==
    /\ approval \in Resolvable
    /\ approval' = "rejected"
    /\ Begin(Call("reject", "terminated"))
    /\ UNCHANGED <<agent, row, exec, updates, admitted, stale>>

TerminateRejected(c) ==
    /\ c.op = "reject"
    /\ agent' = [status |-> "terminated", reason |-> "none"]
    /\ calls' = calls \ {c}
    /\ UNCHANGED <<approval, row, exec, updates, left, admitted, stale>>

RequestRevision ==
    /\ approval = "pending"
    /\ Begin(Call("revise", "idle"))
    /\ UNCHANGED <<agent, approval, row, exec, updates, admitted, stale>>

Resubmit ==
    /\ approval = "revision_requested"
    /\ Begin(Call("resubmit", "idle"))
    /\ UNCHANGED <<agent, approval, row, exec, updates, admitted, stale>>

(* Both write without looking at the status again.                           *)
ApprovalWrite(c) ==
    /\ c.op \in {"revise", "resubmit"}
    /\ approval' = IF c.op = "revise" THEN "revision_requested" ELSE "pending"
    /\ calls' = calls \ {c}
    /\ UNCHANGED <<agent, row, exec, updates, left, admitted, stale>>

(* Everything in memory is lost; the rows remain as they are.                *)
Crash ==
    /\ Spend
    /\ exec' = [r \in Runs |-> "none"]
    /\ updates' = {} /\ calls' = {}
    /\ stale' = (\/ stale \/ updates # {}
                 \/ \E r \in Runs \ RunningRuns : Executing(r))
    /\ UNCHANGED <<agent, approval, row, admitted>>

RunStep(r) ==
    \/ Wake(r) \/ Enqueue(r) \/ ClaimGate(r) \/ ClaimUpdate(r) \/ ClaimThrows(r)
    \/ BeginExecution(r) \/ MarkRunning(r) \/ RunEnds(r) \/ Reap(r) \/ ApiCancel(r)

UpdateStep(u) == FinalizeRead(u) \/ FinalizeCount(u) \/ FinalizeWrite(u)

CallStep(c) ==
    \/ PauseWrite(c) \/ ResumeWrite(c) \/ PatchWrite(c) \/ Sweep(c)
    \/ ActivateHired(c) \/ TerminateRejected(c) \/ ApprovalWrite(c)

Api ==
    \/ Pause \/ Resume \/ Terminate \/ BudgetPause \/ BudgetResume
    \/ ApproveAgent \/ Approve \/ Reject \/ RequestRevision \/ Resubmit
    \/ \E to \in PatchTo : Patch(to)

Next ==
    \/ \E r \in Runs : RunStep(r)
    \/ \E u \in updates : UpdateStep(u)
    \/ \E c \in calls : CallStep(c)
    \/ Api
    \/ Crash

Spec == Init /\ [][Next]_vars

-------------------------------------------------------------------------------
(* Nobody is in the middle of anything that may write the status.            *)
Settled == calls = {} /\ updates = {} /\ \A r \in Runs : exec[r] = "none"

(* Termination is irreversible (doc/SPEC-implementation.md:415) once nothing *)
(* decided earlier is under way: no pause, resume, PATCH, approval, claim or *)
(* finalization that begins afterwards brings the agent back.  The budget's  *)
(* resume looks at the pause reason only, which a PATCH to terminated leaves *)
(* in place.                                                                 *)
TerminationSettles ==
    [](Settled /\ agent.status = "terminated" /\ agent.reason # "budget" =>
         [](agent.status = "terminated"))

(* An agent none of whose runs is running or in hand is not shown as running, *)
(* whatever order its runs, cancellations, pauses, the reaper and restarts    *)
(* come in (heartbeat.ts:8139 means to avoid that).  It takes one of four     *)
(* events to leave it stuck: a finalization overtaken between its reads and   *)
(* its write, or written over a stop; a crash that lost a finalization, under *)
(* way or due, of a run that was over; a sweep that ended a running run which *)
(* nobody executed yet or any more, for executeRun then returns at            *)
(* heartbeat.ts:6810 and finalizes nothing; a PATCH that says so.             *)
IdleAtRest == Settled /\ RunningRuns = {} /\ ~stale => agent.status # "running"

(* An agent whose hire was never approved does not work; the one way around  *)
(* the approval is a pause (agents.ts:438), which forgets that it is pending. *)
HiredOnlyByApproval ==
    admitted = "no" => /\ agent.status \in {"pending_approval", "terminated"}
                       /\ \A r \in Runs : row[r] # "running"

(* A decision on the hire is replaced by no other decision; only a request   *)
(* for revision or a resubmission that read the approval before can undo it. *)
DecisionKept ==
    [][approval' # approval /\ approval \in Decided =>
         /\ approval' \in Resolvable
         /\ \E c \in calls \ calls' : c.op \in {"revise", "resubmit"}]_vars

-------------------------------------------------------------------------------
(* From here on a terminated agent stays terminated.                         *)
Sealed ==
    /\ agent.status = "terminated" /\ agent.reason # "budget"
    /\ \A c \in calls : \/ c.op \in {"sweep", "activate", "reject", "revise", "resubmit"}
                        \/ c.op = "patch" /\ c.to = "terminated"
    /\ \A u \in updates : u.step = "read"
    /\ \A r \in Runs : exec[r] = "none"

(* While nobody has admitted the agent, nobody has begun what would.         *)
NotAdmitted ==
    admitted = "no" =>
        /\ agent.status \in {"pending_approval", "terminated"}
        /\ agent.reason = "none"
        /\ \A c \in calls : c.op # "resume" /\ (c.op = "patch" => c.to = "terminated")
        /\ updates = {}
        /\ \A r \in Runs : row[r] = "absent" /\ exec[r] = "none"

(* Somebody executes a run, or the reaper will find it.                      *)
Active == \E r \in Runs : Executing(r) \/ row[r] = "running"

(* What is over does not come back.                                          *)
RunsHeld ==
    \A r \in Runs : exec[r] = "insert" => row[r] = "absent"

(* A run is finalized once by its executor and once by whoever cancels it or *)
(* the reaper, when its row is over.                                         *)
FinalizedOnce ==
    /\ \A u \in updates : /\ row[u.run] = "over"
                          /\ u.by = "executor" => exec[u.run] = "none"
    /\ \A u, v \in updates : u.run = v.run /\ u.by = v.by => u = v

(* Whoever shows the agent as running, or is about to, is followed by someone *)
(* who will look again: the end of a run, or another finalization.           *)
LooksAgain ==
    ~stale =>
        /\ agent.status = "running" => Active \/ updates # {}
        /\ \A u \in updates : u.step = "write" /\ u.next = "running" =>
                               Active \/ \E v \in updates : v # u
=============================================================================
