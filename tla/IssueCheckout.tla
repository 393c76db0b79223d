----------------------------- MODULE IssueCheckout -----------------------------
(*****************************************************************************)
(* Who owns an issue: the calls of agents' runs and of the board on one row  *)
(* of issues, each a sequence of reads and conditional or unconditional      *)
(* UPDATEs outside a transaction.  Runs of the assignee that work on other   *)
(* issues call too.                                                          *)
(*                                                                           *)
(* An action is one statement, or one transaction that locks the row.        *)
(* "todo" stands for every status but in_progress, and one user for all.     *)
(* Holds, blockers and permissions only refuse; the life of the lock outside *)
(* issues.ts is IssueExecution's and appears here by what it may do.         *)
(* Source: server/src/services/issues.ts, heartbeat.ts, routes/issues.ts     *)
(*****************************************************************************)
EXTENDS Naturals, FiniteSets

CONSTANTS
    Agents, Runs, Calls,
    AgentOf,    \* the agent of each run
    OnIssue,    \* the runs whose context names this issue
    Managers,   \* agents that may change other agents' issues
    Patches,    \* bound: what a PATCH may ask for
    MaxCalls,   \* bound: the calls that are made
    NoAgent, NoRun, Keep

Statuses == {"todo", "in_progress"}

ASSUME CheckoutAssumption ==
    /\ NoAgent \notin Agents /\ NoRun \notin Runs /\ Keep \notin Agents \cup {NoAgent}
    /\ AgentOf \in [Runs -> Agents] /\ OnIssue \subseteq Runs
    /\ Patches \subseteq [agent : Agents \cup {NoAgent, Keep}, user : {"keep", "set", "clear"},
                          status : Statuses \cup {"keep"}]
    /\ MaxCalls \in Nat

VARIABLES
    issue,      \* the row of issues
    row,        \* heartbeat_runs.status
    unstamped,  \* claimed runs whose issue is not stamped yet
    call,       \* the calls under way
    left        \* calls that may still be made

vars == <<issue, row, unstamped, call, left>>

Ended(r) == row[r] = "ended"
Live(r) == r \in Runs /\ ~Ended(r)

NoPatch == [agent |-> Keep, user |-> "keep", status |-> "keep"]
Idle == [op |-> "none", step |-> "none", run |-> NoRun, agent |-> NoAgent, expected |-> {},
         patch |-> NoPatch, clears |-> FALSE, seen |-> NoRun, unassigned |-> FALSE]

CallRecords ==
    [op : {"none", "checkout", "patch", "release"},
     step : {"none", "route", "clear", "update", "own", "unowned", "adopt", "reclear",
             "existing", "stale", "write"},
     run : Runs \cup {NoRun}, agent : Agents \cup {NoAgent}, expected : SUBSET Statuses,
     patch : Patches \cup {NoPatch}, clears : BOOLEAN, seen : Runs \cup {NoRun},
     unassigned : BOOLEAN]

TypeOK ==
    /\ issue \in [status : Statuses, agent : Agents \cup {NoAgent}, user : BOOLEAN,
                  checkout : Runs \cup {NoRun}, lock : Runs \cup {NoRun}]
    /\ row \in [Runs -> {"queued", "running", "ended"}]
    /\ unstamped \subseteq OnIssue
    /\ call \in [Calls -> CallRecords]
    /\ left \in Nat

(* Runs of other issues are under way, this issue's are queued.              *)
Begun(started) ==
    [r \in Runs |-> IF r \in OnIssue \ started THEN "queued" ELSE "running"]

(* The issue is open, or the board has checked it out for an agent, or a run *)
(* that it woke has; a stale update may have given that issue to another     *)
(* agent or to none since (UpdateRead before the checkout, UpdateWrite       *)
(* after it).                                                                *)
Init ==
    /\ \/ /\ \/ issue = [status |-> "todo", agent |-> NoAgent, user |-> FALSE,
                          checkout |-> NoRun, lock |-> NoRun]
             \/ \E a \in Agents :
                   issue = [status |-> "in_progress", agent |-> a, user |-> FALSE,
                            checkout |-> NoRun, lock |-> NoRun]
          /\ row = Begun({})
       \/ \E r \in OnIssue, a \in Agents \cup {NoAgent} :
             /\ issue = [status |-> "in_progress", agent |-> a, user |-> FALSE,
                         checkout |-> r, lock |-> r]
             /\ row = Begun({r})
    /\ unstamped = {}
    /\ call = [c \in Calls |-> Idle]
    /\ left = MaxCalls

At(c, step) == call[c].step = step
Goto(c, step) == call' = [call EXCEPT ![c].step = step]
Done(c) == call' = [call EXCEPT ![c] = Idle]
Begin(c, op, step, r, a, expected, patch) ==
    /\ call[c] = Idle /\ left > 0 /\ left' = left - 1
    /\ call' = [call EXCEPT ![c] = [op |-> op, step |-> step, run |-> r, agent |-> a,
                    expected |-> expected, patch |-> patch, clears |-> FALSE, seen |-> NoRun,
                    unassigned |-> FALSE]]
    /\ UNCHANGED <<issue, row, unstamped>>

(***************************** runs and the lock ****************************)

ClaimUpdate(r) ==
    /\ row[r] = "queued"
    /\ row' = [row EXCEPT ![r] = "running"]
    /\ unstamped' = unstamped \cup ({r} \cap OnIssue)
    /\ UNCHANGED <<issue, call, left>>

StampLock(r) ==
    /\ r \in unstamped
    /\ unstamped' = unstamped \ {r}
    /\ issue' = IF issue.agent = AgentOf[r] /\ issue.lock \in {NoRun, r}
                THEN [issue EXCEPT !.lock = r] ELSE issue
    /\ UNCHANGED <<row, call, left>>

RunEnds(r) ==
    /\ ~Ended(r)
    /\ row' = [row EXCEPT ![r] = "ended"]
    /\ UNCHANGED <<issue, unstamped, call, left>>

(* The release of an ended run.                                              *)
DropLock(r) ==
    /\ Ended(r) /\ issue.lock = r
    /\ issue' = [issue EXCEPT !.lock = NoRun]
    /\ UNCHANGED <<row, unstamped, call, left>>

(* A retry, a promoted wake, a recovery or a wake that finds a run: the lock *)
(* goes to a live run of the issue, from nobody or from an ended run.        *)
HandLock(r) ==
    /\ r \in OnIssue /\ ~Ended(r)
    /\ ~Live(issue.lock)
    /\ issue' = [issue EXCEPT !.lock = r]
    /\ UNCHANGED <<row, unstamped, call, left>>

(******************************* the calls **********************************)

(* A run checks out for its agent; executeRun does so by itself.             *)
AgentCheckout(c, r) ==
    /\ row[r] = "running"
    /\ \E expected \in {{"todo"}, Statuses} :
          Begin(c, "checkout", "clear", r, AgentOf[r], expected, NoPatch)

BoardCheckout(c, a) == Begin(c, "checkout", "clear", NoRun, a, Statuses, NoPatch)

AgentPatch(c, r) ==
    /\ row[r] = "running"
    /\ \E p \in Patches : Begin(c, "patch", "route", r, AgentOf[r], {}, p)

BoardPatch(c) ==
    \E p \in Patches : Begin(c, "patch", "existing", NoRun, NoAgent, {}, p)

AgentRelease(c, r) ==
    /\ row[r] = "running"
    /\ Begin(c, "release", "route", r, AgentOf[r], {}, NoPatch)

BoardRelease(c) == Begin(c, "release", "reclear", NoRun, NoAgent, {}, NoPatch)

(* adminForceRelease locks the row and writes in one transaction.            *)
ForceRelease ==
    /\ left > 0 /\ left' = left - 1
    /\ \E clearAssignee \in BOOLEAN :
          issue' = [issue EXCEPT !.checkout = NoRun, !.lock = NoRun,
                        !.agent = IF clearAssignee THEN NoAgent ELSE @]
    /\ UNCHANGED <<row, unstamped, call>>

(* What the body of a call does once it may.                                 *)
Act(c) == Goto(c, IF call[c].op = "release" THEN "reclear" ELSE "existing")

(* assertAgentIssueMutationAllowed, on the row that the route has read.      *)
Route(c) ==
    /\ At(c, "route")
    /\ \/ issue.agent = NoAgent /\ Act(c)
       \/ issue.agent \notin {NoAgent, call[c].agent} /\ call[c].agent \in Managers /\ Act(c)
       \/ issue.agent \notin {NoAgent, call[c].agent} /\ call[c].agent \notin Managers /\ Done(c)
       \/ issue.agent = call[c].agent /\ issue.status # "in_progress" /\ Act(c)
       \/ issue.agent = call[c].agent /\ issue.status = "in_progress" /\ Goto(c, "clear")
    /\ UNCHANGED <<issue, row, unstamped, left>>

(* clearExecutionRunIfTerminal, under the lock of the row.                   *)
ClearIfTerminal(c) ==
    /\ At(c, "clear") \/ At(c, "reclear")
    /\ issue' = IF issue.lock # NoRun /\ ~Live(issue.lock)
                THEN [issue EXCEPT !.lock = NoRun] ELSE issue
    /\ Goto(c, IF At(c, "reclear") THEN "existing"
               ELSE IF call[c].op = "checkout" THEN "update" ELSE "own")
    /\ UNCHANGED <<row, unstamped, left>>

Mine(c) == issue.agent = call[c].agent
Unlocked(c) == issue.lock \in {NoRun, call[c].run}

(* Mutant: whoever holds the lock, the assignee's run checks out.            *)
CheckoutFreeLocked(c) ==
    /\ issue.status \in call[c].expected
    /\ issue.agent = NoAgent \/ (Mine(c) /\ issue.checkout \in {NoRun, call[c].run})

(* The WHERE of checkout's UPDATE.                                           *)
CheckoutFree(c) ==
    /\ issue.status \in call[c].expected
    /\ issue.agent = NoAgent \/ (Mine(c) /\ issue.checkout \in {NoRun, call[c].run})
    /\ Unlocked(c)

CheckoutUpdate(c) ==
    /\ At(c, "update")
    /\ \/ /\ CheckoutFree(c)
          /\ issue' = [status |-> "in_progress", agent |-> call[c].agent, user |-> FALSE,
                       checkout |-> call[c].run, lock |-> call[c].run]
          /\ Done(c)
       \/ ~CheckoutFree(c) /\ Goto(c, "own") /\ UNCHANGED issue
    /\ UNCHANGED <<row, unstamped, left>>

(* What follows when the run turns out to own the issue, or adopts it.       *)
Granted(c) == IF call[c].op = "checkout" THEN Done(c) ELSE Act(c)

(* The row is read, and what to do about it decided.                         *)
ReadOwner(c) ==
    /\ At(c, "own")
    /\ LET held == Mine(c) /\ issue.status = "in_progress"
           run == call[c].run
       IN  \/ held /\ issue.checkout = run /\ Granted(c)
           \/ /\ held /\ run # NoRun /\ issue.checkout = NoRun /\ Unlocked(c)
              /\ Goto(c, "unowned")
           \/ /\ held /\ run # NoRun /\ issue.checkout \notin {NoRun, run}
              /\ call' = [call EXCEPT ![c].step = "adopt", ![c].seen = issue.checkout]
           \/ /\ \/ ~held
                 \/ run = NoRun /\ issue.checkout # NoRun
                 \/ run # NoRun /\ issue.checkout = NoRun /\ ~Unlocked(c)
              /\ Done(c)
    /\ UNCHANGED <<issue, row, unstamped, left>>

(* Mutant: the status is trusted to be what was read.                        *)
StillUnownedAnyStatus(c) == Mine(c) /\ issue.checkout = NoRun /\ Unlocked(c)

(* The WHERE of adoptUnownedCheckoutRun, and of its twin in checkout.        *)
StillUnowned(c) ==
    /\ issue.status = "in_progress" /\ Mine(c)
    /\ issue.checkout = NoRun /\ Unlocked(c)

AdoptUnowned(c) ==
    /\ At(c, "unowned")
    /\ \/ /\ StillUnowned(c)
          /\ issue' = [issue EXCEPT !.checkout = call[c].run, !.lock = call[c].run]
          /\ Granted(c)
       \/ ~StillUnowned(c) /\ Done(c) /\ UNCHANGED issue
    /\ UNCHANGED <<row, unstamped, left>>

(* Mutant: nobody asks whether the run that has it is still alive.           *)
StillAnyRun(c) ==
    /\ issue.status = "in_progress" /\ Mine(c)
    /\ issue.checkout = call[c].seen

(* The WHERE of adoptStaleCheckoutRun, after a look at the run it expects:   *)
(* no run here lives again, so the look can be part of the same step.        *)
StillStale(c) ==
    /\ Ended(call[c].seen)
    /\ issue.status = "in_progress" /\ Mine(c)
    /\ issue.checkout = call[c].seen

(* Mutant: the checkout is adopted, the lock forgotten.                      *)
AdoptCheckoutOnly(c) ==
    /\ At(c, "adopt")
    /\ \/ /\ StillStale(c)
          /\ issue' = [issue EXCEPT !.checkout = call[c].run]
          /\ Granted(c)
       \/ ~StillStale(c) /\ Done(c) /\ UNCHANGED issue
    /\ UNCHANGED <<row, unstamped, left>>

AdoptStale(c) ==
    /\ At(c, "adopt")
    /\ \/ /\ StillStale(c)
          /\ issue' = [issue EXCEPT !.checkout = call[c].run, !.lock = call[c].run]
          /\ Granted(c)
       \/ ~StillStale(c) /\ Done(c) /\ UNCHANGED issue
    /\ UNCHANGED <<row, unstamped, left>>

(* The body of update: the row is read and the assignee and what else goes   *)
(* with it decided before the transaction that writes.                       *)
UpdateRead(c) ==
    /\ At(c, "existing") /\ call[c].op = "patch"
    /\ LET p == call[c].patch
           agent == IF p.agent = Keep THEN issue.agent ELSE p.agent
           user == IF p.user = "keep" THEN issue.user ELSE p.user = "set"
           refused == \/ agent # NoAgent /\ user
                      \/ p.status = "in_progress" /\ agent = NoAgent /\ ~user
       IN  \/ refused /\ Done(c)
           \/ /\ ~refused
              /\ call' = [call EXCEPT ![c].step = "write",
                    ![c].clears = p.status = "todo" \/ agent # issue.agent \/ user # issue.user]
    /\ UNCHANGED <<issue, row, unstamped, left>>

(* Mutant: an assignee that the request leaves out is written all the same.  *)
UpdateWriteVerbatim(c) ==
    /\ At(c, "write") /\ call[c].op = "patch"
    /\ LET p == call[c].patch
       IN  issue' = [status |-> IF p.status = "keep" THEN issue.status ELSE p.status,
                     agent |-> p.agent,
                     user |-> IF p.user = "keep" THEN issue.user ELSE p.user = "set",
                     checkout |-> IF call[c].clears THEN NoRun ELSE issue.checkout,
                     lock |-> IF call[c].clears THEN NoRun ELSE issue.lock]
    /\ Done(c)
    /\ UNCHANGED <<row, unstamped, left>>

UpdateWrite(c) ==
    /\ At(c, "write") /\ call[c].op = "patch"
    /\ LET p == call[c].patch
       IN  issue' = [status |-> IF p.status = "keep" THEN issue.status ELSE p.status,
                     agent |-> IF p.agent = Keep THEN issue.agent ELSE p.agent,
                     user |-> IF p.user = "keep" THEN issue.user ELSE p.user = "set",
                     checkout |-> IF call[c].clears THEN NoRun ELSE issue.checkout,
                     lock |-> IF call[c].clears THEN NoRun ELSE issue.lock]
    /\ Done(c)
    /\ UNCHANGED <<row, unstamped, left>>

(* release, for an agent: an issue of its own, and then only its checkout's  *)
(* run as long as that is alive, or one that no agent has.  The board        *)
(* releases what it likes.                                                   *)
ReleaseRead(c) ==
    /\ At(c, "existing") /\ call[c].op = "release"
    /\ LET me == call[c].agent
           others == /\ Mine(c) /\ issue.status = "in_progress"
                     /\ issue.checkout \notin {NoRun, call[c].run}
       IN  \/ me # NoAgent /\ issue.agent \notin {NoAgent, me} /\ Done(c)
           \/ /\ me = NoAgent \/ issue.agent \in {NoAgent, me}
              /\ call' = [call EXCEPT ![c].step = IF me # NoAgent /\ others THEN "stale" ELSE "write",
                              ![c].seen = issue.checkout,
                              ![c].unassigned = issue.agent = NoAgent]
    /\ UNCHANGED <<issue, row, unstamped, left>>

(* Mutant: any run of the assignee releases the issue.                       *)
ReleaseStaleOrNot(c) ==
    /\ At(c, "stale")
    /\ Goto(c, "write")
    /\ UNCHANGED <<issue, row, unstamped, left>>

ReleaseStale(c) ==
    /\ At(c, "stale")
    /\ IF Live(call[c].seen) THEN Done(c) ELSE Goto(c, "write")
    /\ UNCHANGED <<issue, row, unstamped, left>>

ReleaseWrite(c) ==
    /\ At(c, "write") /\ call[c].op = "release"
    /\ issue' = [issue EXCEPT !.status = "todo", !.agent = NoAgent,
                              !.checkout = NoRun, !.lock = NoRun]
    /\ Done(c)
    /\ UNCHANGED <<row, unstamped, left>>

(******************************** the system ********************************)

CallStep(c) ==
    \/ Route(c) \/ ClearIfTerminal(c) \/ CheckoutUpdate(c) \/ ReadOwner(c)
    \/ AdoptUnowned(c) \/ AdoptStale(c) \/ UpdateRead(c) \/ UpdateWrite(c)
    \/ ReleaseRead(c) \/ ReleaseStale(c) \/ ReleaseWrite(c)

Next ==
    \/ \E r \in Runs : ClaimUpdate(r) \/ StampLock(r) \/ RunEnds(r) \/ DropLock(r) \/ HandLock(r)
    \/ \E c \in Calls, r \in Runs : AgentCheckout(c, r) \/ AgentPatch(c, r) \/ AgentRelease(c, r)
    \/ \E c \in Calls, a \in Agents : BoardCheckout(c, a)
    \/ \E c \in Calls : BoardPatch(c) \/ BoardRelease(c) \/ CallStep(c)
    \/ ForceRelease

Spec == Init /\ [][Next]_vars

(******************************** properties ********************************)

(* Whatever the order in which calls that have read the row write it, an     *)
(* issue that is checked out is in progress: adoption looks at the status    *)
(* again, and leaving in_progress gives the checkout up.                     *)
CheckedOutInProgress == issue.checkout # NoRun => issue.status = "in_progress"

(* A run that owns the issue and is still alive also holds its lock.  So a   *)
(* checkout that a stale update has left behind, under an assignee that is   *)
(* not its agent, cannot be taken over while its run is alive.               *)
CheckoutHoldsLock == Live(issue.checkout) => issue.lock = issue.checkout

(* What the calls have decided and not yet written, which the theorems need: *)
(* whoever leaves in_progress gives the checkout up, an adoption has seen a  *)
(* run, and a release is sure that the one it has seen is its own or ended,  *)
(* or that no agent had the issue.                                           *)
DecidedCall(x) ==
    /\ x.step = "write" /\ x.op = "patch" /\ x.patch.status = "todo" => x.clears
    /\ x.step = "write" /\ x.op = "release" /\ x.agent # NoAgent
          => ~Live(x.seen) \/ x.seen = x.run \/ x.unassigned
    /\ x.step = "adopt" => x.seen \in Runs
    /\ x.step = "stale" => x.op = "release"

Decided == \A c \in Calls : DecidedCall(call[c])

(* The owner of the issue changes as IssueOwner says: never straight from a  *)
(* live run to another.                                                      *)
Owner == INSTANCE IssueOwner WITH owner <- issue.checkout, ended <- {r \in Runs : Ended(r)}
ImplementsOwner == Owner!Spec

(* The lock of a live run goes straight to another run in one way only: that *)
(* one adopts the checkout which an ended run has left.  adoptStale does not *)
(* look at the lock, as checkout and adoptUnowned do.                        *)
LockMovesByAdoption ==
    [][(Live(issue.lock) /\ issue'.lock \notin {NoRun, issue.lock}) =>
          /\ issue.checkout \in Runs /\ Ended(issue.checkout)
          /\ issue'.checkout = issue'.lock]_vars

(* An agent's release takes the issue from a live run that is not its own    *)
(* for two reasons only.  That run checked out after the release had looked, *)
(* for the UPDATE has no condition; or the release found no agent assigned   *)
(* and asked no further, although a stale update had unassigned the issue    *)
(* under the run that has it checked out.                                    *)
ReleaseSparesWhatItSaw ==
    [][\A c \in Calls :
          (ReleaseWrite(c) /\ call[c].agent # NoAgent /\ Live(issue.checkout)
              /\ issue.checkout # call[c].run)
             => call[c].unassigned \/ issue.checkout # call[c].seen]_vars

(* An issue has at most one assignee, an agent or a user.                    *)
SingleAssignee == ~(issue.agent # NoAgent /\ issue.user)
=============================================================================
