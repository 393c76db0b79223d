------------------------- MODULE IssueExecution_proofs -------------------------
(*****************************************************************************)
(* What holds of an issue and its runs whatever the number of agents, runs,  *)
(* retries and outside events, crashes included.                             *)
(*****************************************************************************)
EXTENDS IssueExecution, SequenceTheorems, WellFoundedInduction, TLAPS

LEMMA Minimum ==
    ASSUME NEW S \in SUBSET Nat, S # {}
    PROVE  \E m \in S : \A n \in S : m <= n
<1> DEFINE less == {ss \in Nat \X Nat : ss[1] < ss[2]}
<1>1. IsWellFoundedOn(less, Nat)
  BY NatLessThanWellFounded DEF OpToRel
<1>2. PICK m \in S : \A n \in S : ~(<<n, m>> \in less)
  BY <1>1, WFMin
<1>3. \A n \in S : ~(n < m)
  <2> SUFFICES ASSUME NEW n \in S, n < m PROVE FALSE
    OBVIOUS
  <2>1. <<n, m>> \in less
    OBVIOUS
  <2> QED
    BY <1>2, <2>1
<1> QED
  BY <1>3

LEMMA StatusSets ==
    /\ LiveStatuses \cap TerminalStatuses = {}
    /\ "cancelled" \in TerminalStatuses /\ "queued" \in LiveStatuses
    /\ "running" \in LiveStatuses /\ "scheduled_retry" \in LiveStatuses
  BY DEF LiveStatuses, TerminalStatuses

(* The rows of runs and the domain of the sequence.                          *)
LEMMA RunsTyped ==
    ASSUME TypeOK
    PROVE  /\ Len(runs) \in Nat /\ Len(runs) <= MaxRuns
           /\ runs \in [RunIds -> RunRows] /\ DOMAIN runs = RunIds
           /\ RunIds = 1..Len(runs) /\ RunIds \subseteq 1..MaxRuns
           /\ \A r \in RunIds : runs[r] \in RunRows
<1>1. Len(runs) \in Nat /\ runs \in [1..Len(runs) -> RunRows] /\ DOMAIN runs = 1..Len(runs)
  BY LenProperties DEF TypeOK
<1> QED
  BY <1>1, IssueExecutionAssumption DEF TypeOK, RunIds

(* A sequence that is given as a function on the run ids.                    *)
LEMMA RowsAreRuns ==
    ASSUME TypeOK, NEW f, f \in [RunIds -> RunRows]
    PROVE  /\ f \in Seq(RunRows)
           /\ Len(f) = Len(runs)
<1>1. Len(runs) \in Nat /\ RunIds = 1..Len(runs)
  BY RunsTyped
<1>2. f \in Seq(RunRows)
  BY <1>1, SeqDef
<1>3. DOMAIN f = 1..Len(f) /\ Len(f) \in Nat
  BY <1>2, LenProperties
<1> QED
  BY <1>1, <1>2, <1>3

(* What a wake meets: nothing, or a live run.                                *)
LEMMA FirstTyped ==
    ASSUME NEW S \in SUBSET Nat, 0 \notin S
    PROVE  First(S) \in S \cup {NoRun}
<1>1. CASE S = {}
  BY <1>1 DEF First
<1>2. CASE S # {}
  <2> DEFINE running == {r \in S : runs[r].status = "running"}
             fits(r) == /\ running # {} => r \in running
                        /\ \A s \in S : (running # {} => s \in running) => r <= s
  <2>1. \E r \in S : fits(r)
    <3>1. CASE running = {}
      BY <3>1, <1>2, Minimum
    <3>2. CASE running # {}
      <4>1. PICK r \in running : \A s \in running : r <= s
        BY <3>2, Minimum
      <4> QED
        BY <4>1
    <3> QED
      BY <3>1, <3>2
  <2>2. First(S) = CHOOSE r \in S : fits(r)
    BY <1>2 DEF First
  <2> HIDE DEF fits
  <2> QED
    BY <2>1, <2>2
<1> QED
  BY <1>1, <1>2

LEMMA ActiveTyped ==
    ASSUME TypeOK
    PROVE  /\ Met \in RunIds \cup {NoRun} /\ Active \in RunIds \cup {NoRun}
           /\ Active # NoRun => runs[Active].status \in LiveStatuses
           /\ \A r \in Dropped : r \in RunIds /\ runs[r].status = "scheduled_retry"
<1>1. RunIds \subseteq Nat /\ 0 \notin RunIds /\ Live \subseteq RunIds
  BY RunsTyped DEF Live
<1>2. Holder \in Live \cup {NoRun}
  BY DEF Holder
<1>3. Met \in Live \cup {NoRun}
  <2>1. First(Live \ {Holder}) \in (Live \ {Holder}) \cup {NoRun}
    BY <1>1, FirstTyped
  <2> QED
    BY <1>2, <2>1 DEF Met
<1> QED
  BY <1>1, <1>2, <1>3 DEF Active, Dropped, RetryIsStale, Live

-----------------------------------------------------------------------------
(* An ending that writes what it may: a retry after a loss is the first of   *)
(* its run, and who escalates has seen an assignee.                          *)
EndOK(e) ==
    /\ e \in EndRecords
    /\ e.by = "reaperRetry" => runs[e.run].losses = 0
    /\ e.step = "loss" => e.by = "reaperRetry"
    /\ e.step \in {"escalate", "reblock"} => e.assignee \in Agents
    /\ e.by = "detached" => e.step = "write" /\ e.status = "running"

TypeInv ==
    /\ TypeOK /\ left["row"] <= MaxRuns
    /\ \A e \in ends : EndOK(e)
    /\ \A u \in updates : u.by = "release" => u.status = "todo"

(* Rows are added and changed, but a run keeps its agent, its count of       *)
(* losses and, once it has ended, a terminal status, unless it is revived.   *)
Grows(new) ==
    /\ new \in Seq(RunRows)
    /\ Len(runs) <= Len(new) /\ Len(new) <= MaxRuns
    /\ \A r \in RunIds : /\ new[r].agent = runs[r].agent
                         /\ new[r].losses = runs[r].losses
                         /\ Terminal(r) => new[r].status \in TerminalStatuses \/ Revived(r)

LEMMA GrowsUnchanged ==
    ASSUME TypeOK
    PROVE  Grows(runs)
  BY RunsTyped DEF Grows, TypeOK, Terminal

LEMMA GrowsByRow ==
    ASSUME TypeOK, NEW r \in RunIds, NEW row \in RunRows,
           row.agent = runs[r].agent, row.losses = runs[r].losses,
           Terminal(r) => row.status \in TerminalStatuses \/ Revived(r)
    PROVE  Grows([runs EXCEPT ![r] = row])
<1> DEFINE new == [runs EXCEPT ![r] = row]
<1>1. /\ Len(runs) \in Nat /\ Len(runs) <= MaxRuns /\ runs \in [RunIds -> RunRows]
      /\ RunIds = 1..Len(runs)
  BY RunsTyped
<1>2. new \in [RunIds -> RunRows]
  BY <1>1
<1>3. new \in Seq(RunRows) /\ Len(new) = Len(runs)
  BY <1>2, RowsAreRuns
<1>4. \A s \in RunIds : new[s] = IF s = r THEN row ELSE runs[s]
  BY <1>1
<1> QED
  BY <1>1, <1>3, <1>4 DEF Grows, Terminal

LEMMA GrowsBySweep ==
    ASSUME TypeOK
    PROVE  /\ Grows(RunsSwept) /\ Len(RunsSwept) = Len(runs)
           /\ RunsSwept \in [RunIds -> RunRows]
           /\ Active # NoRun => RunsSwept[Active] = runs[Active]
<1>1. /\ Len(runs) \in Nat /\ Len(runs) <= MaxRuns /\ runs \in [RunIds -> RunRows]
      /\ RunIds = 1..Len(runs)
  BY RunsTyped
<1>2. RunsSwept \in [RunIds -> RunRows]
  BY <1>1 DEF RunsSwept, RunRows, TerminalStatuses
<1>3. RunsSwept \in Seq(RunRows) /\ Len(RunsSwept) = Len(runs)
  BY <1>2, RowsAreRuns
<1>4. \A s \in RunIds : /\ RunsSwept[s].agent = runs[s].agent
                        /\ RunsSwept[s].losses = runs[s].losses
                        /\ Terminal(s) => RunsSwept[s].status \in TerminalStatuses
  BY <1>1 DEF RunsSwept, RunRows, Terminal, TerminalStatuses
<1>5. Active # NoRun => RunsSwept[Active] = runs[Active]
  BY ActiveTyped DEF RunsSwept, Active
<1> QED
  BY <1>1, <1>2, <1>3, <1>4, <1>5 DEF Grows

LEMMA GrowsByAppend ==
    ASSUME TypeOK, NEW old, Grows(old), Len(old) = Len(runs), Len(runs) < MaxRuns,
           NEW row \in RunRows
    PROVE  Grows(Append(old, row)) /\ Len(Append(old, row)) = Len(runs) + 1
<1>1. Len(runs) \in Nat /\ RunIds = 1..Len(runs) /\ old \in Seq(RunRows)
  BY RunsTyped DEF Grows
<1>2. /\ Append(old, row) \in Seq(RunRows)
      /\ Len(Append(old, row)) = Len(old) + 1
      /\ \A i \in 1..Len(old) : Append(old, row)[i] = old[i]
  BY <1>1, AppendProperties
<1> QED
  BY <1>1, <1>2, IssueExecutionAssumption DEF Grows

LEMMA NewRunTyped ==
    ASSUME NEW w \in Wakes
    PROVE  NewRun(w) \in RunRows
  BY IssueExecutionAssumption DEF NewRun, Wakes, RunRows, LiveStatuses

LEMMA RetryKindTyped ==
    ASSUME NEW retry \in RetryReasons
    PROVE  RetryKind(retry) \in RetryReasons
  BY DEF RetryKind, RetryReasons

(* Merging keeps what a row or a wake is.                                    *)
LEMMA MergeTyped ==
    ASSUME NEW w \in Wakes
    PROVE  /\ \A v \in Wakes : Merge(v, w) \in Wakes /\ Merge(v, w).agent = v.agent
           /\ \A row \in RunRows : /\ Merge(row, w) \in RunRows
                                   /\ Merge(row, w).agent = row.agent
                                   /\ Merge(row, w).losses = row.losses
                                   /\ Merge(row, w).status = row.status
  BY RetryKindTyped DEF Merge, Wakes, RunRows

-----------------------------------------------------------------------------
(* The rows of runs, action by action.                                       *)

LEMMA WakeGrows ==
    ASSUME TypeInv, NEW w \in posted, EnqueueWakeup(w)
    PROVE  Grows(runs')
<1>1. w \in Wakes /\ TypeOK /\ left["row"] <= MaxRuns /\ left["row"] \in Nat
  BY DEF TypeInv, TypeOK, Events
<1>2. Len(runs) \in Nat /\ MaxRuns \in Nat /\ runs \in [RunIds -> RunRows]
  BY <1>1, RunsTyped, IssueExecutionAssumption
<1>3. CASE WakeRefused(w)
  BY <1>1, <1>3, GrowsUnchanged DEF WakeRefused, rows
<1>4. CASE WakeSkipped(w) \/ WakeDeferred(w)
  BY <1>1, <1>4, GrowsBySweep DEF WakeSkipped, WakeDeferred
<1>5. CASE WakeQueued(w)
  <2>1. Len(runs) < MaxRuns /\ runs' = Append(RunsSwept, NewRun(w))
    BY <1>1, <1>2, <1>5 DEF WakeQueued
  <2> QED
    BY <1>1, <2>1, NewRunTyped, GrowsBySweep, GrowsByAppend
<1>6. CASE WakeCoalesced(w)
  <2> DEFINE row == Merge(runs[Active], w)
  <2>1. Active \in RunIds /\ Active # NoRun
    BY <1>1, <1>6, ActiveTyped DEF WakeCoalesced
  <2>2. row \in RunRows /\ row.agent = runs[Active].agent
        /\ row.losses = runs[Active].losses /\ row.status = runs[Active].status
    BY <1>1, <1>2, <2>1, MergeTyped
  <2>3. runs' = [RunsSwept EXCEPT ![Active] = row]
    BY <1>1, <1>6, <2>1, GrowsBySweep DEF WakeCoalesced
  <2>4. runs' \in [RunIds -> RunRows]
    BY <1>1, <2>2, <2>3, GrowsBySweep
  <2>5. runs' \in Seq(RunRows) /\ Len(runs') = Len(runs)
    BY <1>1, <2>4, RowsAreRuns
  <2>6. \A r \in RunIds : runs'[r] = IF r = Active THEN row ELSE RunsSwept[r]
    BY <1>1, <2>3, GrowsBySweep
  <2>7. /\ Len(runs) <= Len(runs') /\ Len(runs') <= MaxRuns
        /\ \A r \in RunIds : /\ RunsSwept[r].agent = runs[r].agent
                             /\ RunsSwept[r].losses = runs[r].losses
                             /\ Terminal(r) => RunsSwept[r].status \in TerminalStatuses \/ Revived(r)
    BY <1>1, <1>2, <2>5, RunsTyped, GrowsBySweep DEF Grows
  <2>8. \A r \in RunIds : /\ runs'[r].agent = runs[r].agent
                          /\ runs'[r].losses = runs[r].losses
                          /\ Terminal(r) => runs'[r].status \in TerminalStatuses \/ Revived(r)
    BY <2>2, <2>6, <2>7 DEF Terminal
  <2> QED
    BY <2>5, <2>7, <2>8 DEF Grows
<1> QED
  BY <1>3, <1>4, <1>5, <1>6 DEF EnqueueWakeup

LEMMA RunStepGrows ==
    ASSUME TypeInv, NEW r \in RunIds, RunStep(r)
    PROVE  Grows(runs')
<1>1. TypeOK /\ runs[r] \in RunRows
  BY RunsTyped DEF TypeInv
<1>2. CASE ClaimUpdate(r) /\ runs[r].status = "queued"
  <2> DEFINE row == [runs[r] EXCEPT !.status = "running"]
  <2>1. runs' = [runs EXCEPT ![r] = row]
    BY <1>2 DEF ClaimUpdate
  <2>2. row \in RunRows /\ row.agent = runs[r].agent /\ row.losses = runs[r].losses
    BY <1>1 DEF RunRows, LiveStatuses
  <2>3. ~Terminal(r)
    BY <1>2 DEF Terminal, TerminalStatuses
  <2> QED
    BY <1>1, <2>1, <2>2, <2>3, GrowsByRow
<1>3. CASE UNCHANGED runs
  BY <1>1, <1>3, GrowsUnchanged
<1> QED
  BY <1>2, <1>3 DEF RunStep, ClaimGates, ClaimUpdate, StampLock, BeginExecution,
                    AdapterReturns, rows

(* The wake a release promotes is one of the deferred.                       *)
LEMMA NextWakeTyped ==
    ASSUME TypeOK, NextWake # 0
    PROVE  NextWake \in 1..Len(deferred) /\ deferred[NextWake] \in Wakes
<1>1. Len(deferred) \in Nat
  BY LenProperties DEF TypeOK
<1>2. \E i \in 1..Len(deferred) : Admitted(deferred[i])
  BY DEF NextWake
<1> DEFINE admitted == {i \in 1..Len(deferred) : Admitted(deferred[i])}
<1>3. PICK i \in admitted : \A j \in admitted : i <= j
  <2>1. admitted \in SUBSET Nat /\ admitted # {}
    BY <1>1, <1>2
  <2> QED
    BY <2>1, Minimum
<1>4. \A j \in 1..(i - 1) : ~Admitted(deferred[j])
  BY <1>1, <1>3
<1>5. NextWake \in 1..Len(deferred)
  BY <1>2, <1>3, <1>4 DEF NextWake
<1> QED
  BY <1>5, ElementOfSeq DEF TypeOK

LEMMA EndingGrows ==
    ASSUME TypeInv, NEW e \in ends, EndingStep(e)
    PROVE  Grows(runs')
<1>1. /\ TypeOK /\ EndOK(e) /\ left["row"] <= MaxRuns /\ left["row"] \in Nat
      /\ Len(runs) \in Nat /\ MaxRuns \in Nat /\ MaxAttempts \in Nat
  BY RunsTyped, IssueExecutionAssumption DEF TypeInv, TypeOK, Events
<1>2. /\ e.run \in RunIds /\ runs[e.run] \in RunRows
      /\ e.status \in TerminalStatuses \/ (e.status = "running" /\ e.by = "detached")
  BY <1>1, RunsTyped DEF EndOK, EndRecords
<1>3. ASSUME NEW row \in RunRows, Len(runs) < left["row"], runs' = Append(runs, row)
      PROVE  Grows(runs')
  BY <1>1, <1>3, GrowsUnchanged, GrowsByAppend
<1>4. CASE WriteStatus(e)
  <2> DEFINE row == [runs[e.run] EXCEPT !.status = e.status]
  <2>1. runs' = [runs EXCEPT ![e.run] = row]
    BY <1>4 DEF WriteStatus
  <2>2. row \in RunRows /\ row.agent = runs[e.run].agent /\ row.losses = runs[e.run].losses
        /\ row.status = e.status
    BY <1>2 DEF RunRows, LiveStatuses
  <2>3. e.by = "detached" => Revived(e.run)
    BY <1>4 DEF Revived
  <2> HIDE DEF row
  <2> QED
    BY <1>1, <1>2, <2>1, <2>2, <2>3, GrowsByRow
<1>5. CASE RetryAfterLoss(e)
  <2> DEFINE row == [runs[e.run] EXCEPT
                        !.reason = "process_lost_retry", !.retry = "process_lost",
                        !.status = "queued", !.losses = @ + 1, !.attempt = 0]
  <2>1. runs[e.run].losses = 0
    BY <1>1, <1>5 DEF EndOK, RetryAfterLoss
  <2>2. /\ runs[e.run].losses + 1 \in 0..1 /\ 0 \in 0..MaxAttempts
        /\ "process_lost_retry" \in Reasons /\ "process_lost" \in RetryReasons
        /\ "queued" \in LiveStatuses \cup TerminalStatuses
    BY <1>1, <2>1 DEF Reasons, RetryReasons, LiveStatuses
  <2>3. row \in RunRows
    BY <1>2, <2>2 DEF RunRows
  <2> QED
    BY <1>3, <1>5, <2>3 DEF RetryAfterLoss
<1>6. CASE ScheduleRetry(e) /\ runs[e.run].attempt < MaxAttempts
  <2> DEFINE row == [runs[e.run] EXCEPT
                        !.reason = "transient_failure_retry", !.retry = "transient_failure",
                        !.status = "scheduled_retry", !.losses = 0, !.attempt = @ + 1]
  <2>1. runs[e.run].attempt \in 0..MaxAttempts
    BY <1>2 DEF RunRows
  <2>2. /\ runs[e.run].attempt + 1 \in 0..MaxAttempts /\ 0 \in 0..1
        /\ "transient_failure_retry" \in Reasons /\ "transient_failure" \in RetryReasons
        /\ "scheduled_retry" \in LiveStatuses \cup TerminalStatuses
    BY <1>1, <1>6, <2>1 DEF Reasons, RetryReasons, LiveStatuses
  <2>3. row \in RunRows
    BY <1>2, <2>2 DEF RunRows
  <2> QED
    BY <1>3, <1>6, <2>3 DEF ScheduleRetry
<1>7. CASE ReleasePromotes(e)
  <2>1. deferred[NextWake] \in Wakes
    BY <1>1, <1>7, NextWakeTyped DEF ReleasePromotes
  <2> QED
    BY <1>3, <1>7, <2>1, NewRunTyped DEF ReleasePromotes
<1>8. CASE ReleaseRecovers(e)
  <2>1. RecoveryWake(issue.assignee, RecoveryReason) \in Wakes
    BY <1>1, <1>2, <1>8 DEF ReleaseRecovers, NeedsRecovery, RunRows, RecoveryWake, SystemWake, RecoveryReason, Wakes, Reasons,
                RetryReasons
  <2> QED
    BY <1>3, <1>8, <2>1, NewRunTyped DEF ReleaseRecovers
<1>9. CASE UNCHANGED runs
  BY <1>1, <1>9, GrowsUnchanged
<1> QED
  BY <1>4, <1>5, <1>6, <1>7, <1>8, <1>9
  DEF EndingStep, ClearLock, ScheduleRetry, ReleaseRefused, ReleaseOnly, Escalate, Reblock, rows

LEMMA PromoteGrows ==
    ASSUME TypeInv, NEW r \in RunIds, PromoteRetry(r)
    PROVE  Grows(runs')
<1> DEFINE row(status) == [runs[r] EXCEPT !.status = status]
<1>1. TypeOK /\ runs[r] \in RunRows /\ ~Terminal(r)
  BY RunsTyped DEF TypeInv, PromoteRetry, Terminal, TerminalStatuses
<1>2. \A status \in {"queued", "cancelled"} :
         row(status) \in RunRows /\ row(status).agent = runs[r].agent
         /\ row(status).losses = runs[r].losses
  BY <1>1 DEF RunRows, LiveStatuses, TerminalStatuses
<1>3. \E status \in {"queued", "cancelled"} : runs' = [runs EXCEPT ![r] = row(status)]
  BY DEF PromoteRetry
<1> HIDE DEF row
<1> QED
  BY <1>1, <1>2, <1>3, GrowsByRow

LEMMA RunsStep ==
    ASSUME TypeInv, [Next]_vars
    PROVE  Grows(runs')
<1>1. CASE \E w \in posted : EnqueueWakeup(w)
  BY <1>1, WakeGrows
<1>2. CASE \E r \in RunIds : RunStep(r)
  BY <1>2, RunStepGrows
<1>3. CASE \E e \in ends : EndingStep(e)
  BY <1>3, EndingGrows
<1>4. CASE \E r \in RunIds : PromoteRetry(r)
  BY <1>4, PromoteGrows
<1>5. CASE UNCHANGED runs
  BY <1>5, GrowsUnchanged DEF TypeInv
<1>6. CASE \/ CreateHold \/ CancelWakeups \/ Dispatch \/ ReconcileFailed
           \/ \E r \in RunIds : Reap(r) \/ ReapDetached(r)
           \/ \E u \in updates : WriteUpdate(u)
  BY <1>5, <1>6 DEF CreateHold, CancelWakeups, Reap, ReapDetached, Dispatch, ReconcileFailed,
                    WriteUpdate, rows
<1>7. CASE Environment
  BY <1>5, <1>7 DEF Environment, Comment, Assign, PauseAgent, ResumeAgent, SetStatus, CancelRun,
                    Release, Request, PreviewHold, ReleaseHold, Block, Unblock, Crash, ReconcileProductive, rows
<1> QED
  BY <1>1, <1>2, <1>3, <1>4, <1>5, <1>6, <1>7 DEF Next, Server, Scheduler, vars, rows

-----------------------------------------------------------------------------
(* What a step may do to the issue: move its lock, give it to a run of its   *)
(* assignee while it is open, take the checkout away and set status and      *)
(* assignee, set it in progress by hand, or name a stale assignee.           *)
OnPurpose == ByPerson \/ Unlooked

Relocked ==
    \E lock \in 0..Len(runs'), key \in Agents \cup {NoAgent} : issue' = Locked(issue, lock, key)

Taken ==
    \E r \in RunIds, key \in Agents \cup {NoAgent} :
        /\ issue.assignee = runs[r].agent /\ issue.status \notin Closed
        /\ issue.checkout \in {NoRun, r} \/ Terminal(issue.checkout)
        /\ issue' = [Locked(issue, r, key) EXCEPT !.status = "in_progress", !.checkout = r]

Moved ==
    /\ issue' \in [status : IssueStatuses, assignee : Agents \cup {NoAgent},
                   lock : 0..Len(runs'), key : Agents \cup {NoAgent}, checkout : {NoRun}]
    /\ issue.status \in Closed /\ issue'.status \notin Closed => OnPurpose

Started == OnPurpose /\ issue' = [issue EXCEPT !.status = "in_progress"]

Misassigned ==
    StaleAssignment /\ \E a \in Agents \cup {NoAgent} : issue' = [issue EXCEPT !.assignee = a]

IssueChange == Relocked \/ Taken \/ Moved \/ Started \/ Misassigned

LEMMA Numbers ==
    ASSUME TypeInv, Grows(runs')
    PROVE  /\ Len(runs) \in Nat /\ Len(runs') \in Nat /\ Len(runs) <= Len(runs')
           /\ RunIds = 1..Len(runs) /\ 0..Len(runs) \subseteq 0..Len(runs')
           /\ issue \in IssueRows /\ NoAgent \notin Agents
           /\ \A r \in RunIds : runs[r] \in RunRows
<1>1. Len(runs) \in Nat /\ Len(runs') \in Nat
  BY RunsTyped, LenProperties DEF TypeInv, Grows
<1> QED
  BY <1>1, RunsTyped, IssueExecutionAssumption DEF TypeInv, TypeOK, Grows

LEMMA Relocks ==
    ASSUME TypeInv, Grows(runs'),
           \/ UNCHANGED issue
           \/ issue' = Unlocked(issue)
           \/ \E l \in 0..Len(runs'), k \in Agents : issue' = Locked(issue, l, k)
    PROVE  IssueChange
<1>1. CASE UNCHANGED issue
  <2>1. issue' = Locked(issue, issue.lock, issue.key)
    BY <1>1, Numbers DEF Locked, IssueRows
  <2> QED
    BY <2>1, Numbers DEF IssueChange, Relocked, IssueRows
<1>2. CASE issue' = Unlocked(issue)
  <2>1. issue' = Locked(issue, 0, NoAgent) /\ 0 \in 0..Len(runs')
    BY <1>2, Numbers DEF Locked, Unlocked, NoRun
  <2> QED
    BY <2>1 DEF IssueChange, Relocked
<1>3. CASE \E l \in 0..Len(runs'), k \in Agents : issue' = Locked(issue, l, k)
  BY <1>3 DEF IssueChange, Relocked
<1> QED
  BY <1>1, <1>2, <1>3

LEMMA WakeIssue ==
    ASSUME TypeInv, Grows(runs'), NEW w \in posted, EnqueueWakeup(w)
    PROVE  IssueChange
<1>1. UNCHANGED issue \/ issue' = IssueSeized
  BY DEF EnqueueWakeup, WakeRefused, WakeSkipped, WakeQueued, WakeCoalesced, WakeDeferred, rows
<1>2. Active # NoRun => Active \in 0..Len(runs') /\ runs[Active].agent \in Agents
  BY ActiveTyped, Numbers DEF TypeInv, RunRows
<1> QED
  BY <1>1, <1>2, Relocks DEF IssueSeized

LEMMA RunStepIssue ==
    ASSUME TypeInv, Grows(runs'), NEW r \in RunIds, RunStep(r)
    PROVE  IssueChange
<1>1. r \in 0..Len(runs') /\ r # 0 /\ runs[r].agent \in Agents
  BY Numbers DEF RunRows
<1>2. CASE StampLock(r)
  BY <1>1, <1>2, Relocks DEF StampLock
<1>3. CASE BeginExecution(r) /\ AutoCheckout(r) /\ issue' = CheckedOut(r)
  <2> DEFINE i == IF Terminal(issue.lock) THEN Unlocked(issue) ELSE issue
             taken == [i EXCEPT !.status = "in_progress", !.lock = r, !.checkout = r]
  <2>1. issue' = taken \/ issue' = i
    BY <1>3 DEF CheckedOut
  <2>2. taken = [Locked(issue, r, i.key) EXCEPT !.status = "in_progress", !.checkout = r]
        /\ i.key \in Agents \cup {NoAgent}
    BY Numbers DEF Locked, Unlocked, IssueRows
  <2>3. issue.assignee = runs[r].agent /\ issue.status \notin Closed
    BY <1>3 DEF AutoCheckout, Open, Closed
  <2>4. i.checkout = issue.checkout
    BY DEF Unlocked
  <2>5. issue.checkout \in {NoRun, r} \/ Terminal(issue.checkout) \/ issue' = i
    BY <1>3, <2>4 DEF CheckedOut
  <2> QED
    BY <2>1, <2>2, <2>3, <2>5, Relocks DEF IssueChange, Taken
<1>4. CASE UNCHANGED issue
  BY <1>4, Relocks
<1> QED
  BY <1>2, <1>3, <1>4 DEF RunStep, ClaimGates, ClaimUpdate, BeginExecution, AdapterReturns, rows

LEMMA NextRow ==
    ASSUME TypeInv, NEW row, runs' = Append(runs, row)
    PROVE  Len(runs') = Len(runs) + 1
  BY DEF TypeInv, TypeOK

LEMMA Moves ==
    ASSUME TypeInv, Grows(runs'),
           NEW status \in IssueStatuses, NEW a \in Agents \cup {NoAgent},
           issue' = [Vacated(issue) EXCEPT !.status = status, !.assignee = a],
           issue.status \in Closed /\ status \notin Closed => OnPurpose
    PROVE  IssueChange
<1>1. issue' = [status |-> status, assignee |-> a, lock |-> NoRun, key |-> NoAgent,
                checkout |-> NoRun]
  BY Numbers DEF Vacated, Unlocked, IssueRows
<1>2. NoRun \in 0..Len(runs')
  BY Numbers DEF NoRun
<1> QED
  BY <1>1, <1>2 DEF IssueChange, Moved

LEMMA EndingIssue ==
    ASSUME TypeInv, Grows(runs'), NEW e \in ends, EndingStep(e)
    PROVE  IssueChange
<1>1. /\ EndOK(e) /\ TypeOK /\ issue \in IssueRows /\ Len(runs) \in Nat
      /\ e.run \in RunIds /\ runs[e.run].agent \in Agents
  BY Numbers DEF TypeInv, EndOK, EndRecords, RunRows
<1>2. CASE RetryAfterLoss(e) \/ (ScheduleRetry(e) /\ runs[e.run].attempt < MaxAttempts)
  <2>1. issue' = Handed(issue, e.run, Len(runs) + 1) /\ Len(runs') = Len(runs) + 1
    BY <1>2, NextRow DEF RetryAfterLoss, ScheduleRetry
  <2>2. Len(runs) + 1 \in 0..Len(runs')
    BY <1>1, <2>1
  <2> QED
    BY <1>1, <2>1, <2>2, Relocks DEF Handed
<1>3. CASE ReleasePromotes(e)
  <2> DEFINE w == deferred[NextWake]
             free == Unlocked(issue)
             reopens == /\ w.comment /\ issue.status \in Closed
                        /\ w.user \/ w.reason = "issue_reopened_via_comment"
             reopened == IF reopens THEN [Vacated(free) EXCEPT !.status = "todo"] ELSE free
  <2>1. /\ issue' = IF issue.assignee = w.agent
                    THEN Locked(reopened, Len(runs) + 1, w.agent) ELSE reopened
        /\ NextWake # 0 /\ deferred' = SubSeq(deferred, NextWake + 1, Len(deferred))
    BY <1>3 DEF ReleasePromotes
  <2>2. Len(runs') = Len(runs) + 1 /\ Len(runs) + 1 \in 0..Len(runs')
    BY <1>1, <1>3, NextRow DEF ReleasePromotes
  <2>3. w \in Wakes /\ NextWake \in 1..Len(deferred) /\ Len(deferred) \in Nat
    BY <1>1, <2>1, NextWakeTyped, LenProperties DEF TypeOK
  <2>4. CASE ~reopens
    <3>1. issue' = Unlocked(issue) \/ issue' = Locked(issue, Len(runs) + 1, w.agent)
      BY <1>1, <2>1, <2>4 DEF Locked, Unlocked, IssueRows
    <3> QED
      BY <2>2, <2>3, <3>1, Relocks DEF Wakes
  <2>5. CASE reopens
    <3>1. \A i \in (NextWake + 1)..Len(deferred) : deferred[i] \in Wakes
      BY <1>1, <2>3, ElementOfSeq DEF TypeOK
    <3>2. Len(deferred') = Len(deferred) - NextWake
      BY <2>1, <2>3, <3>1, SubSeqProperties
    <3>3. Len(deferred) - Len(deferred') = NextWake /\ NextWake > 0
      BY <2>3, <3>2
    <3>4. OnPurpose
      BY <2>5, <3>3 DEF OnPurpose, ByPerson
    <3>5. reopened = [status |-> "todo", assignee |-> issue.assignee, lock |-> NoRun,
                      key |-> NoAgent, checkout |-> NoRun]
      BY <1>1, <2>5 DEF Vacated, Unlocked, IssueRows
    <3>6. /\ "todo" \in IssueStatuses /\ issue.assignee \in Agents \cup {NoAgent}
          /\ NoRun \in 0..Len(runs') /\ w.agent \in Agents
      BY <1>1, <2>2, <2>3 DEF IssueStatuses, Open, IssueRows, Wakes, NoRun
    <3>7. issue' \in [status : IssueStatuses, assignee : Agents \cup {NoAgent},
                      lock : 0..Len(runs'), key : Agents \cup {NoAgent}, checkout : {NoRun}]
      <4>1. issue' = reopened \/ issue' = [reopened EXCEPT !.lock = Len(runs) + 1, !.key = w.agent]
        BY <2>1 DEF Locked
      <4> HIDE DEF reopened
      <4>2. CASE issue' = reopened
        BY <3>5, <3>6, <4>2
      <4>3. CASE issue' = [reopened EXCEPT !.lock = Len(runs) + 1, !.key = w.agent]
        <5>1. issue' = [status |-> "todo", assignee |-> issue.assignee, lock |-> Len(runs) + 1,
                        key |-> w.agent, checkout |-> NoRun]
          BY <3>5, <4>3
        <5> QED
          BY <2>2, <3>6, <5>1
      <4> QED
        BY <4>1, <4>2, <4>3
    <3> QED
      BY <3>4, <3>7 DEF IssueChange, Moved
  <2> HIDE DEF reopens
  <2> QED
    BY <2>4, <2>5
<1>4. CASE ReleaseRecovers(e)
  <2>1. Len(runs') = Len(runs) + 1 /\ Len(runs) + 1 \in 0..Len(runs')
    BY <1>1, <1>4, NextRow DEF ReleaseRecovers
  <2> QED
    BY <1>1, <1>4, <2>1, Relocks DEF ReleaseRecovers, NeedsRecovery
<1>5. CASE Escalate(e)
  <2>1. e.step = "escalate" /\ e.assignee \in Agents
    BY <1>1, <1>5 DEF Escalate, EndOK
  <2>2. e \notin ends'
    <3>1. [e EXCEPT !.step = "reblock"] # e
      BY <1>1, <2>1 DEF EndOK, EndRecords
    <3> QED
      BY <1>5, <3>1 DEF Escalate
  <2>3. PICK owner \in Agents \cup {NoAgent} :
            issue' = [Vacated(issue) EXCEPT !.status = "blocked",
                         !.assignee = IF owner = NoAgent THEN e.assignee ELSE owner]
    BY <1>5 DEF Escalate
  <2>4. OnPurpose /\ "blocked" \in IssueStatuses
    BY <2>1, <2>2 DEF OnPurpose, Unlooked, IssueStatuses
  <2>5. (IF owner = NoAgent THEN e.assignee ELSE owner) \in Agents
    BY <2>1
  <2> QED
    BY <2>3, <2>4, <2>5, Moves
<1>6. CASE Reblock(e)
  <2>1. e.step = "reblock" /\ e.assignee \in Agents
    BY <1>1, <1>6 DEF Reblock, EndOK
  <2>2. OnPurpose /\ "blocked" \in IssueStatuses
    BY <1>6, <2>1 DEF Reblock, Finish, OnPurpose, Unlooked, IssueStatuses
  <2> QED
    BY <1>6, <2>1, <2>2, Moves, Relocks DEF Reblock
<1>7. CASE UNCHANGED issue \/ issue' = Unlocked(issue)
  BY <1>7, Relocks
<1> QED
  BY <1>2, <1>3, <1>4, <1>5, <1>6, <1>7
  DEF EndingStep, WriteStatus, ClearLock, ScheduleRetry, ReleaseRefused, ReleaseOnly, rows

LEMMA OutsideIssue ==
    ASSUME TypeInv, Grows(runs'), Environment
    PROVE  IssueChange
<1>1. UNCHANGED issue \/ issue' = Unlocked(issue)
  BY DEF Environment, Comment, Assign, SetStatus, Release, PauseAgent, ResumeAgent, CancelRun,
         PreviewHold, ReleaseHold, Block, Unblock, Crash, ReconcileProductive, rows
<1> QED
  BY <1>1, Relocks

(* An update or a release writes, on what it has read.                       *)
LEMMA WriteIssue ==
    ASSUME TypeInv, Grows(runs'), NEW u \in updates, WriteUpdate(u)
    PROVE  IssueChange
<1>1. /\ issue \in IssueRows /\ u \in UpdateRecords /\ issue' = Written(u)
      /\ u \in updates \ updates' /\ (u.by = "release" => u.status = "todo")
  BY Numbers DEF TypeInv, TypeOK, WriteUpdate
<1>2. u.by # "assign" => OnPurpose
  BY <1>1 DEF OnPurpose, ByPerson, Unlooked, UpdateRecords
<1>3. CASE Vacates(u)
  <2> DEFINE status == IF u.by = "assign" THEN issue.status ELSE u.status
             a == IF u.by \in {"assign", "release"} THEN u.agent ELSE issue.assignee
  <2>1. issue' = [Vacated(issue) EXCEPT !.status = status, !.assignee = a]
    BY <1>1, <1>3 DEF Written, Vacated, Unlocked, IssueRows
  <2>2. status \in IssueStatuses /\ a \in Agents \cup {NoAgent}
    BY <1>1 DEF UpdateRecords, IssueRows
  <2>3. issue.status \in Closed /\ status \notin Closed => OnPurpose
    BY <1>2
  <2> HIDE DEF status, a
  <2> QED
    BY <2>1, <2>2, <2>3, Moves
<1>4. CASE ~Vacates(u) /\ u.by = "assign"
  <2>1. issue' = [issue EXCEPT !.assignee = u.agent] /\ u.agent = u.of
        /\ u.agent \in Agents \cup {NoAgent}
    BY <1>1, <1>4 DEF Written, Vacates, IssueRows, UpdateRecords
  <2>2. CASE u.of = issue.assignee
    <3>1. issue' = issue
      BY <1>1, <2>1, <2>2 DEF IssueRows
    <3> QED
      BY <3>1, Relocks
  <2>3. CASE u.of # issue.assignee
    <3>1. StaleAssignment
      BY <1>1, <1>4, <2>1, <2>3 DEF StaleAssignment
    <3> QED
      BY <2>1, <3>1 DEF IssueChange, Misassigned
  <2> QED
    BY <2>2, <2>3
<1>5. CASE ~Vacates(u) /\ u.by # "assign"
  <2>1. u.status = "in_progress" /\ u.by # "release"
    BY <1>1, <1>5 DEF Vacates
  <2>2. issue' = [issue EXCEPT !.status = "in_progress"]
    BY <1>1, <1>5, <2>1 DEF Written, IssueRows
  <2> QED
    BY <1>2, <1>5, <2>2 DEF IssueChange, Started
<1> QED
  BY <1>3, <1>4, <1>5

LEMMA IssueStep ==
    ASSUME TypeInv, [Next]_vars
    PROVE  IssueChange
<1>1. Grows(runs')
  BY RunsStep
<1>2. CASE \E w \in posted : EnqueueWakeup(w)
  BY <1>1, <1>2, WakeIssue
<1>3. CASE \E r \in RunIds : RunStep(r)
  BY <1>1, <1>3, RunStepIssue
<1>4. CASE \E e \in ends : EndingStep(e)
  BY <1>1, <1>4, EndingIssue
<1>5. CASE \E r \in RunIds : PromoteRetry(r)
  BY <1>1, <1>5, Relocks DEF PromoteRetry
<1>6. CASE Environment
  BY <1>1, <1>6, OutsideIssue
<1>7. CASE UNCHANGED issue
  BY <1>1, <1>7, Relocks
<1>8. CASE \/ CreateHold \/ CancelWakeups \/ Dispatch \/ ReconcileFailed
           \/ \E r \in RunIds : Reap(r) \/ ReapDetached(r)
  BY <1>7, <1>8 DEF CreateHold, CancelWakeups, Reap, ReapDetached, Dispatch, ReconcileFailed, rows
<1>9. CASE \E u \in updates : WriteUpdate(u)
  BY <1>1, <1>9, WriteIssue
<1> QED
  BY <1>2, <1>3, <1>4, <1>5, <1>6, <1>7, <1>8, <1>9 DEF Next, Server, Scheduler, vars, rows

-----------------------------------------------------------------------------
(* The endings under way.                                                    *)

LEMMA EndKept ==
    ASSUME TypeInv, Grows(runs'), NEW e, EndOK(e)
    PROVE  EndOK(e)'
<1>1. RunIds \subseteq RunIds' /\ e.run \in RunIds
  BY Numbers DEF RunIds, EndOK, EndRecords
<1>2. runs'[e.run].losses = runs[e.run].losses
  BY <1>1 DEF Grows
<1> QED
  BY <1>1, <1>2 DEF EndOK, EndRecords

LEMMA NewEnding ==
    ASSUME NEW r \in RunIds, NEW by \in Enders \ {"detached"}, NEW status \in TerminalStatuses,
           by = "reaperRetry" => runs[r].losses = 0
    PROVE  EndOK(Ending(r, by, status))
  BY DEF EndOK, EndRecords, EndSteps, Ending, TerminalStatuses

LEMMA Escalated ==
    ASSUME NEW e, EndOK(e), issue.assignee \in Agents, e.by # "detached"
    PROVE  EndOK(Escalating(e))
  BY DEF EndOK, EndRecords, EndSteps, Escalating, TypeOK, IssueRows

LEMMA RunStepEnds ==
    ASSUME TypeInv, NEW r \in RunIds, RunStep(r)
    PROVE  \A e \in ends' : EndOK(e)
<1>1. \A e \in ends : EndOK(e)
  BY DEF TypeInv
<1>2. CASE ClaimGates(r)
  <2>1. EndOK(Ending(r, "gate", "cancelled")) /\ EndOK(Ending(r, "stale", "cancelled"))
    BY NewEnding DEF Enders, TerminalStatuses
  <2> QED
    BY <1>1, <1>2, <2>1 DEF ClaimGates
<1>3. CASE BeginExecution(r)
  <2>1. EndOK(Ending(r, "setup", "failed"))
    BY NewEnding DEF Enders, TerminalStatuses
  <2> QED
    BY <1>1, <1>3, <2>1 DEF BeginExecution
<1>4. CASE AdapterReturns(r)
  <2>1. \A by \in {"adapter", "transient"}, status \in TerminalStatuses :
           EndOK(Ending(r, by, status))
    BY NewEnding DEF Enders
  <2>2. \E by \in {"adapter", "transient"}, status \in TerminalStatuses :
            ends' = ends \cup {Ending(r, by, status)}
    <3>1. "succeeded" \in TerminalStatuses /\ "failed" \in TerminalStatuses
      BY DEF TerminalStatuses
    <3>2. (IF Terminal(r) THEN runs[r].status ELSE "succeeded") \in TerminalStatuses
      BY <3>1 DEF Terminal
    <3> QED
      BY <1>4, <3>1, <3>2 DEF AdapterReturns
  <2> QED
    BY <1>1, <2>1, <2>2
<1>5. CASE UNCHANGED ends
  BY <1>1, <1>5
<1> QED
  BY <1>2, <1>3, <1>4, <1>5 DEF RunStep, ClaimUpdate, StampLock

LEMMA EndingEnds ==
    ASSUME TypeInv, NEW e \in ends, EndingStep(e)
    PROVE  \A x \in ends' : EndOK(x)
<1>1. TypeOK /\ EndOK(e) /\ e \in EndRecords /\ \A x \in ends : EndOK(x)
  BY DEF TypeInv, EndOK
<1>2. CASE WriteStatus(e)
  <2> DEFINE next == [e EXCEPT !.step = NextStep(e.by)]
  <2>1. NextStep(e.by) \in {"clear", "loss", "retry", "release"}
        /\ (NextStep(e.by) = "loss" => e.by = "reaperRetry")
    BY <1>1 DEF NextStep
  <2>2. e.by # "detached" => EndOK(next)
    BY <1>1, <2>1 DEF EndOK, EndRecords, EndSteps
  <2> HIDE DEF next
  <2>3. ends' = ends \ {e} \/ (e.by # "detached" /\ ends' = (ends \ {e}) \cup {next})
    BY <1>2 DEF WriteStatus, Advance, Finish, next
  <2> QED
    BY <1>1, <2>2, <2>3
<1>3. CASE ScheduleRetry(e)
  <2>1. EndOK([e EXCEPT !.step = "release"])
    BY <1>1, <1>3 DEF EndOK, EndRecords, EndSteps, ScheduleRetry
  <2> QED
    BY <1>1, <1>3, <2>1 DEF ScheduleRetry, Advance
<1>4. CASE ReleaseOnly(e)
  <2>1. runs[e.run].agent \in Agents /\ e.by # "detached"
    BY <1>1, <1>4, RunsTyped DEF EndOK, EndRecords, RunRows, ReleaseOnly, Releasing
  <2>2. NeedsRecovery(e) => EndOK(Escalating(e))
    BY <1>1, <2>1, Escalated DEF NeedsRecovery
  <2> QED
    BY <1>1, <1>4, <2>2 DEF ReleaseOnly
<1>5. CASE Escalate(e)
  <2>1. e.assignee \in Agents
    BY <1>1, <1>5 DEF Escalate, EndOK
  <2>2. EndOK([e EXCEPT !.step = "reblock"])
    BY <1>1, <1>5, <2>1 DEF EndOK, EndRecords, EndSteps, Escalate
  <2> QED
    BY <1>1, <1>5, <2>2 DEF Escalate
<1>6. CASE ends' = ends \ {e}
  BY <1>1, <1>6
<1> QED
  BY <1>2, <1>3, <1>4, <1>5, <1>6
  DEF EndingStep, ClearLock, RetryAfterLoss, ReleaseRefused, ReleasePromotes, ReleaseRecovers,
      Reblock, Finish

LEMMA ReapEnds ==
    ASSUME TypeInv, NEW r \in RunIds, Reap(r)
    PROVE  \A e \in ends' : EndOK(e)
<1>1. runs[r].losses \in 0..1 /\ "failed" \in TerminalStatuses
  BY RunsTyped DEF TypeInv, RunRows, TerminalStatuses
<1>2. PICK tracked \in BOOLEAN :
        ends' = ends \cup {Ending(r, IF tracked /\ runs[r].losses < 1 THEN "reaperRetry"
                                     ELSE "reaper", "failed")}
  BY DEF Reap
<1>3. EndOK(Ending(r, IF tracked /\ runs[r].losses < 1 THEN "reaperRetry"
                      ELSE "reaper", "failed"))
  <2>1. CASE tracked /\ runs[r].losses < 1
    BY <1>1, <2>1, NewEnding DEF Enders
  <2>2. CASE ~(tracked /\ runs[r].losses < 1)
    BY <1>1, <2>2, NewEnding DEF Enders
  <2> QED
    BY <2>1, <2>2
<1> QED
  BY <1>2, <1>3 DEF TypeInv

LEMMA DetachEnds ==
    ASSUME TypeInv, NEW r \in RunIds, ReapDetached(r)
    PROVE  \A e \in ends' : EndOK(e)
<1>1. EndOK(Ending(r, "detached", "running"))
  BY DEF EndOK, EndRecords, EndSteps, Enders, Ending
<1> QED
  BY <1>1 DEF TypeInv, ReapDetached

LEMMA FollowUpEnds ==
    ASSUME TypeInv, ReconcileFailed \/ ReconcileProductive
    PROVE  /\ \A e \in ends' : EndOK(e)
           /\ posted' \subseteq Wakes
<1> DEFINE last == runs[Len(runs)]
<1>1. TypeOK /\ Len(runs) \in RunIds
  <2>1. TypeOK /\ Len(runs) \in Nat /\ RunIds = 1..Len(runs) /\ runs \in Seq(RunRows)
    BY RunsTyped DEF TypeInv, TypeOK
  <2>2. runs # <<>>
    BY DEF ReconcileFailed, ReconcileProductive
  <2>3. Len(runs) # 0
    BY <2>1, <2>2, EmptySeq
  <2> QED
    BY <2>1, <2>3
<1>2. last.status \in TerminalStatuses
  BY DEF ReconcileFailed, ReconcileProductive, TerminalStatuses
<1>3. issue.assignee \in Agents
  BY <1>1 DEF ReconcileFailed, ReconcileProductive, Stranded, TypeOK
<1>4. EndOK(Escalating(Ending(Len(runs), "reconcile", last.status)))
  <2>1. EndOK(Ending(Len(runs), "reconcile", last.status))
    BY <1>1, <1>2, NewEnding DEF Enders
  <2> QED
    BY <1>3, <2>1, Escalated DEF Ending
<1>5. \E again \in BOOLEAN, retry \in {RecoveryReason, "productive_continuation"} :
        FollowUp(again, retry)
  BY DEF ReconcileFailed, ReconcileProductive
<1>6. \A retry \in {RecoveryReason, "productive_continuation"} :
         RecoveryWake(issue.assignee, retry) \in Wakes
  BY <1>3 DEF RecoveryReason, RecoveryWake, SystemWake, Wakes, Reasons, RetryReasons
<1> QED
  BY <1>1, <1>4, <1>5, <1>6 DEF FollowUp, TypeInv, TypeOK

LEMMA OutsideEnds ==
    ASSUME TypeInv, Environment
    PROVE  \A e \in ends' : EndOK(e)
<1>1. \A e \in ends : EndOK(e)
  BY DEF TypeInv
<1>2. \A r \in RunIds, by \in {"api", "sweep"} : EndOK(Ending(r, by, "cancelled"))
  BY NewEnding DEF Enders, TerminalStatuses
<1>3. CASE \E r \in RunIds : CancelRun(r)
  BY <1>1, <1>2, <1>3 DEF CancelRun
<1>4. CASE \E a \in Agents : PauseAgent(a)
  BY <1>1, <1>2, <1>4 DEF PauseAgent, Live
<1>5. CASE ReconcileProductive
  BY <1>5, FollowUpEnds
<1>6. CASE UNCHANGED ends \/ ends' = {}
  BY <1>1, <1>6
<1> QED
  BY <1>3, <1>4, <1>5, <1>6
  DEF Environment, Comment, Assign, SetStatus, Release, Request, ResumeAgent, PreviewHold, ReleaseHold, Block, Unblock, Crash,
      memory

LEMMA EndsStep ==
    ASSUME TypeInv, [Next]_vars
    PROVE  \A e \in ends' : EndOK(e)'
<1>1. \A e \in ends' : EndOK(e)
  <2>1. CASE \E r \in RunIds : RunStep(r)
    BY <2>1, RunStepEnds
  <2>2. CASE \E e \in ends : EndingStep(e)
    BY <2>2, EndingEnds
  <2>3. CASE CreateHold
    <3>1. \A r \in Live : EndOK(Ending(r, "api", "cancelled"))
      BY NewEnding DEF Enders, TerminalStatuses, Live
    <3> QED
      BY <2>3, <3>1 DEF CreateHold, TypeInv
  <2>4. CASE \E r \in RunIds : Reap(r) \/ ReapDetached(r)
    BY <2>4, ReapEnds, DetachEnds
  <2>5. CASE ReconcileFailed
    BY <2>5, FollowUpEnds
  <2>6. CASE Environment
    BY <2>6, OutsideEnds
  <2>7. CASE UNCHANGED ends
    BY <2>7 DEF TypeInv
  <2>8. CASE \E w \in posted : EnqueueWakeup(w)
    BY <2>7, <2>8 DEF EnqueueWakeup, WakeRefused, WakeSkipped, WakeQueued, WakeCoalesced,
                      WakeDeferred, Deliver
  <2>9. CASE CancelWakeups \/ Dispatch \/ (\E r \in RunIds : PromoteRetry(r))
    BY <2>7, <2>9 DEF CancelWakeups, Dispatch, PromoteRetry, memory
  <2>10. CASE \E u \in updates : WriteUpdate(u)
    <3>1. \A r \in Live : EndOK(Ending(r, "api", "cancelled"))
      BY NewEnding DEF Enders, TerminalStatuses, Live
    <3> QED
      BY <2>10, <3>1 DEF WriteUpdate, TypeInv
  <2> QED
    BY <2>1, <2>2, <2>3, <2>4, <2>5, <2>6, <2>7, <2>8, <2>9, <2>10
    DEF Next, Server, Scheduler, vars, memory
<1> QED
  BY <1>1, RunsStep, EndKept

(* The updates under way: what is read is typed, and rows are only added.    *)
LEMMA UpdatesStep ==
    ASSUME TypeInv, [Next]_vars
    PROVE  \A u \in updates' : u \in UpdateRecords' /\ (u.by = "release" => u.status = "todo")
<1>1. /\ issue \in IssueRows /\ Len(runs) \in Nat /\ Len(runs') \in Nat
      /\ Len(runs) <= Len(runs') /\ RunIds = 1..Len(runs)
  BY RunsStep, Numbers
<1>2. UpdateRecords \subseteq UpdateRecords'
  BY <1>1 DEF UpdateRecords
<1>3. ASSUME NEW by \in {"assign", "status", "comment", "release"}, NEW status \in IssueStatuses,
             NEW a \in Agents \cup {NoAgent}, NEW r \in 0..Len(runs),
             NEW mentioned \in SUBSET Agents, by = "release" => status = "todo",
             updates' = updates \cup {Update(by, status, a, r, mentioned)}
      PROVE  \A u \in updates' : u \in UpdateRecords' /\ (u.by = "release" => u.status = "todo")
  <2>1. Update(by, status, a, r, mentioned) \in UpdateRecords
    BY <1>1 DEF Update, UpdateRecords, IssueRows
  <2>2. Update(by, status, a, r, mentioned).by = by /\ Update(by, status, a, r, mentioned).status = status
    BY DEF Update
  <2> QED
    BY <1>2, <1>3, <2>1, <2>2 DEF TypeInv, TypeOK
<1>4. /\ "todo" \in IssueStatuses /\ issue.status \in IssueStatuses /\ NoRun \in 0..Len(runs)
      /\ issue.assignee \in Agents \cup {NoAgent} /\ {} \in SUBSET Agents
      /\ ActiveIssueRuns \subseteq 0..Len(runs)
  BY <1>1 DEF IssueStatuses, Open, IssueRows, NoRun, ActiveIssueRuns
<1>5. CASE updates' \subseteq updates
  BY <1>2, <1>5 DEF TypeInv, TypeOK
<1>6. CASE \E mentioned \in SUBSET Agents : Comment(mentioned)
  <2>1. PICK mentioned \in SUBSET Agents : Comment(mentioned)
    BY <1>6
  <2>2. \/ updates' = updates
        \/ updates' = updates \cup {Update("comment", "todo", issue.assignee, NoRun, mentioned)}
    BY <2>1 DEF Comment, Request
  <2> QED
    BY <1>3, <1>4, <1>5, <2>2
<1>7. CASE \E a \in Agents \cup {NoAgent} : Assign(a)
  <2>1. PICK a \in Agents \cup {NoAgent} :
            updates' = updates \cup {Update("assign", issue.status, a, NoRun, {})}
    BY <1>7 DEF Assign, Request
  <2> QED
    BY <1>3, <1>4, <2>1
<1>8. CASE \E s \in IssueStatuses : SetStatus(s)
  <2>1. PICK s \in IssueStatuses, r \in 0..Len(runs) :
            updates' = updates \cup {Update("status", s, issue.assignee, r, {})}
    BY <1>4, <1>8 DEF SetStatus, Request
  <2> QED
    BY <1>3, <1>4, <2>1
<1>9. CASE Release
  <2>1. updates' = updates \cup {Update("release", "todo", NoAgent, NoRun, {})}
    BY <1>9 DEF Release, Request
  <2> QED
    BY <1>3, <1>4, <2>1
<1>10. CASE Environment
  BY <1>5, <1>6, <1>7, <1>8, <1>9, <1>10
  DEF Environment, PauseAgent, ResumeAgent, CancelRun, PreviewHold, ReleaseHold, Block, Unblock,
      Crash, ReconcileProductive, memory
<1>11. CASE Server
  BY <1>5, <1>11 DEF Server, EnqueueWakeup, RunStep, EndingStep, WriteUpdate, CreateHold,
                     CancelWakeups
<1>12. CASE Scheduler \/ UNCHANGED vars
  BY <1>5, <1>12 DEF Scheduler, PromoteRetry, Reap, ReapDetached, Dispatch, ReconcileFailed, vars,
                     memory
<1> QED
  BY <1>10, <1>11, <1>12 DEF Next

-----------------------------------------------------------------------------
(* The wakes, posted and set aside.                                          *)

LEMMA SystemWakeTyped ==
    ASSUME NEW a \in Agents, NEW why \in {"issue_assigned", "source_scoped_recovery_action"}
    PROVE  SystemWake(a, why) \in Wakes
  BY DEF SystemWake, Wakes, Reasons, RetryReasons

LEMMA UserCommentTyped ==
    ASSUME NEW a \in Agents,
           NEW why \in {"issue_commented", "issue_reopened_via_comment", "issue_comment_mentioned"}
    PROVE  UserComment(a, why) \in Wakes
  BY DEF UserComment, SystemWake, Wakes, Reasons, RetryReasons

LEMMA CommentsTyped ==
    ASSUME NEW owner, NEW mentioned \in SUBSET Agents,
           NEW why \in {"issue_commented", "issue_reopened_via_comment"}
    PROVE  CommentWakes(owner, why, mentioned) \subseteq Wakes
  BY UserCommentTyped DEF CommentWakes

LEMMA PostedStep ==
    ASSUME TypeInv, [Next]_vars
    PROVE  posted' \subseteq Wakes
<1>1. posted \subseteq Wakes /\ invokable \subseteq Agents
  BY DEF TypeInv, TypeOK
<1>2. CASE \E e \in ends : EndingStep(e)
  <2>1. PICK e \in ends : EndingStep(e)
    BY <1>2
  <2>2. CASE Escalate(e)
    <3>1. PICK owner \in Agents \cup {NoAgent} :
            posted' = IF owner = NoAgent THEN posted
                      ELSE posted \cup {SystemWake(owner, "source_scoped_recovery_action")}
      BY <2>2 DEF Escalate
    <3> QED
      BY <1>1, <3>1, SystemWakeTyped
  <2>3. CASE UNCHANGED posted
    BY <1>1, <2>3
  <2> QED
    BY <2>1, <2>2, <2>3
    DEF EndingStep, WriteStatus, ClearLock, RetryAfterLoss, ScheduleRetry, ReleaseRefused,
        ReleasePromotes, ReleaseRecovers, ReleaseOnly, Reblock
<1>3. CASE \E mentioned \in SUBSET Agents : Comment(mentioned)
  BY <1>1, <1>3, CommentsTyped DEF Comment, Request
<1>4. CASE Dispatch \/ Unblock
  <2>1. issue.assignee \in Agents \cup {NoAgent}
    BY DEF TypeInv, TypeOK, IssueRows
  <2> QED
    BY <1>1, <1>4, <2>1, SystemWakeTyped DEF Dispatch, Stranded, Unblock
<1>5. CASE ReconcileFailed \/ ReconcileProductive
  BY <1>5, FollowUpEnds
<1>6. CASE posted' \subseteq posted
  BY <1>1, <1>6
<1>7. CASE \E w \in posted : EnqueueWakeup(w)
  BY <1>6, <1>7 DEF EnqueueWakeup, WakeRefused, WakeSkipped, WakeQueued, WakeCoalesced,
                    WakeDeferred, Deliver
<1>8. CASE \E r \in RunIds : RunStep(r) \/ PromoteRetry(r) \/ Reap(r) \/ ReapDetached(r)
  BY <1>6, <1>8 DEF RunStep, ClaimGates, ClaimUpdate, StampLock, BeginExecution, AdapterReturns,
                    PromoteRetry, Reap, ReapDetached, memory
<1>9. CASE CreateHold \/ CancelWakeups
  BY <1>6, <1>9 DEF CreateHold, CancelWakeups
<1>11. CASE \E u \in updates : WriteUpdate(u)
  <2>1. PICK u \in updates : posted' = posted \cup Woken(u, Written(u)) /\ u \in UpdateRecords
    BY <1>11 DEF WriteUpdate, TypeInv, TypeOK
  <2>2. u.mentioned \subseteq Agents
    BY <2>1 DEF UpdateRecords
  <2>3. Woken(u, Written(u)) \subseteq Wakes
    BY <2>2, CommentsTyped, SystemWakeTyped DEF Woken
  <2> QED
    BY <1>1, <2>1, <2>3
<1>10. CASE Environment
  BY <1>3, <1>4, <1>5, <1>6, <1>10
  DEF Environment, Assign, SetStatus, Release, Request, PauseAgent, ResumeAgent, CancelRun, PreviewHold, ReleaseHold, Block, Crash,
      memory
<1> QED
  BY <1>2, <1>4, <1>5, <1>6, <1>7, <1>8, <1>9, <1>10, <1>11
  DEF Next, Server, Scheduler, vars, memory

LEMMA DeferredStep ==
    ASSUME TypeInv, [Next]_vars
    PROVE  deferred' \in Seq(Wakes)
<1>1. /\ TypeOK /\ deferred \in Seq(Wakes) /\ Len(deferred) \in Nat /\ posted \subseteq Wakes
      /\ \A i \in 1..Len(deferred) : deferred[i] \in Wakes
  BY LenProperties, ElementOfSeq DEF TypeInv, TypeOK
<1>2. CASE \E w \in posted : WakeDeferred(w)
  <2>1. PICK w \in posted : WakeDeferred(w)
    BY <1>2
  <2>2. CASE DeferredBy(w.agent) = {}
    BY <1>1, <2>1, <2>2, AppendProperties DEF WakeDeferred
  <2>3. CASE DeferredBy(w.agent) # {}
    <3> DEFINE oldest == CHOOSE i \in DeferredBy(w.agent) : \A j \in DeferredBy(w.agent) : i <= j
    <3>1. oldest \in 1..Len(deferred)
      <4>1. DeferredBy(w.agent) \in SUBSET Nat
        BY <1>1 DEF DeferredBy
      <4>2. \E i \in DeferredBy(w.agent) : \A j \in DeferredBy(w.agent) : i <= j
        BY <2>3, <4>1, Minimum
      <4> QED
        BY <4>2 DEF DeferredBy
    <3>2. deferred' = [deferred EXCEPT ![oldest] = Merge(deferred[oldest], w)]
      BY <2>1, <2>3 DEF WakeDeferred
    <3>3. Merge(deferred[oldest], w) \in Wakes
      BY <1>1, <2>1, <3>1, MergeTyped
    <3> HIDE DEF oldest
    <3> QED
      BY <1>1, <3>1, <3>2, <3>3, ExceptSeq
  <2> QED
    BY <2>2, <2>3
<1>3. CASE \E e \in ends : ReleasePromotes(e)
  <2>1. NextWake \in 1..Len(deferred) /\ deferred' = SubSeq(deferred, NextWake + 1, Len(deferred))
    BY <1>1, <1>3, NextWakeTyped DEF ReleasePromotes
  <2>2. \A i \in (NextWake + 1)..Len(deferred) : deferred[i] \in Wakes
    BY <1>1, <2>1
  <2> QED
    BY <1>1, <2>1, <2>2, SubSeqProperties
<1>4. CASE UNCHANGED deferred \/ deferred' = <<>>
  BY <1>1, <1>4, EmptySeq
<1>5. CASE \E w \in posted : EnqueueWakeup(w)
  BY <1>2, <1>4, <1>5 DEF EnqueueWakeup, WakeRefused, WakeSkipped, WakeQueued, WakeCoalesced, rows
<1>6. CASE \E r \in RunIds : RunStep(r) \/ PromoteRetry(r) \/ Reap(r) \/ ReapDetached(r)
  BY <1>4, <1>6 DEF RunStep, ClaimGates, ClaimUpdate, StampLock, BeginExecution, AdapterReturns,
                    PromoteRetry, Reap, ReapDetached, rows
<1>7. CASE \E e \in ends : EndingStep(e)
  BY <1>3, <1>4, <1>7
  DEF EndingStep, WriteStatus, ClearLock, RetryAfterLoss, ScheduleRetry, ReleaseRefused,
      ReleaseRecovers, ReleaseOnly, Escalate, Reblock, rows
<1>8. CASE \/ CreateHold \/ CancelWakeups \/ Dispatch \/ ReconcileFailed
           \/ \E u \in updates : WriteUpdate(u)
  BY <1>4, <1>8 DEF CreateHold, CancelWakeups, Dispatch, ReconcileFailed, WriteUpdate, rows
<1>9. CASE Environment
  BY <1>4, <1>9
  DEF Environment, Comment, Assign, SetStatus, Release, Request, CancelRun, PauseAgent, ResumeAgent, PreviewHold,
      ReleaseHold, Block, Unblock, Crash, ReconcileProductive, rows
<1> QED
  BY <1>4, <1>5, <1>6, <1>7, <1>8, <1>9 DEF Next, Server, Scheduler, vars, rows

-----------------------------------------------------------------------------
(* The rest of what a step changes.                                          *)

LEMMA WorkStep ==
    ASSUME TypeInv, [Next]_vars
    PROVE  work' \in [1..MaxRuns -> {"none", "update", "stamp", "start", "adapter"}]
<1>1. work \in [1..MaxRuns -> {"none", "update", "stamp", "start", "adapter"}]
  BY DEF TypeInv, TypeOK
<1>2. CASE \E r \in RunIds : RunStep(r)
  BY <1>1, <1>2 DEF RunStep, ClaimGates, ClaimUpdate, StampLock, BeginExecution, AdapterReturns,
                    Goto
<1>3. CASE Crash
  BY <1>3 DEF Crash
<1>4. CASE UNCHANGED work
  BY <1>1, <1>4
<1>5. CASE \E w \in posted : EnqueueWakeup(w)
  BY <1>4, <1>5 DEF EnqueueWakeup, WakeRefused, WakeSkipped, WakeQueued, WakeCoalesced,
                    WakeDeferred, Deliver
<1>6. CASE \E e \in ends : EndingStep(e)
  BY <1>4, <1>6
  DEF EndingStep, WriteStatus, ClearLock, RetryAfterLoss, ScheduleRetry, ReleaseRefused,
      ReleasePromotes, ReleaseRecovers, ReleaseOnly, Escalate, Reblock
<1>7. CASE CreateHold \/ CancelWakeups \/ Scheduler \/ \E u \in updates : WriteUpdate(u)
  BY <1>4, <1>7 DEF CreateHold, CancelWakeups, Scheduler, PromoteRetry, Reap, ReapDetached,
                    Dispatch, ReconcileFailed, WriteUpdate, memory
<1>8. CASE Environment
  BY <1>3, <1>4, <1>8
  DEF Environment, Comment, Assign, SetStatus, Release, Request, CancelRun, PauseAgent, ResumeAgent, PreviewHold,
      ReleaseHold, Block, Unblock, ReconcileProductive, memory
<1> QED
  BY <1>2, <1>4, <1>5, <1>6, <1>7, <1>8 DEF Next, Server, vars, memory

LEMMA WorldStep ==
    ASSUME TypeInv, [Next]_vars
    PROVE  invokable' \subseteq Agents /\ held' \in BOOLEAN /\ ready' \in BOOLEAN
<1>1. invokable \subseteq Agents /\ held \in BOOLEAN /\ ready \in BOOLEAN
  BY DEF TypeInv, TypeOK
<1>2. CASE CreateHold
  BY <1>1, <1>2 DEF CreateHold
<1>3. CASE UNCHANGED world
  BY <1>1, <1>3 DEF world
<1>4. CASE \/ \E w \in posted : EnqueueWakeup(w)
           \/ \E u \in updates : WriteUpdate(u)
           \/ CancelWakeups
  BY <1>3, <1>4 DEF EnqueueWakeup, WakeRefused, WakeSkipped, WakeQueued, WakeCoalesced,
                    WakeDeferred, Deliver, CancelWakeups, WriteUpdate
<1>5. CASE \E r \in RunIds : RunStep(r)
  BY <1>3, <1>5 DEF RunStep, ClaimGates, ClaimUpdate, StampLock, BeginExecution, AdapterReturns
<1>6. CASE \E e \in ends : EndingStep(e)
  BY <1>3, <1>6
  DEF EndingStep, WriteStatus, ClearLock, RetryAfterLoss, ScheduleRetry, ReleaseRefused,
      ReleasePromotes, ReleaseRecovers, ReleaseOnly, Escalate, Reblock
<1>7. CASE Scheduler
  BY <1>3, <1>7 DEF Scheduler, PromoteRetry, Reap, ReapDetached, Dispatch, ReconcileFailed
<1>8. CASE (\E a \in Agents : PauseAgent(a) \/ ResumeAgent(a)) \/ ReleaseHold \/ Block \/ Unblock
  BY <1>1, <1>8 DEF PauseAgent, ResumeAgent, ReleaseHold, Block, Unblock
<1>9. CASE Environment
  BY <1>3, <1>8, <1>9 DEF Environment, Comment, Assign, SetStatus, Release, Request, CancelRun,
                          PreviewHold, Crash, ReconcileProductive
<1> QED
  BY <1>2, <1>3, <1>4, <1>5, <1>6, <1>7, <1>9 DEF Next, Server, vars

LEMMA HoldingStep ==
    ASSUME TypeInv, [Next]_vars
    PROVE  holding' \in [step : {"none", "create", "wakeups"}, runs : SUBSET RunIds']
<1>1. holding \in [step : {"none", "create", "wakeups"}, runs : SUBSET RunIds]
  BY DEF TypeInv, TypeOK
<1>2. RunIds \subseteq RunIds'
  BY RunsStep, Numbers DEF RunIds
<1>3. CASE UNCHANGED holding \/ holding' = NoRequest
  BY <1>1, <1>2, <1>3 DEF NoRequest
<1>4. CASE CreateHold \/ PreviewHold
  BY <1>2, <1>4 DEF CreateHold, PreviewHold, NoRequest
<1>5. CASE \/ \E w \in posted : EnqueueWakeup(w)
           \/ \E u \in updates : WriteUpdate(u)
           \/ CancelWakeups
  BY <1>3, <1>5 DEF EnqueueWakeup, WakeRefused, WakeSkipped, WakeQueued, WakeCoalesced,
                    WakeDeferred, Deliver, CancelWakeups, WriteUpdate
<1>6. CASE \E r \in RunIds : RunStep(r)
  BY <1>3, <1>6 DEF RunStep, ClaimGates, ClaimUpdate, StampLock, BeginExecution, AdapterReturns
<1>7. CASE \E e \in ends : EndingStep(e)
  BY <1>3, <1>7
  DEF EndingStep, WriteStatus, ClearLock, RetryAfterLoss, ScheduleRetry, ReleaseRefused,
      ReleasePromotes, ReleaseRecovers, ReleaseOnly, Escalate, Reblock
<1>8. CASE Scheduler
  BY <1>3, <1>8 DEF Scheduler, PromoteRetry, Reap, ReapDetached, Dispatch, ReconcileFailed, memory
<1>9. CASE Environment
  BY <1>3, <1>4, <1>9 DEF Environment, Comment, Assign, SetStatus, Release, Request, CancelRun,
                          PauseAgent, ResumeAgent, ReleaseHold, Block, Unblock, Crash, ReconcileProductive,
                          memory
<1> QED
  BY <1>3, <1>4, <1>5, <1>6, <1>7, <1>8, <1>9 DEF Next, Server, vars, memory

LEMMA UpdateEvents ==
    ASSUME NEW by, NEW status, NEW a, NEW r, NEW mentioned
    PROVE  Update(by, status, a, r, mentioned).by = by
  BY DEF Update

LEMMA LeftStep ==
    ASSUME TypeInv, [Next]_vars
    PROVE  left' \in [Events -> Nat] /\ left'["row"] = left["row"]
<1>1. left \in [Events -> Nat]
  BY DEF TypeInv, TypeOK
<1>2. ASSUME NEW event \in Events \ {"row"}, Spend(event)
      PROVE  left' \in [Events -> Nat] /\ left'["row"] = left["row"]
  BY <1>1, <1>2 DEF Spend, Events
<1>3. {"comment", "assign", "status", "release", "cancel", "pause", "hold", "block", "crash",
       "detach", "fail"} \subseteq Events \ {"row"}
  BY DEF Events
<1>4. CASE UNCHANGED left
  BY <1>1, <1>4
<1>5. CASE \E r \in RunIds : RunStep(r)
  BY <1>2, <1>3, <1>4, <1>5
  DEF RunStep, ClaimGates, ClaimUpdate, StampLock, BeginExecution, AdapterReturns
<1>6. CASE \/ \E w \in posted : EnqueueWakeup(w)
           \/ \E u \in updates : WriteUpdate(u)
           \/ CreateHold \/ CancelWakeups
  BY <1>4, <1>6 DEF EnqueueWakeup, WakeRefused, WakeSkipped, WakeQueued, WakeCoalesced,
                    WakeDeferred, Deliver, CreateHold, CancelWakeups, WriteUpdate
<1>7. CASE \E e \in ends : EndingStep(e)
  BY <1>4, <1>7
  DEF EndingStep, WriteStatus, ClearLock, RetryAfterLoss, ScheduleRetry, ReleaseRefused,
      ReleasePromotes, ReleaseRecovers, ReleaseOnly, Escalate, Reblock
<1>8. CASE Scheduler
  BY <1>2, <1>3, <1>4, <1>8
  DEF Scheduler, PromoteRetry, Reap, ReapDetached, Dispatch, ReconcileFailed
<1>9. CASE Environment
  BY <1>2, <1>3, <1>4, <1>9, UpdateEvents
  DEF Environment, Comment, Assign, SetStatus, Release, Request, CancelRun, PauseAgent, ResumeAgent, PreviewHold,
      ReleaseHold, Block, Unblock, Crash, ReconcileProductive
<1> QED
  BY <1>4, <1>5, <1>6, <1>7, <1>8, <1>9 DEF Next, Server, vars

-----------------------------------------------------------------------------
(* The theorems.                                                             *)

LEMMA IssueTyped ==
    ASSUME TypeInv, Grows(runs'), IssueChange
    PROVE  issue' \in IssueRows'
<1>1. /\ issue \in [status : IssueStatuses, assignee : Agents \cup {NoAgent},
                    lock : 0..Len(runs'), key : Agents \cup {NoAgent}, checkout : 0..Len(runs')]
      /\ "in_progress" \in IssueStatuses /\ NoRun \in 0..Len(runs')
      /\ RunIds \subseteq 0..Len(runs')
  BY Numbers DEF IssueRows, IssueStatuses, Open, NoRun
<1>2. CASE Relocked
  BY <1>1, <1>2 DEF Relocked, Locked, IssueRows
<1>3. CASE Taken
  <2>1. PICK r \in RunIds, key \in Agents \cup {NoAgent} :
            issue' = [Locked(issue, r, key) EXCEPT !.status = "in_progress", !.checkout = r]
    BY <1>3 DEF Taken
  <2> QED
    BY <1>1, <2>1 DEF Locked, IssueRows
<1>4. CASE Moved
  BY <1>1, <1>4 DEF Moved, IssueRows
<1>5. CASE Started
  BY <1>1, <1>5 DEF Started, IssueRows
<1>6. CASE Misassigned
  BY <1>1, <1>6 DEF Misassigned, IssueRows
<1> QED
  BY <1>2, <1>3, <1>4, <1>5, <1>6 DEF IssueChange

LEMMA TypeInit == Init => TypeInv
<1> SUFFICES ASSUME Init PROVE TypeInv
  OBVIOUS
<1>1. runs \in Seq(RunRows) /\ deferred \in Seq(Wakes) /\ Len(runs) = 0
  BY EmptySeq DEF Init
<1>2. left \in [Events -> Nat] /\ left["row"] <= MaxRuns /\ MaxRuns \in Nat
  BY IssueExecutionAssumption DEF Init
<1>3. issue \in IssueRows
  BY <1>1 DEF Init, IssueRows, IssueStatuses, Open, NoRun
<1>4. posted \subseteq Wakes
  BY DEF Init, Wakes, Reasons, RetryReasons
<1>5. /\ work \in [1..MaxRuns -> {"none", "update", "stamp", "start", "adapter"}]
      /\ holding \in [step : {"none", "create", "wakeups"}, runs : SUBSET RunIds]
      /\ invokable \subseteq Agents /\ held \in BOOLEAN /\ ready \in BOOLEAN
      /\ ends = {} /\ updates = {}
  BY DEF Init, NoRequest
<1> QED
  BY <1>1, <1>2, <1>3, <1>4, <1>5 DEF TypeInv, TypeOK

LEMMA TypeStep == TypeInv /\ [Next]_vars => TypeInv'
<1> SUFFICES ASSUME TypeInv, [Next]_vars PROVE TypeInv'
  OBVIOUS
<1>1. Grows(runs')
  BY RunsStep
<1>2. runs' \in Seq(RunRows) /\ Len(runs') <= MaxRuns
  BY <1>1 DEF Grows
<1>3. issue' \in IssueRows'
  BY <1>1, IssueStep, IssueTyped
<1>4. ends' \subseteq EndRecords'
  BY EndsStep DEF EndOK
<1>5. left'["row"] <= MaxRuns
  BY LeftStep DEF TypeInv
<1>6. TypeOK'
  BY <1>2, <1>3, <1>4, PostedStep, DeferredStep, WorkStep, WorldStep, HoldingStep, LeftStep,
     UpdatesStep
  DEF TypeOK, RunRows, Wakes
<1> QED
  BY <1>5, <1>6, EndsStep, UpdatesStep DEF TypeInv

THEOREM TypeInvariant == Spec => []TypeInv
  BY TypeInit, TypeStep, PTL DEF Spec

(* The rows, the issue and what the process has in hand are well formed for  *)
(* any number of agents, runs, retries and outside events: in particular a   *)
(* run is retried at most once for a lost process, and whoever escalates has *)
(* seen an assignee.                                                         *)
THEOREM TypesKept == Spec => []TypeOK
  BY TypeInvariant, PTL DEF TypeInv

(* A run that ended stays ended, whichever of the claim, the executor, a     *)
(* cancellation, the reaper and the retry timer writes its row last          *)
(* (heartbeat.ts setRunStatus, which does not look at the status), but for   *)
(* the reaper's note on a detached child process.                            *)
THEOREM EndedRunsStayEnded == Spec => TerminalIsFinal
<1>1. TypeInv /\ [Next]_vars => [\A r \in RunIds : Terminal(r) => Terminal(r)' \/ Revived(r)]_vars
  <2> SUFFICES ASSUME TypeInv, [Next]_vars, NEW r \in RunIds, Terminal(r), ~Revived(r)
               PROVE  Terminal(r)'
    OBVIOUS
  <2>1. Grows(runs')
    BY RunsStep
  <2>2. r \in 1..Len(runs')
    BY <2>1, Numbers
  <2> QED
    BY <2>1, <2>2 DEF Grows, Terminal, RunIds
<1> QED
  BY <1>1, TypeInvariant, PTL DEF Spec, TerminalIsFinal

(* Once the checkout of an issue is on an issue in progress and of a run of  *)
(* the assignee, it stays so, whatever the updates, releases, checkouts,     *)
(* endings and escalations under way have read, until a PATCH that names the *)
(* assignee it has read is written over another (issues.ts update).          *)
THEOREM CheckoutIsTheOwners == Spec => CheckoutNamesOwner
<1>1. TypeInv /\ [Next]_vars => [OwnerNamed => OwnerNamed' \/ StaleAssignment]_vars
  <2> SUFFICES ASSUME TypeInv, [Next]_vars, OwnerNamed, issue'.checkout # NoRun, ~StaleAssignment
               PROVE  /\ issue'.status = "in_progress"
                      /\ runs'[issue'.checkout].agent = issue'.assignee
    BY DEF OwnerNamed
  <2>1. Grows(runs') /\ IssueChange /\ issue \in IssueRows
    BY RunsStep, IssueStep, Numbers
  <2>2. \A r \in RunIds : runs'[r].agent = runs[r].agent
    BY <2>1 DEF Grows
  <2>3. issue.checkout # NoRun => issue.checkout \in RunIds
    BY <2>1, Numbers DEF IssueRows, NoRun
  <2>4. CASE Relocked
    BY <2>1, <2>2, <2>3, <2>4 DEF Relocked, Locked, IssueRows, OwnerNamed
  <2>5. CASE Taken
    <3>1. PICK r \in RunIds, key \in Agents \cup {NoAgent} :
            /\ issue.assignee = runs[r].agent
            /\ issue' = [Locked(issue, r, key) EXCEPT !.status = "in_progress", !.checkout = r]
      BY <2>5 DEF Taken
    <3> QED
      BY <2>1, <2>2, <3>1 DEF Locked, IssueRows
  <2>6. CASE Moved
    BY <2>6 DEF Moved
  <2>7. CASE Started
    BY <2>1, <2>2, <2>3, <2>7 DEF Started, IssueRows, OwnerNamed
  <2> QED
    BY <2>1, <2>4, <2>5, <2>6, <2>7 DEF IssueChange, Misassigned
<1> QED
  BY <1>1, TypeInvariant, PTL DEF Spec, CheckoutNamesOwner

(* A step that ends a run leaves the checkout as it is.                      *)
LEMMA EndsOrMoves ==
    ASSUME TypeInv, [Next]_vars
    PROVE  issue'.checkout = issue.checkout \/ Ended' = Ended
<1>1. TypeOK /\ issue \in IssueRows /\ Len(runs) \in Nat /\ RunIds = 1..Len(runs)
  BY RunsStep, Numbers DEF TypeInv
<1>2. Unlocked(issue).checkout = issue.checkout
      /\ \A r, a : Locked(issue, r, a).checkout = issue.checkout
  BY DEF Unlocked, Locked
<1>3. CASE UNCHANGED runs
  BY <1>3 DEF Ended, Terminal, RunIds
<1>4. ASSUME NEW row \in RunRows, runs' = Append(runs, row), row.status \in LiveStatuses
      PROVE  Ended' = Ended
  <2>1. /\ Len(runs') = Len(runs) + 1 /\ runs'[Len(runs) + 1] = row
        /\ \A r \in RunIds : runs'[r] = runs[r]
    BY <1>1, <1>4, AppendProperties DEF TypeOK
  <2>2. RunIds' = RunIds \cup {Len(runs) + 1}
    BY <1>1, <2>1 DEF RunIds
  <2>3. \A r \in RunIds' : Terminal(r)' <=> r \in RunIds /\ Terminal(r)
    BY <1>1, <1>4, <2>1, <2>2, StatusSets DEF Terminal
  <2> QED
    BY <2>2, <2>3 DEF Ended
<1>5. CASE \E w \in posted : EnqueueWakeup(w)
  <2>1. UNCHANGED issue \/ issue' = IssueSeized
    BY <1>5 DEF EnqueueWakeup, WakeRefused, WakeSkipped, WakeQueued, WakeCoalesced, WakeDeferred,
                rows
  <2> QED
    BY <1>2, <2>1 DEF IssueSeized
<1>6. ASSUME NEW e \in ends, EndingStep(e)
      PROVE  issue'.checkout = issue.checkout \/ Ended' = Ended
  <2>1. CASE WriteStatus(e)
    BY <2>1 DEF WriteStatus
  <2>2. CASE ReleasePromotes(e)
    <3>1. deferred[NextWake] \in Wakes
      BY <1>1, <2>2, NextWakeTyped DEF ReleasePromotes
    <3>2. /\ NewRun(deferred[NextWake]) \in RunRows
          /\ NewRun(deferred[NextWake]).status \in LiveStatuses
      BY <3>1, NewRunTyped, StatusSets DEF NewRun
    <3> QED
      BY <1>4, <2>2, <3>2 DEF ReleasePromotes
  <2>3. CASE ReleaseRecovers(e) \/ RetryAfterLoss(e) \/ ScheduleRetry(e) \/ ClearLock(e)
    BY <1>2, <2>3 DEF ReleaseRecovers, RetryAfterLoss, ScheduleRetry, ClearLock, Handed
  <2>4. CASE ReleaseRefused(e) \/ ReleaseOnly(e) \/ Escalate(e) \/ Reblock(e)
    BY <1>3, <2>4 DEF ReleaseRefused, ReleaseOnly, Escalate, Reblock, rows
  <2> QED
    BY <1>6, <2>1, <2>2, <2>3, <2>4 DEF EndingStep
<1>7. CASE \E r \in RunIds : RunStep(r)
  <2>1. PICK r \in RunIds : RunStep(r)
    BY <1>7
  <2>2. CASE ClaimUpdate(r)
    BY <2>2 DEF ClaimUpdate
  <2>3. CASE UNCHANGED runs
    BY <1>3, <2>3
  <2> QED
    BY <2>1, <2>2, <2>3
    DEF RunStep, ClaimGates, StampLock, BeginExecution, AdapterReturns, rows
<1>8. CASE \E r \in RunIds : PromoteRetry(r)
  BY <1>2, <1>8 DEF PromoteRetry
<1>9. CASE \/ CreateHold \/ CancelWakeups \/ Dispatch \/ ReconcileFailed
           \/ \E r \in RunIds : Reap(r) \/ ReapDetached(r)
           \/ \E u \in updates : WriteUpdate(u)
  BY <1>3, <1>9 DEF CreateHold, CancelWakeups, Reap, ReapDetached, Dispatch, ReconcileFailed,
                    WriteUpdate, rows
<1>10. CASE Environment
  BY <1>3, <1>10
  DEF Environment, Comment, Assign, PauseAgent, ResumeAgent, SetStatus, CancelRun, Release, Request,
      PreviewHold, ReleaseHold, Block, Unblock, Crash, ReconcileProductive, rows
<1> QED
  BY <1>3, <1>5, <1>6, <1>7, <1>8, <1>9, <1>10 DEF Next, Server, Scheduler, vars, rows

(* The reaper's note brings back at most the run it is about.                *)
LEMMA RevivesOne ==
    ASSUME TypeInv, NEW r, Revived(r)
    PROVE  r \in RunIds /\ Ended' = Ended \ {r} /\ UNCHANGED issue
<1>1. PICK e \in ends : WriteStatus(e) /\ e.by = "detached" /\ e.run = r
  BY DEF Revived
<1>2. r \in RunIds /\ e.status = "running" /\ runs \in [RunIds -> RunRows] /\ RunIds = 1..Len(runs)
  BY <1>1, RunsTyped DEF TypeInv, EndOK, EndRecords
<1>3. /\ Len(runs') = Len(runs)
      /\ \A s \in RunIds : runs'[s].status = IF s = r THEN "running" ELSE runs[s].status
  BY <1>1, <1>2 DEF WriteStatus, RunRows, TypeInv, TypeOK
<1> QED
  BY <1>1, <1>2, <1>3 DEF WriteStatus, Ended, Terminal, RunIds, TerminalStatuses

LEMMA OwnerStep ==
    ASSUME TypeInv, [Next]_vars
    PROVE  [Owner!Next]_<<issue.checkout, Ended>>
<1>1. /\ Grows(runs') /\ IssueChange /\ issue \in IssueRows
      /\ Len(runs) \in Nat /\ Len(runs') \in Nat /\ RunIds = 1..Len(runs)
      /\ Len(runs) <= Len(runs') /\ Len(runs') <= MaxRuns /\ MaxRuns \in Nat
  BY RunsStep, IssueStep, Numbers, IssueExecutionAssumption DEF Grows
<1>2. CASE UNCHANGED issue.checkout
  <2>1. CASE \E r : Revived(r)
    <3>1. PICK r : Revived(r)
      BY <2>1
    <3>2. r \in 1..MaxRuns /\ Ended' = Ended \ {r}
      BY <1>1, <3>1, RevivesOne
    <3> QED
      BY <1>2, <3>2 DEF Owner!Next, Owner!Revive
  <2>2. CASE \A r : ~Revived(r)
    <3> DEFINE over == Ended' \ Ended
    <3>1. Ended \subseteq Ended'
      BY <1>1, <2>2 DEF Ended, Terminal, RunIds, Grows
    <3>2. Ended' \subseteq 1..MaxRuns
      BY <1>1 DEF Ended, RunIds
    <3>3. Ended' = Ended \cup over /\ over \cap Ended = {} /\ over \in SUBSET (1..MaxRuns)
      BY <3>1, <3>2
    <3> HIDE DEF over
    <3> QED
      BY <1>2, <3>3 DEF Owner!Next, Owner!End
  <2> QED
    BY <2>1, <2>2
<1>3. CASE issue'.checkout # issue.checkout /\ Ended' = Ended
  <2>1. CASE Relocked \/ Started \/ Misassigned
    BY <1>1, <1>3, <2>1 DEF Relocked, Started, Misassigned, Locked, IssueRows
  <2>2. CASE Taken
    <3>1. PICK r \in RunIds : /\ issue.checkout \in {NoRun, r} \/ Terminal(issue.checkout)
                              /\ issue'.checkout = r
      <4>1. PICK r \in RunIds, key \in Agents \cup {NoAgent} :
              /\ issue.checkout \in {NoRun, r} \/ Terminal(issue.checkout)
              /\ issue' = [Locked(issue, r, key) EXCEPT !.status = "in_progress", !.checkout = r]
        BY <2>2 DEF Taken
      <4>2. issue'.checkout = r
        BY <1>1, <4>1 DEF Locked, IssueRows
      <4> QED
        BY <4>1, <4>2
    <3>2. issue.checkout \in Ended \cup {NoRun}
      BY <1>3, <3>1 DEF Ended, Terminal
    <3>3. r \in 1..MaxRuns
      BY <1>1
    <3> QED
      BY <1>3, <3>1, <3>2, <3>3 DEF Owner!Next, Owner!Take
  <2>3. CASE Moved
    <3>1. issue'.checkout = NoRun
      BY <2>3 DEF Moved
    <3> QED
      BY <1>3, <3>1 DEF Owner!Next, Owner!Lose
  <2> QED
    BY <1>1, <2>1, <2>2, <2>3 DEF IssueChange
<1> QED
  BY <1>2, <1>3, EndsOrMoves

(* IssueExecution implements IssueOwner too: whatever retries, promotions,   *)
(* recoveries and escalations do with the issue, its checkout never passes   *)
(* straight from a live run to another (issues.ts checkout and update); a    *)
(* run that the reaper's note revives is a live run again.                   *)
THEOREM OwnerImplemented == Spec => ImplementsOwner
<1>1. Init => Owner!Init
  BY DEF Init, Owner!Init, Ended, RunIds, Terminal
<1>2. TypeInv /\ [Next]_vars => [Owner!Next]_<<issue.checkout, Ended>>
  BY OwnerStep
<1> QED
  BY <1>1, <1>2, TypeInvariant, PTL DEF Spec, ImplementsOwner, Owner!Spec

(* A closed issue is reopened by a person, or by one of the two writers that *)
(* do not look at its status, a release and an escalation.                   *)
THEOREM ClosedUntilReopened == Spec => ReopenedOnPurpose
<1>1. TypeInv /\ [Next]_vars
        => [issue.status \in Closed /\ issue'.status \notin Closed => ByPerson \/ Unlooked]_vars
  <2> SUFFICES ASSUME TypeInv, [Next]_vars, issue.status \in Closed, issue'.status \notin Closed
               PROVE  OnPurpose
    BY DEF OnPurpose
  <2>1. IssueChange /\ issue \in IssueRows
    BY RunsStep, IssueStep, Numbers
  <2>2. ~Relocked
    BY <2>1 DEF Relocked, Locked, IssueRows
  <2>3. ~Taken
    BY DEF Taken
  <2> QED
    BY <2>1, <2>2, <2>3 DEF IssueChange, Moved, Started, Misassigned, IssueRows
<1> QED
  BY <1>1, TypeInvariant, PTL DEF Spec, ReopenedOnPurpose

-----------------------------------------------------------------------------
(* The execution lock. A run that has succeeded or failed was executed, so   *)
(* nobody is about to stamp it; and it keeps the lock only as long as one of *)
(* its endings has yet to let go of it.  An escalation, which may leave the  *)
(* issue alone, comes after that.                                            *)
Over(r) == runs[r].status \in {"succeeded", "failed"}
Begun(r) == runs[r].status \in {"running"} \cup TerminalStatuses
Decided(e) == e.status # "cancelled" /\ e.step = "write"
LetsGo(e, r) == e.run = r /\ e.step \notin {"escalate", "reblock"}

LockInv ==
    /\ \A r \in (1..MaxRuns) \ RunIds : work[r] = "none"
    /\ \A r \in RunIds : /\ Over(r) => work[r] = "none"
                         /\ work[r] \in {"stamp", "start", "adapter"} => Begun(r)
    /\ \A e \in ends : /\ Decided(e) => work[e.run] = "none" /\ Begun(e.run)
                       /\ e.step # "write" => Terminal(e.run)
    /\ issue.lock # NoRun /\ Over(issue.lock) => \E e \in ends : LetsGo(e, issue.lock)

(* The reaper's note overtakes the end of the run it is about.               *)
Revives == \E r \in RunIds : Terminal(r) /\ Revived(r)

(* No row but those of retries and cancellations changes its status, and new *)
(* rows are live.                                                            *)
StatusFrame ==
    /\ \A r \in RunIds : \/ runs'[r].status \in {runs[r].status, "cancelled"}
                         \/ runs[r].status = "scheduled_retry" /\ runs'[r].status = "queued"
    /\ \A r \in RunIds' \ RunIds : runs'[r].status \in LiveStatuses

LEMMA FrameAppend ==
    ASSUME TypeOK, NEW old \in Seq(RunRows), Len(old) = Len(runs),
           \A r \in RunIds : old[r].status \in {runs[r].status, "cancelled"},
           NEW row \in RunRows, row.status \in LiveStatuses, runs' = Append(old, row)
    PROVE  StatusFrame
<1>1. Len(runs) \in Nat /\ RunIds = 1..Len(runs)
  BY RunsTyped
<1>2. /\ Len(runs') = Len(runs) + 1
      /\ \A i \in 1..Len(runs) : runs'[i] = old[i]
      /\ runs'[Len(runs) + 1] = row
  BY <1>1, AppendProperties
<1>3. RunIds' \ RunIds = {Len(runs) + 1}
  BY <1>1, <1>2 DEF RunIds
<1> QED
  BY <1>1, <1>2, <1>3 DEF StatusFrame

LEMMA SweptStatus ==
    ASSUME TypeOK
    PROVE  \A r \in RunIds : RunsSwept[r].status \in {runs[r].status, "cancelled"}
<1>1. \A r \in RunIds : runs[r] \in RunRows
  BY RunsTyped
<1> QED
  BY <1>1 DEF RunsSwept, RunRows

LEMMA FrameRow ==
    ASSUME TypeOK, NEW r \in RunIds, NEW row, runs' = [runs EXCEPT ![r] = row],
           \/ row.status \in {runs[r].status, "cancelled"}
           \/ runs[r].status = "scheduled_retry" /\ row.status = "queued"
    PROVE  StatusFrame
<1>1. /\ runs \in [RunIds -> RunRows] /\ Len(runs) \in Nat /\ RunIds = 1..Len(runs)
  BY RunsTyped
<1>2. \A s \in RunIds : runs'[s] = IF s = r THEN row ELSE runs[s]
  BY <1>1
<1>3. Len(runs') = Len(runs)
  BY DEF TypeOK
<1> QED
  BY <1>1, <1>2, <1>3 DEF StatusFrame, RunIds

LEMMA FrameSame ==
    ASSUME UNCHANGED runs
    PROVE  StatusFrame
  BY DEF StatusFrame, RunIds

LEMMA WakeFrame ==
    ASSUME TypeInv, NEW w \in posted, EnqueueWakeup(w)
    PROVE  StatusFrame
<1>1. /\ TypeOK /\ w \in Wakes /\ RunsSwept \in Seq(RunRows) /\ Len(RunsSwept) = Len(runs)
      /\ RunIds = 1..Len(runs) /\ Len(runs) \in Nat /\ RunsSwept \in [RunIds -> RunRows]
      /\ \A r \in RunIds : runs[r] \in RunRows
  BY GrowsBySweep, RunsTyped DEF TypeInv, TypeOK, Grows
<1>2. CASE WakeRefused(w)
  BY <1>2, FrameSame DEF WakeRefused, rows
<1>3. CASE WakeSkipped(w) \/ WakeDeferred(w)
  <2>1. runs' = RunsSwept /\ RunIds' = RunIds
    BY <1>1, <1>3 DEF WakeSkipped, WakeDeferred, RunIds
  <2> QED
    BY <1>1, <2>1, SweptStatus DEF StatusFrame
<1>4. CASE WakeQueued(w)
  <2>1. NewRun(w).status \in LiveStatuses /\ NewRun(w) \in RunRows
    BY <1>1, NewRunTyped DEF NewRun, LiveStatuses
  <2> QED
    BY <1>1, <1>4, <2>1, SweptStatus, FrameAppend DEF WakeQueued
<1>5. CASE WakeCoalesced(w)
  <2>1. Active \in RunIds
    BY <1>1, <1>5, ActiveTyped DEF WakeCoalesced
  <2>2. runs' = [RunsSwept EXCEPT ![Active] = Merge(RunsSwept[Active], w)]
    BY <1>5 DEF WakeCoalesced
  <2>3. Merge(RunsSwept[Active], w).status = RunsSwept[Active].status
    BY <1>1, <2>1, MergeTyped
  <2>4. Len(runs') = Len(runs) /\ \A r \in RunIds : runs'[r].status = RunsSwept[r].status
    BY <1>1, <2>1, <2>2, <2>3
  <2> QED
    BY <1>1, <2>4, SweptStatus DEF StatusFrame, RunIds
<1> QED
  BY <1>2, <1>3, <1>4, <1>5 DEF EnqueueWakeup

LEMMA EndingFrame ==
    ASSUME TypeInv, NEW e \in ends, EndingStep(e), ~WriteStatus(e)
    PROVE  StatusFrame
<1>1. /\ TypeOK /\ EndOK(e) /\ e.run \in RunIds /\ runs[e.run] \in RunRows
      /\ runs \in Seq(RunRows) /\ Grows(runs')
  BY RunsTyped, EndingGrows DEF TypeInv, TypeOK, EndOK, EndRecords
<1>2. ASSUME NEW row, runs' = Append(runs, row), row.status \in LiveStatuses
      PROVE  StatusFrame
  <2>1. Len(runs) \in Nat /\ RunIds = 1..Len(runs)
    BY <1>1, RunsTyped
  <2>2. /\ Len(runs') = Len(runs) + 1 /\ runs'[Len(runs) + 1] = row
        /\ \A r \in RunIds : runs'[r] = runs[r]
    BY <1>1, <1>2, <2>1
  <2>3. RunIds' \ RunIds = {Len(runs) + 1}
    BY <2>1, <2>2 DEF RunIds
  <2> QED
    BY <1>2, <2>2, <2>3 DEF StatusFrame
<1>3. \A w : NewRun(w).status \in LiveStatuses
  BY DEF NewRun, LiveStatuses
<1>4. CASE RetryAfterLoss(e)
  BY <1>1, <1>2, <1>4 DEF RetryAfterLoss, RunRows, LiveStatuses
<1>5. CASE ScheduleRetry(e) /\ runs[e.run].attempt < MaxAttempts
  BY <1>1, <1>2, <1>5 DEF ScheduleRetry, RunRows, LiveStatuses
<1>6. CASE ReleasePromotes(e) \/ ReleaseRecovers(e)
  BY <1>2, <1>3, <1>6 DEF ReleasePromotes, ReleaseRecovers
<1>7. CASE UNCHANGED runs
  BY <1>7, FrameSame
<1> QED
  BY <1>4, <1>5, <1>6, <1>7
  DEF EndingStep, ClearLock, ScheduleRetry, ReleaseRefused, ReleaseOnly, Escalate, Reblock, rows

(* What keeps the statuses and the work keeps the invariant, if new endings  *)
(* are cancellations or of running runs, a lock that moves goes to a live    *)
(* run, and one that stays keeps an ending if it has had one.                *)
LEMMA LockKept ==
    ASSUME TypeInv, LockInv, Grows(runs'), StatusFrame, UNCHANGED work,
           \A e \in ends' \ ends :
              /\ e.run \in RunIds
              /\ Decided(e) => work[e.run] = "none" /\ Begun(e.run)
              /\ e.step # "write" => Terminal(e.run),
           \/ issue'.lock \in {issue.lock, NoRun}
           \/ issue'.lock \in Live
           \/ issue'.lock \in RunIds' \ RunIds,
           issue'.lock = issue.lock =>
              \A e \in ends \ ends' :
                 LetsGo(e, issue.lock) => \/ ~Over(e.run)
                                          \/ \E x \in ends' : LetsGo(x, issue.lock)
    PROVE  LockInv'
<1>1. /\ RunIds \subseteq RunIds' /\ RunIds' \subseteq 1..MaxRuns
      /\ \A e \in ends : e.run \in RunIds
      /\ issue.lock # NoRun => issue.lock \in RunIds
      /\ \A r \in RunIds : runs[r].status \in LiveStatuses \cup TerminalStatuses
      /\ NoRun \notin RunIds
  <2>1. RunIds \subseteq RunIds' /\ RunIds' \subseteq 1..MaxRuns
    BY Numbers, IssueExecutionAssumption DEF RunIds, Grows
  <2>2. (issue.lock # NoRun => issue.lock \in RunIds) /\ NoRun \notin RunIds
    BY Numbers DEF IssueRows, NoRun
  <2> QED
    BY <2>1, <2>2, Numbers DEF TypeInv, EndOK, EndRecords, RunRows
<1>2. \A r \in RunIds : /\ Over(r)' => Over(r)
                        /\ Begun(r) => Begun(r)'
                        /\ Terminal(r) => Terminal(r)'
  BY <1>1 DEF StatusFrame, Over, Begun, Terminal, TerminalStatuses
<1>3. \A r \in RunIds' \ RunIds : ~Over(r)' /\ work[r] = "none"
  BY <1>1 DEF StatusFrame, Over, LiveStatuses, LockInv
<1>4. \A r \in (1..MaxRuns) \ RunIds' : work'[r] = "none"
  BY <1>1 DEF LockInv
<1>5. \A r \in RunIds' : /\ Over(r)' => work'[r] = "none"
                         /\ work'[r] \in {"stamp", "start", "adapter"} => Begun(r)'
  BY <1>2, <1>3 DEF LockInv
<1>6. \A e \in ends' : /\ Decided(e) => work'[e.run] = "none" /\ Begun(e.run)'
                       /\ e.step # "write" => Terminal(e.run)'
  BY <1>1, <1>2 DEF LockInv
<1>7. ASSUME NEW l, l = issue'.lock, l # NoRun, runs'[l].status \in {"succeeded", "failed"}
      PROVE  \E e \in ends' : LetsGo(e, l)
  <2>1. CASE l = issue.lock
    <3>1. l \in RunIds /\ Over(l)
      BY <1>1, <1>2, <1>7, <2>1 DEF Over
    <3>2. PICK e \in ends : LetsGo(e, l)
      BY <1>7, <2>1, <3>1 DEF LockInv
    <3> QED
      BY <1>7, <2>1, <3>1, <3>2 DEF LetsGo
  <2>2. CASE l \in Live
    BY <1>2, <1>7, <2>2 DEF Over, Live, LiveStatuses
  <2>3. CASE l \in RunIds' \ RunIds
    BY <1>3, <1>7, <2>3 DEF Over
  <2> QED
    BY <1>7, <2>1, <2>2, <2>3
<1> QED
  BY <1>4, <1>5, <1>6, <1>7 DEF LockInv, Over, Begun, Decided, LetsGo, Terminal, RunIds

LEMMA LockByWake ==
    ASSUME TypeInv, LockInv, NEW w \in posted, EnqueueWakeup(w)
    PROVE  LockInv'
<1>1. Grows(runs') /\ StatusFrame /\ TypeOK
  BY WakeGrows, WakeFrame DEF TypeInv
<1>2. UNCHANGED <<work, ends>>
  BY DEF EnqueueWakeup, WakeRefused, WakeSkipped, WakeQueued, WakeCoalesced, WakeDeferred, Deliver
<1>3. issue' \in {issue, IssueSeized}
  BY DEF EnqueueWakeup, WakeRefused, WakeSkipped, WakeQueued, WakeCoalesced, WakeDeferred, rows
<1>4. Active # NoRun => Active \in Live
  BY <1>1, ActiveTyped DEF Live
<1>5. IssueSeized.lock \in {issue.lock, NoRun} \/ IssueSeized.lock \in Live
  BY <1>1, <1>4 DEF IssueSeized, Locked, Unlocked, TypeOK, IssueRows
<1> QED
  BY <1>1, <1>2, <1>3, <1>5, LockKept

LEMMA LockByEnding ==
    ASSUME TypeInv, LockInv, NEW e \in ends, EndingStep(e), ~WriteStatus(e)
    PROVE  LockInv'
<1>1. /\ Grows(runs') /\ StatusFrame /\ issue \in IssueRows /\ e.run \in RunIds
      /\ e \in EndRecords /\ NoRun \notin RunIds
  BY EndingGrows, EndingFrame, Numbers DEF TypeInv, EndOK, EndRecords, NoRun
<1>2. UNCHANGED work
  BY DEF EndingStep, ClearLock, RetryAfterLoss, ScheduleRetry, ReleaseRefused, ReleasePromotes,
         ReleaseRecovers, ReleaseOnly, Escalate, Reblock
<1>3. e.step # "write" /\ Terminal(e.run)
  BY DEF EndingStep, ClearLock, RetryAfterLoss, ScheduleRetry, ReleaseRefused, ReleasePromotes,
         ReleaseRecovers, ReleaseOnly, Releasing, Escalate, Reblock, LockInv
<1>4. \A x \in ends' \ ends : x.run = e.run /\ x.step # "write"
  <2>1. ends' \ ends \subseteq {[e EXCEPT !.step = "release"], Escalating(e),
                               [e EXCEPT !.step = "reblock"]}
    BY DEF EndingStep, ClearLock, RetryAfterLoss, ScheduleRetry, ReleaseRefused, ReleasePromotes,
           ReleaseRecovers, ReleaseOnly, Escalate, Reblock, Advance, Finish
  <2> QED
    BY <1>1, <2>1 DEF Escalating, EndRecords
<1>5. ends \ ends' \subseteq {e}
  BY DEF EndingStep, ClearLock, RetryAfterLoss, ScheduleRetry, ReleaseRefused, ReleasePromotes,
         ReleaseRecovers, ReleaseOnly, Escalate, Reblock, Advance, Finish
<1>6. ASSUME NEW row, runs' = Append(runs, row)
      PROVE  Len(runs) + 1 \in RunIds' \ RunIds
  <2>1. runs \in Seq(RunRows) /\ Len(runs) \in Nat
    BY RunsTyped DEF TypeInv, TypeOK
  <2>2. Len(runs') = Len(runs) + 1
    BY <1>6, <2>1
  <2> QED
    BY <2>1, <2>2 DEF RunIds
<1>8. /\ issue'.lock \in {issue.lock, NoRun} \/ issue'.lock \in RunIds' \ RunIds
      /\ issue'.lock = issue.lock /\ LetsGo(e, issue.lock) =>
            \/ issue.lock = NoRun
            \/ \E x \in ends' : LetsGo(x, issue.lock)
  <2>1. CASE ClearLock(e)
    BY <1>1, <2>1 DEF ClearLock, Unlocked, IssueRows, LetsGo
  <2>2. CASE RetryAfterLoss(e) \/ ReleasePromotes(e) \/ ReleaseRecovers(e)
    <3>1. Len(runs) + 1 \in RunIds' \ RunIds
      BY <1>6, <2>2 DEF RetryAfterLoss, ReleasePromotes, ReleaseRecovers
    <3>2. /\ issue'.lock \in {issue.lock, NoRun, Len(runs) + 1}
          /\ issue'.lock = issue.lock => e.run # issue.lock \/ issue.lock = Len(runs) + 1
      BY <1>1, <2>2
      DEF RetryAfterLoss, ReleasePromotes, ReleaseRecovers, Handed, Locked, Unlocked, Vacated,
          IssueRows
    <3> QED
      BY <1>1, <3>1, <3>2 DEF LetsGo
  <2>3. CASE ScheduleRetry(e)
    <3>1. \E x \in ends' : LetsGo(x, e.run)
      <4>1. [e EXCEPT !.step = "release"] \in ends'
        BY <2>3 DEF ScheduleRetry, Advance
      <4>2. LetsGo([e EXCEPT !.step = "release"], e.run)
        BY <1>1 DEF EndRecords, LetsGo
      <4> QED
        BY <4>1, <4>2
    <3>2. CASE runs[e.run].attempt < MaxAttempts
      <4>1. Len(runs) + 1 \in RunIds' \ RunIds
        BY <1>6, <2>3, <3>2 DEF ScheduleRetry
      <4>2. issue'.lock \in {issue.lock, Len(runs) + 1}
        BY <1>1, <2>3, <3>2 DEF ScheduleRetry, Handed, Locked, IssueRows
      <4> QED
        BY <3>1, <4>1, <4>2 DEF LetsGo
    <3>3. CASE ~(runs[e.run].attempt < MaxAttempts)
      BY <2>3, <3>1, <3>3 DEF ScheduleRetry, LetsGo
    <3> QED
      BY <3>2, <3>3
  <2>4. CASE ReleaseRefused(e) \/ ReleaseOnly(e)
    BY <1>1, <2>4 DEF ReleaseRefused, ReleaseOnly, Unlocked, IssueRows, LetsGo, rows
  <2>5. CASE Escalate(e) \/ Reblock(e)
    BY <1>1, <2>5 DEF Escalate, Reblock, Vacated, Unlocked, IssueRows, LetsGo
  <2> QED
    BY <2>1, <2>2, <2>3, <2>4, <2>5 DEF EndingStep
<1>9. \A x \in ends' \ ends : x.run \in RunIds /\ Terminal(x.run) /\ ~Decided(x)
  BY <1>1, <1>3, <1>4 DEF Decided
<1>10. issue'.lock = issue.lock =>
         \A x \in ends \ ends' :
            LetsGo(x, issue.lock) => ~Over(x.run) \/ \E y \in ends' : LetsGo(y, issue.lock)
  BY <1>1, <1>5, <1>8 DEF LetsGo
<1> QED
  BY <1>1, <1>2, <1>8, <1>9, <1>10, LockKept

(* The reaper's note changes nothing where it overtakes no end.              *)
LEMMA LockByNote ==
    ASSUME TypeInv, LockInv, NEW e \in ends, WriteStatus(e), e.by = "detached", ~Revives
    PROVE  LockInv'
<1>1. /\ EndOK(e) /\ e.run \in RunIds /\ e.status = "running" /\ runs[e.run] \in RunRows
      /\ runs \in [RunIds -> RunRows]
  BY RunsTyped DEF TypeInv, EndOK, EndRecords
<1>2. ~Terminal(e.run)
  BY <1>1 DEF Revives, Revived
<1>3. runs[e.run].status = "running"
  BY <1>1, <1>2 DEF LockInv, Decided, WriteStatus, Begun, Terminal
<1>4. runs' = runs
  <2>1. [runs[e.run] EXCEPT !.status = "running"] = runs[e.run]
    BY <1>1, <1>3 DEF RunRows
  <2> QED
    BY <1>1, <2>1 DEF WriteStatus
<1>5. Grows(runs') /\ StatusFrame
  BY <1>4, GrowsUnchanged, FrameSame DEF TypeInv
<1>6. UNCHANGED <<issue, work>> /\ ends' = ends \ {e}
  BY DEF WriteStatus, Finish
<1>7. ~Over(e.run)
  BY <1>3 DEF Over
<1> QED
  BY <1>5, <1>6, <1>7, LockKept

LEMMA LockByWriting ==
    ASSUME TypeInv, LockInv, NEW e \in ends, WriteStatus(e), e.by # "detached"
    PROVE  LockInv'
<1> DEFINE written == [e EXCEPT !.step = NextStep(e.by)]
<1>1. /\ e \in EndRecords /\ e.run \in RunIds /\ e.status \in TerminalStatuses
      /\ e.step = "write" /\ runs \in [RunIds -> RunRows]
      /\ \A r \in RunIds : runs[r] \in RunRows
  BY RunsTyped DEF WriteStatus, TypeInv, EndOK, EndRecords
<1>2. \A r \in RunIds : runs'[r].status = IF r = e.run THEN e.status ELSE runs[r].status
  BY <1>1 DEF WriteStatus, RunRows
<1>3. RunIds' = RunIds /\ UNCHANGED <<issue, work>> /\ ends' = (ends \ {e}) \cup {written}
  BY <1>1, RunsTyped DEF WriteStatus, Advance, TypeInv, RunIds
<1>4. written.run = e.run /\ written.step \notin {"write", "escalate", "reblock"}
  BY <1>1 DEF EndRecords, NextStep
<1>5. \A r \in RunIds : /\ Terminal(r) \/ r = e.run => Terminal(r)'
                        /\ Begun(r) \/ r = e.run => Begun(r)'
                        /\ Over(r)' => Over(r) \/ (r = e.run /\ Decided(e))
  BY <1>1, <1>2, <1>3 DEF Terminal, Begun, Over, Decided, TerminalStatuses
<1>6. \A r \in RunIds : /\ Over(r)' => work'[r] = "none"
                        /\ work'[r] \in {"stamp", "start", "adapter"} => Begun(r)'
  BY <1>3, <1>5 DEF LockInv
<1>7. \A x \in ends : x.run \in RunIds
  BY DEF TypeInv, EndOK, EndRecords
<1>8. \A x \in ends' : /\ Decided(x) => work'[x.run] = "none" /\ Begun(x.run)'
                       /\ x.step # "write" => Terminal(x.run)'
  BY <1>1, <1>3, <1>4, <1>5, <1>7 DEF LockInv, Decided
<1>9. ASSUME issue'.lock # NoRun, Over(issue.lock)'
      PROVE  \E x \in ends' : LetsGo(x, issue'.lock)
  <2>1. issue.lock \in RunIds
    BY <1>3, <1>9, Numbers, RunStepGrows DEF TypeInv, TypeOK, IssueRows, NoRun, RunIds
  <2>2. CASE issue.lock = e.run
    BY <1>3, <1>4, <2>2 DEF LetsGo
  <2>3. CASE issue.lock # e.run
    BY <1>3, <1>5, <1>9, <2>1, <2>3 DEF LockInv, LetsGo
  <2> QED
    BY <2>2, <2>3
<1> QED
  BY <1>3, <1>6, <1>8, <1>9 DEF LockInv, Over, Begun, Decided, LetsGo, Terminal

(* What a step of a run in hand needs: the run is alive or was cancelled, no *)
(* outcome of it is decided, and it may take the lock.                       *)
LEMMA LockByRun ==
    ASSUME TypeInv, LockInv, NEW r \in RunIds, RunStep(r)
    PROVE  LockInv'
<1>1. /\ RunIds' = RunIds /\ issue \in IssueRows /\ NoRun \notin RunIds /\ r \in 1..MaxRuns
      /\ issue.lock # NoRun => issue.lock \in RunIds
      /\ \A s \in RunIds : runs[s].status \in LiveStatuses \cup TerminalStatuses
      /\ \A e \in ends : e.run \in RunIds
      /\ work \in [1..MaxRuns -> {"none", "update", "stamp", "start", "adapter"}]
      /\ RunIds \subseteq 1..MaxRuns
  <2>1. Len(runs') = Len(runs)
    BY DEF RunStep, ClaimGates, ClaimUpdate, StampLock, BeginExecution, AdapterReturns, rows,
           TypeInv, TypeOK
  <2>2. Grows(runs') /\ RunIds' = RunIds
    BY <2>1, RunStepGrows DEF RunIds
  <2> QED
    BY <2>2, Numbers, RunsTyped DEF TypeInv, TypeOK, EndOK, EndRecords, RunRows, IssueRows, NoRun
<1>2. /\ ~Over(r)
      /\ work[r] = "none" => runs[r].status = "queued"
      /\ work[r] \in {"stamp", "start", "adapter"} => Begun(r)
  BY <1>1
  DEF RunStep, ClaimGates, ClaimUpdate, StampLock, BeginExecution, AdapterReturns, LockInv, Over,
      Begun, TerminalStatuses
<1>3. /\ \A s \in RunIds \ {r} : runs'[s].status = runs[s].status
      /\ \/ runs'[r].status = runs[r].status
         \/ runs[r].status = "queued" /\ runs'[r].status = "running"
  <2>1. runs \in [RunIds -> RunRows]
    BY RunsTyped DEF TypeInv
  <2>2. CASE ClaimUpdate(r) /\ runs[r].status = "queued"
    BY <2>1, <2>2 DEF ClaimUpdate, RunRows
  <2>3. CASE UNCHANGED runs
    BY <2>3
  <2> QED
    BY <2>2, <2>3
    DEF RunStep, ClaimGates, ClaimUpdate, StampLock, BeginExecution, AdapterReturns, rows
<1>4. \A s \in RunIds : /\ Over(s)' => Over(s) /\ s # r
                        /\ Begun(s) => Begun(s)'
                        /\ Terminal(s) => Terminal(s)'
  BY <1>1, <1>2, <1>3 DEF Over, Begun, Terminal, TerminalStatuses
<1>5. /\ work' \in [1..MaxRuns -> {"none", "update", "stamp", "start", "adapter"}]
      /\ \A s \in (1..MaxRuns) \ {r} : work'[s] = work[s]
      /\ work'[r] \in {"stamp", "start", "adapter"} => Begun(r)'
  <2>1. CASE ClaimGates(r)
    BY <1>1, <1>2, <1>4, <2>1 DEF ClaimGates, Goto
  <2>2. CASE ClaimUpdate(r)
    <3>1. CASE runs[r].status = "queued"
      <4>1. runs'[r].status = "running"
        BY RunsTyped, <2>2, <3>1 DEF ClaimUpdate, TypeInv, RunRows
      <4> QED
        BY <1>1, <2>2, <4>1 DEF ClaimUpdate, Goto, Begun
    <3>2. CASE runs[r].status # "queued"
      BY <1>1, <2>2, <3>2 DEF ClaimUpdate, Goto
    <3> QED
      BY <3>1, <3>2
  <2>3. CASE StampLock(r) \/ BeginExecution(r) \/ AdapterReturns(r)
    <3>1. Begun(r)'
      BY <1>1, <1>2, <1>4, <2>3 DEF StampLock, BeginExecution, AdapterReturns
    <3>2. \E step \in {"none", "start", "adapter"} : Goto(r, step)
      BY <2>3 DEF StampLock, BeginExecution, AdapterReturns
    <3> QED
      BY <1>1, <3>1, <3>2 DEF Goto
  <2> QED
    BY <2>1, <2>2, <2>3 DEF RunStep
<1>6. /\ ends \subseteq ends'
      /\ \A e \in ends' \ ends : /\ e.run = r /\ e.step = "write"
                                 /\ Decided(e) => work'[r] = "none" /\ Begun(r)
  <2>1. CASE ClaimGates(r) \/ ClaimUpdate(r) \/ StampLock(r)
    BY <2>1 DEF ClaimGates, ClaimUpdate, StampLock, Ending, Decided
  <2>2. CASE BeginExecution(r)
    <3>1. CASE UNCHANGED ends
      BY <3>1
    <3>2. CASE /\ ends' = ends \cup {Ending(r, "setup", "failed")}
               /\ Goto(r, "none") /\ runs[r].status = "running"
      <4>1. work'[r] = "none"
        BY <1>1, <3>2 DEF Goto
      <4> QED
        BY <3>2, <4>1 DEF Ending, Begun
    <3> QED
      BY <2>2, <3>1, <3>2 DEF BeginExecution
  <2>3. CASE AdapterReturns(r)
    <3>1. work'[r] = "none"
      BY <1>1, <2>3 DEF AdapterReturns, Goto
    <3>2. Begun(r)
      BY <1>2, <2>3 DEF AdapterReturns
    <3>3. \E by, status : ends' = ends \cup {Ending(r, by, status)}
      BY <2>3 DEF AdapterReturns
    <3> QED
      BY <3>1, <3>2, <3>3 DEF Ending
  <2> QED
    BY <2>1, <2>2, <2>3 DEF RunStep
<1>7. issue'.lock \in {issue.lock, NoRun, r}
  <2>1. CASE BeginExecution(r)
    BY <1>1, <2>1 DEF BeginExecution, CheckedOut, Unlocked, IssueRows
  <2>2. CASE ClaimGates(r) \/ ClaimUpdate(r) \/ StampLock(r) \/ AdapterReturns(r)
    BY <1>1, <2>2 DEF ClaimGates, ClaimUpdate, StampLock, AdapterReturns, rows, Locked, IssueRows
  <2> QED
    BY <2>1, <2>2 DEF RunStep
<1>8. \A s \in RunIds' : /\ Over(s)' => work'[s] = "none"
                         /\ work'[s] \in {"stamp", "start", "adapter"} => Begun(s)'
  BY <1>1, <1>4, <1>5 DEF LockInv
<1>9. \A s \in (1..MaxRuns) \ RunIds' : work'[s] = "none"
  BY <1>1, <1>5 DEF LockInv
<1>10. ASSUME NEW e \in ends'
       PROVE  /\ Decided(e) => work'[e.run] = "none" /\ Begun(e.run)'
              /\ e.step # "write" => e \in ends /\ Terminal(e.run) /\ Terminal(e.run)'
  <2>1. CASE e \in ends
    <3>1. Decided(e) => e.run # r
      BY <1>2, <2>1 DEF LockInv, Begun, TerminalStatuses
    <3> QED
      BY <1>1, <1>4, <1>5, <2>1, <3>1 DEF LockInv
  <2>2. CASE e \notin ends
    BY <1>4, <1>6, <1>10, <2>2
  <2> QED
    BY <2>1, <2>2
<1>11. ASSUME NEW l, l = issue'.lock, l # NoRun, runs'[l].status \in {"succeeded", "failed"}
       PROVE  \E e \in ends' : LetsGo(e, l)
  <2>1. l # r /\ l = issue.lock /\ l \in RunIds /\ Over(l)
    BY <1>1, <1>4, <1>7, <1>11 DEF Over
  <2> QED
    BY <1>6, <1>11, <2>1 DEF LockInv, LetsGo
<1> QED
  BY <1>8, <1>9, <1>10, <1>11 DEF LockInv, Over, Begun, Decided, LetsGo, Terminal, RunIds

LEMMA LockAside ==
    ASSUME TypeInv, LockInv, UNCHANGED <<runs, work>>, ends \subseteq ends',
           issue'.lock \in {issue.lock, NoRun},
           \A e \in ends' \ ends : /\ e.run \in RunIds /\ ~Decided(e)
                                   /\ e.step # "write" => Terminal(e.run)
    PROVE  LockInv'
<1>1. Grows(runs') /\ StatusFrame
  BY GrowsUnchanged, FrameSame DEF TypeInv
<1> QED
  BY <1>1, LockKept

LEMMA LockByScheduler ==
    ASSUME TypeInv, LockInv, NEW r \in RunIds, PromoteRetry(r) \/ Reap(r) \/ ReapDetached(r)
    PROVE  LockInv'
<1>1. issue \in IssueRows /\ runs[r] \in RunRows /\ TypeOK
  BY RunsTyped DEF TypeInv, TypeOK
<1>2. CASE PromoteRetry(r)
  <2>1. PICK status \in {"queued", "cancelled"} : runs' = [runs EXCEPT ![r].status = status]
    BY <1>2 DEF PromoteRetry
  <2>2. [runs[r] EXCEPT !.status = status].status = status
    BY <1>1 DEF RunRows
  <2>3. StatusFrame
    BY <1>1, <1>2, <2>1, <2>2, FrameRow DEF PromoteRetry
  <2>4. Grows(runs')
    BY <1>2, PromoteGrows
  <2>5. UNCHANGED <<work, ends>> /\ issue'.lock \in {issue.lock, NoRun}
    BY <1>1, <1>2 DEF PromoteRetry, memory, Unlocked, IssueRows
  <2> QED
    BY <2>3, <2>4, <2>5, LockKept
<1>3. CASE Reap(r) \/ ReapDetached(r)
  <2>1. /\ runs[r].status = "running" /\ work[r] = "none"
        /\ UNCHANGED <<runs, issue, work>>
        /\ \E by, status : ends' = ends \cup {Ending(r, by, status)}
    BY <1>3 DEF Reap, ReapDetached, Orphan, rows
  <2>2. Begun(r) /\ \A e \in ends' \ ends : e.run = r /\ e.step = "write"
    BY <2>1 DEF Ending, Begun
  <2>3. Grows(runs') /\ StatusFrame
    BY <1>1, <2>1, GrowsUnchanged, FrameSame
  <2> QED
    BY <2>1, <2>2, <2>3, LockKept
<1> QED
  BY <1>2, <1>3

LEMMA LockByOthers ==
    ASSUME TypeInv, LockInv, ~Crash,
           \/ CreateHold \/ CancelWakeups \/ Dispatch \/ ReconcileFailed \/ Environment
           \/ \E u \in updates : WriteUpdate(u)
    PROVE  LockInv'
<1>1. issue \in IssueRows /\ Live \subseteq RunIds
  BY DEF TypeInv, TypeOK, Live
<1>2. UNCHANGED <<runs, work>>
  BY DEF CreateHold, CancelWakeups, Dispatch, ReconcileFailed, ReconcileProductive, Environment,
         Comment, Assign, SetStatus, Release, Request, WriteUpdate, CancelRun, PauseAgent,
         ResumeAgent, PreviewHold, ReleaseHold, Block, Unblock, rows, memory
<1>3. issue'.lock \in {issue.lock, NoRun}
  <2>1. CASE \E u \in updates : WriteUpdate(u)
    BY <1>1, <2>1 DEF WriteUpdate, Written, Vacated, Unlocked, IssueRows
  <2>2. CASE UNCHANGED issue \/ issue' = Unlocked(issue)
    BY <1>1, <2>2 DEF Unlocked, IssueRows
  <2> QED
    BY <2>1, <2>2
    DEF CreateHold, CancelWakeups, Dispatch, ReconcileFailed, ReconcileProductive, Environment,
        Comment, Assign, SetStatus, Release, CancelRun, PauseAgent, ResumeAgent, PreviewHold,
        ReleaseHold, Block, Unblock, rows
<1>4. CASE UNCHANGED ends
  BY <1>2, <1>3, <1>4, LockAside
<1>5. CASE \E S \in SUBSET RunIds, by \in Enders :
              ends' = ends \cup {Ending(r, by, "cancelled") : r \in S}
  BY <1>2, <1>3, <1>5, LockAside DEF Ending, Decided
<1>6. CASE ReconcileFailed \/ ReconcileProductive
  <2>1. ends' \ ends \subseteq
            {Escalating(Ending(Len(runs), "reconcile", runs[Len(runs)].status))}
        /\ ends \subseteq ends'
    BY <1>6 DEF ReconcileFailed, ReconcileProductive, FollowUp
  <2>2. Len(runs) \in RunIds /\ Terminal(Len(runs))
    BY <1>6, RunsTyped DEF ReconcileFailed, ReconcileProductive, Terminal, TerminalStatuses, TypeInv
  <2> QED
    BY <1>2, <1>3, <2>1, <2>2, LockAside DEF Escalating, Ending, Decided
<1>7. CASE CreateHold
  <2>1. ends' = ends \cup {Ending(r, "api", "cancelled") : r \in holding.runs \cap Live}
    BY <1>7 DEF CreateHold
  <2>2. "api" \in Enders /\ holding.runs \cap Live \in SUBSET RunIds
    BY <1>1 DEF Enders
  <2> QED
    BY <1>5, <2>1, <2>2
<1>8. CASE \E a \in Agents : PauseAgent(a)
  <2>1. PICK a \in Agents :
          ends' = ends \cup {Ending(r, "sweep", "cancelled") : r \in {s \in Live : runs[s].agent = a}}
    BY <1>8 DEF PauseAgent
  <2>2. "sweep" \in Enders /\ {s \in Live : runs[s].agent = a} \in SUBSET RunIds
    BY <1>1 DEF Enders
  <2> QED
    BY <1>5, <2>1, <2>2
<1>9. CASE \E r \in RunIds : CancelRun(r)
  <2>1. PICK r \in RunIds : ends' = ends \cup {Ending(s, "api", "cancelled") : s \in {r}}
    BY <1>9 DEF CancelRun
  <2>2. "api" \in Enders /\ {r} \in SUBSET RunIds
    BY DEF Enders
  <2> QED
    BY <1>5, <2>1, <2>2
<1>10. CASE \E u \in updates : WriteUpdate(u)
  <2>1. PICK u \in updates :
            ends' = ends \cup {Ending(r, "api", "cancelled") : r \in {u.run} \cap Live}
    BY <1>10 DEF WriteUpdate
  <2>2. "api" \in Enders /\ {u.run} \cap Live \in SUBSET RunIds
    BY <1>1 DEF Enders
  <2> QED
    BY <1>5, <2>1, <2>2
<1> QED
  BY <1>4, <1>6, <1>7, <1>8, <1>9, <1>10
  DEF CancelWakeups, Dispatch, Environment, Comment, Assign, SetStatus, Release, Request,
      ResumeAgent, PreviewHold, ReleaseHold, Block, Unblock, memory

LEMMA LockSame ==
    ASSUME TypeInv, LockInv, UNCHANGED vars
    PROVE  LockInv'
<1>1. Grows(runs') /\ StatusFrame
  BY GrowsUnchanged, FrameSame DEF TypeInv, vars, rows
<1> QED
  BY <1>1, LockKept DEF vars, rows, memory

LEMMA LockStep ==
    ASSUME TypeInv, LockInv, [Next]_vars, ~Crash, ~Revives
    PROVE  LockInv'
<1>1. CASE \E e \in ends : EndingStep(e)
  BY <1>1, LockByEnding, LockByWriting, LockByNote
<1>2. CASE \E r \in RunIds : PromoteRetry(r) \/ Reap(r) \/ ReapDetached(r)
  BY <1>2, LockByScheduler
<1> QED
  BY <1>1, <1>2, LockSame, LockByWake, LockByRun, LockByOthers DEF Next, Server, Scheduler

(* Crashes that are not in the budget do not happen.                         *)
LEMMA CrashFree ==
    ASSUME TypeInv, [Next]_vars, left["crash"] = 0
    PROVE  ~Crash /\ left'["crash"] = 0
<1>1. left \in [Events -> Nat] /\ ~Crash
  BY DEF TypeInv, TypeOK, Crash, Spend
<1>2. ASSUME NEW event \in Events \ {"crash"}, Spend(event)
      PROVE  left'["crash"] = 0
  BY <1>1, <1>2 DEF Spend, Events
<1>3. {"comment", "assign", "status", "release", "cancel", "pause", "hold", "block", "detach",
       "fail"} \subseteq Events \ {"crash"}
  BY DEF Events
<1>4. CASE UNCHANGED left
  BY <1>1, <1>4
<1>5. CASE \E r \in RunIds : RunStep(r)
  BY <1>1, <1>2, <1>3, <1>4, <1>5
  DEF RunStep, ClaimGates, ClaimUpdate, StampLock, BeginExecution, AdapterReturns
<1>6. CASE \/ \E w \in posted : EnqueueWakeup(w)
           \/ \E u \in updates : WriteUpdate(u)
           \/ CreateHold \/ CancelWakeups
  BY <1>4, <1>6 DEF EnqueueWakeup, WakeRefused, WakeSkipped, WakeQueued, WakeCoalesced,
                    WakeDeferred, Deliver, CreateHold, CancelWakeups, WriteUpdate
<1>7. CASE \E e \in ends : EndingStep(e)
  BY <1>4, <1>7
  DEF EndingStep, WriteStatus, ClearLock, RetryAfterLoss, ScheduleRetry, ReleaseRefused,
      ReleasePromotes, ReleaseRecovers, ReleaseOnly, Escalate, Reblock
<1>8. CASE Scheduler
  BY <1>1, <1>2, <1>3, <1>4, <1>8
  DEF Scheduler, PromoteRetry, Reap, ReapDetached, Dispatch, ReconcileFailed
<1>9. CASE Environment
  BY <1>1, <1>2, <1>3, <1>4, <1>9, UpdateEvents
  DEF Environment, Comment, Assign, SetStatus, Release, Request, CancelRun, PauseAgent, ResumeAgent, PreviewHold,
      ReleaseHold, Block, Unblock, ReconcileProductive
<1> QED
  BY <1>1, <1>4, <1>5, <1>6, <1>7, <1>8, <1>9 DEF Next, Server, vars

(* While the process does not crash, and no reaper's note overtakes an end    *)
(* (which takes a crash before it), the lock of an issue names a live run,   *)
(* or one whose ending will release it, or a cancelled one: no failure,      *)
(* retry, promotion, recovery or reassignment leaves a dead run holding the  *)
(* issue.  A crash loses the ending of a run that is over, hence the         *)
(* assumption.                                                               *)
THEOREM OnlyCancelsLeak ==
    ASSUME \A b \in Budgets : b["crash"] = 0
    PROVE  Spec /\ [][~Revives]_vars => []LockLeaksOnlyByCancel
<1> DEFINE Inv == LockInv /\ left["crash"] = 0
<1>1. Init => Inv
  BY DEF Init, LockInv, RunIds
<1>2. TypeInv /\ Inv /\ [Next]_vars /\ [~Revives]_vars => Inv'
  <2>1. CASE UNCHANGED vars
    BY <2>1, CrashFree, LockSame
  <2>2. CASE ~Revives
    BY <2>2, LockStep, CrashFree
  <2> QED
    BY <2>1, <2>2
<1>3. TypeInv /\ Inv => LockLeaksOnlyByCancel
  <2> SUFFICES ASSUME TypeInv, Inv, issue.lock # NoRun, issue.lock \notin Live,
                      \A e \in ends : e.run # issue.lock
               PROVE  runs[issue.lock].status = "cancelled"
    BY DEF LockLeaksOnlyByCancel
  <2>1. issue.lock \in RunIds
    BY RunsTyped DEF TypeInv, TypeOK, IssueRows, NoRun
  <2>2. runs[issue.lock].status \in LiveStatuses \cup TerminalStatuses
    BY <2>1, RunsTyped DEF TypeInv, RunRows
  <2> QED
    BY <2>1, <2>2 DEF LockInv, LetsGo, Over, Live, TerminalStatuses
<1> HIDE DEF Inv
<1> QED
  BY <1>1, <1>2, <1>3, TypeInvariant, PTL DEF Spec
-----------------------------------------------------------------------------
(* How the lock passes on.  An ending past its first step is of a run that   *)
(* is over, with or without a crash; so a retry, a promotion or a recovery   *)
(* takes the lock over from a dead run only.                                 *)
ClosingOver == \A e \in ends : e.step # "write" => Terminal(e.run)

LEMMA ClosingStep ==
    ASSUME TypeInv, ClosingOver, [Next]_vars, ~Revives
    PROVE  ClosingOver'
<1>1. Grows(runs') /\ RunIds \subseteq RunIds' /\ \A e \in ends : e \in EndRecords
  BY RunsStep, Numbers DEF RunIds, TypeInv, EndOK
<1>2. \A r \in RunIds : Terminal(r) => Terminal(r)'
  BY <1>1 DEF Grows, Terminal, Revives
<1>3. SUFFICES ASSUME NEW x \in ends' \ ends, x.step # "write"
               PROVE  Terminal(x.run)'
  BY <1>1, <1>2, <1>3 DEF ClosingOver, Terminal
<1>4. \A r, by, status : Ending(r, by, status).step = "write"
  BY DEF Ending
<1>5. CASE \E w \in posted : EnqueueWakeup(w)
  BY <1>5 DEF EnqueueWakeup, WakeRefused, WakeSkipped, WakeQueued, WakeCoalesced, WakeDeferred,
              Deliver
<1>6. CASE \E r \in RunIds : RunStep(r)
  BY <1>3, <1>4, <1>6
  DEF RunStep, ClaimGates, ClaimUpdate, StampLock, BeginExecution, AdapterReturns
<1>7. ASSUME NEW e \in ends, EndingStep(e)
      PROVE  Terminal(x.run)'
  <2>1. e \in EndRecords /\ e.run \in RunIds
        /\ (e.by # "detached" => e.status \in TerminalStatuses)
    BY <1>1 DEF EndRecords
  <2>2. CASE WriteStatus(e)
    <3>1. x = [e EXCEPT !.step = NextStep(e.by)] /\ e.by # "detached"
      BY <1>3, <2>2 DEF WriteStatus, Advance, Finish
    <3>2. x.run = e.run
      BY <2>1, <3>1 DEF EndRecords
    <3>3. runs'[e.run].status = e.status
      BY <2>1, <2>2, RunsTyped DEF WriteStatus, TypeInv, RunRows
    <3> QED
      BY <1>1, <2>1, <3>1, <3>2, <3>3 DEF Terminal
  <2>3. CASE ~WriteStatus(e)
    <3>1. e.step # "write"
      BY <1>7, <2>3
      DEF EndingStep, ClearLock, RetryAfterLoss, ScheduleRetry, ReleaseRefused, ReleasePromotes,
          ReleaseRecovers, ReleaseOnly, Releasing, Escalate, Reblock
    <3>2. x \in {[e EXCEPT !.step = "release"], Escalating(e), [e EXCEPT !.step = "reblock"]}
      BY <1>3, <1>7, <2>3
      DEF EndingStep, ClearLock, RetryAfterLoss, ScheduleRetry, ReleaseRefused, ReleasePromotes,
          ReleaseRecovers, ReleaseOnly, Escalate, Reblock, Advance, Finish
    <3>3. x.run = e.run
      BY <2>1, <3>2 DEF Escalating, EndRecords
    <3> QED
      BY <1>2, <2>1, <3>1, <3>3 DEF ClosingOver
  <2> QED
    BY <2>2, <2>3
<1>8. CASE \/ \E r \in RunIds : PromoteRetry(r) \/ Reap(r) \/ ReapDetached(r)
           \/ \E u \in updates : WriteUpdate(u)
  BY <1>3, <1>4, <1>8 DEF PromoteRetry, Reap, ReapDetached, WriteUpdate, memory
<1>9. CASE ReconcileFailed \/ ReconcileProductive
  <2>1. x = Escalating(Ending(Len(runs), "reconcile", runs[Len(runs)].status))
    BY <1>3, <1>9 DEF ReconcileFailed, ReconcileProductive, FollowUp
  <2>2. x.run = Len(runs)
    BY <2>1 DEF Escalating, Ending
  <2>3. Len(runs) \in RunIds /\ Terminal(Len(runs))
    BY <1>9, RunsTyped DEF ReconcileFailed, ReconcileProductive, Terminal, TerminalStatuses, TypeInv
  <2> QED
    BY <1>2, <2>2, <2>3
<1>10. CASE CreateHold \/ CancelWakeups \/ Dispatch \/ UNCHANGED vars
  BY <1>3, <1>4, <1>10 DEF CreateHold, CancelWakeups, Dispatch, vars, memory
<1>11. CASE Environment
  BY <1>3, <1>4, <1>9, <1>11
  DEF Environment, Comment, Assign, SetStatus, Release, Request, CancelRun, PauseAgent, ResumeAgent, PreviewHold,
      ReleaseHold, Block, Unblock, Crash, memory
<1> QED
  BY <1>5, <1>6, <1>7, <1>8, <1>9, <1>10, <1>11 DEF Next, Server, Scheduler

LEMMA ClosingSame == ClosingOver /\ UNCHANGED vars => ClosingOver'
  BY DEF ClosingOver, Terminal, RunIds, vars, rows, memory

(* A wake that gives the lock to another run has found its run to be a stale *)
(* retry, and cancels it.                                                    *)
LEMMA WakePasses ==
    ASSUME TypeInv, NEW w \in posted, EnqueueWakeup(w),
           issue.lock \in Live, issue'.lock \notin {NoRun, issue.lock}
    PROVE  issue.lock \notin Live'
<1>1. /\ TypeOK /\ issue \in IssueRows /\ issue.lock \in RunIds /\ NoRun \notin RunIds
      /\ RunsSwept \in [RunIds -> RunRows] /\ runs \in [RunIds -> RunRows]
      /\ \A r \in RunIds : runs[r] \in RunRows
  BY GrowsBySweep, RunsTyped DEF TypeInv, TypeOK, Live, NoRun
<1>2. issue' = IssueSeized /\ Active # NoRun /\ Active # issue.lock
  BY <1>1
  DEF EnqueueWakeup, WakeRefused, WakeSkipped, WakeQueued, WakeCoalesced, WakeDeferred, rows,
      IssueSeized, Locked, Unlocked, IssueRows
<1>3. issue.lock \in Dropped
  <2>1. Holder = issue.lock /\ Holder # NoRun
    BY <1>1 DEF Holder
  <2>2. RetryIsStale(Holder)
    BY <1>2, <2>1 DEF Met, Active, Dropped
  <2> QED
    BY <2>1, <2>2 DEF Dropped
<1>4. RunsSwept[issue.lock].status = "cancelled"
  BY <1>1, <1>3 DEF RunsSwept, RunRows
<1>5. runs'[issue.lock].status = "cancelled"
  <2>1. CASE WakeCoalesced(w)
    BY <1>1, <1>2, <1>4, <2>1 DEF WakeCoalesced
  <2>2. CASE WakeDeferred(w)
    BY <1>4, <2>2 DEF WakeDeferred
  <2> QED
    BY <1>1, <1>2, <2>1, <2>2 DEF EnqueueWakeup, WakeRefused, WakeSkipped, WakeQueued, rows
<1> QED
  BY <1>5 DEF Live, LiveStatuses

(* Whatever takes the lock of an issue over from a run, be it a wake, a      *)
(* claim, a checkout, a retry, a promotion or a recovery, that run has ended *)
(* or ends with the same transaction; but for a checkout that adopts the     *)
(* issue from a dead run, which takes no notice of the lock                  *)
(* (issues.ts adoptStaleCheckoutRun).  A run that the reaper's note brings   *)
(* back while its ending is under way may lose the lock alive.               *)
THEOREM LockOutlivesNoRun == Spec /\ [][~Revives]_vars => LockPassesFromTheDead
<1> DEFINE Passed == /\ issue.lock \in Live /\ issue'.lock \notin {NoRun, issue.lock}
                     /\ ~(Terminal(issue.checkout) /\ issue'.checkout = issue'.lock)
<1>1. Init => ClosingOver
  BY DEF Init, ClosingOver
<1>2. TypeInv /\ ClosingOver /\ [Next]_vars /\ [~Revives]_vars => ClosingOver'
  BY ClosingStep, ClosingSame
<1>3. ASSUME TypeInv, ClosingOver, [Next]_vars, Passed
      PROVE  issue.lock \notin Live'
  <2>1. issue \in IssueRows /\ ~Terminal(issue.lock) /\ NoRun \notin Live
    BY <1>3, StatusSets DEF TypeInv, TypeOK, Live, RunIds, Terminal, NoRun
  <2>2. CASE \E w \in posted : EnqueueWakeup(w)
    BY <1>3, <2>2, WakePasses
  <2>3. ASSUME issue'.lock \in {issue.lock, NoRun}
        PROVE  FALSE
    BY <1>3, <2>3
  <2>4. CASE \E r \in RunIds : RunStep(r)
    <3>1. PICK r \in RunIds : RunStep(r)
      BY <2>4
    <3>2. CASE StampLock(r)
      BY <2>1, <2>3, <3>2, <1>3 DEF StampLock, Locked, IssueRows
    <3>3. CASE BeginExecution(r)
      <4>1. issue' \in {issue, CheckedOut(r)}
        BY <3>3 DEF BeginExecution
      <4>2. \/ CheckedOut(r).lock = issue.lock
            \/ Terminal(issue.checkout) /\ CheckedOut(r).checkout = CheckedOut(r).lock
        BY <1>3, <2>1 DEF CheckedOut, IssueRows
      <4> QED
        BY <1>3, <2>3, <4>1, <4>2
    <3>4. CASE ClaimGates(r) \/ ClaimUpdate(r) \/ AdapterReturns(r)
      BY <2>3, <3>4 DEF ClaimGates, ClaimUpdate, AdapterReturns, rows
    <3> QED
      BY <3>1, <3>2, <3>3, <3>4 DEF RunStep
  <2>5. CASE \E e \in ends : EndingStep(e)
    <3>1. PICK e \in ends : EndingStep(e)
      BY <2>5
    <3>2. CASE RetryAfterLoss(e) \/ ScheduleRetry(e)
      <4>1. Terminal(e.run)
        BY <1>3, <3>2 DEF ClosingOver, RetryAfterLoss, ScheduleRetry
      <4>2. issue' = issue
        BY <2>1, <3>2, <4>1 DEF RetryAfterLoss, ScheduleRetry, Handed
      <4> QED
        BY <2>3, <4>2
    <3>3. CASE ReleasePromotes(e) \/ ReleaseRecovers(e)
      <4>1. Terminal(e.run) /\ issue.lock \in {NoRun, e.run}
        BY <1>3, <3>3 DEF ClosingOver, ReleasePromotes, ReleaseRecovers, Releasing
      <4> QED
        BY <1>3, <2>1, <4>1
    <3>4. CASE \/ WriteStatus(e) \/ ClearLock(e) \/ ReleaseRefused(e) \/ ReleaseOnly(e)
               \/ Escalate(e) \/ Reblock(e)
      BY <2>1, <2>3, <3>4
      DEF WriteStatus, ClearLock, ReleaseRefused, ReleaseOnly, Escalate, Reblock, Vacated,
          Unlocked, IssueRows, rows
    <3> QED
      BY <3>1, <3>2, <3>3, <3>4 DEF EndingStep
  <2>6. CASE Scheduler \/ CreateHold \/ CancelWakeups \/ UNCHANGED vars
    BY <2>1, <2>3, <2>6
    DEF Scheduler, PromoteRetry, Reap, ReapDetached, Dispatch, ReconcileFailed, CreateHold,
        CancelWakeups, Unlocked, IssueRows, vars, rows
  <2>7. CASE Environment
    BY <2>1, <2>3, <2>7
    DEF Environment, Comment, Assign, SetStatus, Release, Request, CancelRun, PauseAgent,
        ResumeAgent, PreviewHold, ReleaseHold, Block, Unblock, Crash, ReconcileProductive, Unlocked,
        IssueRows, rows
  <2>8. CASE \E u \in updates : WriteUpdate(u)
    BY <2>1, <2>3, <2>8 DEF WriteUpdate, Written, Vacated, Unlocked, IssueRows
  <2> QED
    BY <1>3, <2>2, <2>4, <2>5, <2>6, <2>7, <2>8 DEF Next, Server
<1>4. TypeInv /\ ClosingOver /\ [Next]_vars
        => [issue.lock \in Live /\ issue'.lock \notin {NoRun, issue.lock} =>
              \/ issue.lock \notin Live'
              \/ Terminal(issue.checkout) /\ issue'.checkout = issue'.lock]_vars
  BY <1>3
<1> QED
  BY <1>1, <1>2, <1>4, TypeInvariant, PTL DEF Spec, LockPassesFromTheDead

(* A run that has the issue checked out is begun, and nothing makes it wait  *)
(* again.                                                                    *)
CheckoutBegun == issue.checkout # NoRun => Begun(issue.checkout)

LEMMA BegunKept ==
    ASSUME TypeInv, [Next]_vars
    PROVE  \A r \in RunIds : (Begun(r) => Begun(r)') /\ (Terminal(r) /\ ~Revives => Terminal(r)')
<1>1. TypeOK /\ Grows(runs') /\ RunIds \subseteq RunIds' /\ runs \in [RunIds -> RunRows]
  BY RunsStep, Numbers, RunsTyped DEF RunIds, TypeInv
<1>2. \A r \in RunIds : Terminal(r) /\ ~Revives => Terminal(r)'
  BY <1>1 DEF Grows, Terminal, Revives
<1>3. ASSUME \A r \in RunIds : runs'[r].status \in {runs[r].status, "running"} \cup TerminalStatuses
                               \/ runs[r].status = "scheduled_retry"
      PROVE  \A r \in RunIds : Begun(r) => Begun(r)'
  BY <1>3 DEF Begun, TerminalStatuses
<1>4. ASSUME StatusFrame
      PROVE  \A r \in RunIds : Begun(r) => Begun(r)'
  BY <1>4 DEF StatusFrame, Begun, TerminalStatuses
<1>5. CASE \E w \in posted : EnqueueWakeup(w)
  BY <1>2, <1>4, <1>5, WakeFrame
<1>6. CASE \E r \in RunIds : RunStep(r)
  <2>1. PICK r \in RunIds : RunStep(r)
    BY <1>6
  <2>2. \A s \in RunIds : runs'[s].status \in {runs[s].status, "running"}
    BY <1>1, <2>1
    DEF RunStep, ClaimGates, ClaimUpdate, StampLock, BeginExecution, AdapterReturns, rows, RunRows
  <2> QED
    BY <1>2, <1>3, <2>2
<1>7. CASE \E e \in ends : EndingStep(e)
  <2>1. PICK e \in ends : EndingStep(e)
    BY <1>7
  <2>2. CASE WriteStatus(e)
    <3>1. e.run \in RunIds /\ e.status \in {"running"} \cup TerminalStatuses
      BY DEF TypeInv, EndOK, EndRecords
    <3>2. \A s \in RunIds : runs'[s].status \in {runs[s].status, e.status}
      BY <1>1, <2>2, <3>1 DEF WriteStatus, RunRows
    <3> QED
      BY <1>2, <1>3, <3>1, <3>2
  <2>3. CASE ~WriteStatus(e)
    BY <1>2, <1>4, <2>1, <2>3, EndingFrame
  <2> QED
    BY <2>2, <2>3
<1>8. CASE \E r \in RunIds : PromoteRetry(r)
  <2>1. PICK r \in RunIds : PromoteRetry(r)
    BY <1>8
  <2>2. /\ runs[r].status = "scheduled_retry"
        /\ \A s \in RunIds \ {r} : runs'[s] = runs[s]
    BY <1>1, <2>1 DEF PromoteRetry
  <2> QED
    BY <1>2, <1>3, <2>2
<1>9. CASE UNCHANGED runs
  BY <1>2, <1>4, <1>9, FrameSame
<1>10. CASE \/ \E r \in RunIds : Reap(r) \/ ReapDetached(r)
            \/ Dispatch \/ ReconcileFailed \/ CreateHold \/ CancelWakeups
            \/ \E u \in updates : WriteUpdate(u)
  BY <1>9, <1>10 DEF Reap, ReapDetached, Dispatch, ReconcileFailed, CreateHold, CancelWakeups,
                     WriteUpdate, rows
<1>11. CASE Environment
  BY <1>9, <1>11
  DEF Environment, Comment, Assign, SetStatus, Release, Request, CancelRun, PauseAgent, ResumeAgent, PreviewHold,
      ReleaseHold, Block, Unblock, Crash, ReconcileProductive, rows
<1> QED
  BY <1>5, <1>6, <1>7, <1>8, <1>9, <1>10, <1>11 DEF Next, Server, Scheduler, vars, rows

LEMMA OwnerKeepsLock ==
    ASSUME TypeInv, ClosingOver, CheckoutBegun, CheckoutHoldsLock, [Next]_vars, ~Revives
    PROVE  CheckoutBegun' /\ CheckoutHoldsLock'
<1>1. /\ issue \in IssueRows /\ RunIds = 1..Len(runs) /\ Len(runs) \in Nat /\ NoRun \notin RunIds
      /\ issue.checkout # NoRun => issue.checkout \in RunIds
      /\ \A r \in RunIds : (Begun(r) => Begun(r)') /\ (Terminal(r) => Terminal(r)')
  BY RunsStep, Numbers, BegunKept DEF NoRun, IssueRows
<1> DEFINE owner == issue.checkout
           alive == owner # NoRun /\ ~Terminal(owner)
<1>2. alive => /\ issue.lock = owner /\ owner \in RunIds /\ runs[owner].status = "running"
  BY <1>1 DEF CheckoutHoldsLock, CheckoutBegun, Begun, Terminal
<1>3. ASSUME issue'.checkout = owner, alive => issue'.lock = issue.lock
      PROVE  CheckoutBegun' /\ CheckoutHoldsLock'
  BY <1>1, <1>2, <1>3 DEF CheckoutBegun, CheckoutHoldsLock
<1>4. ASSUME issue'.checkout = NoRun
      PROVE  CheckoutBegun' /\ CheckoutHoldsLock'
  BY <1>4 DEF CheckoutBegun, CheckoutHoldsLock, NoRun
<1>5. CASE UNCHANGED issue
  BY <1>3, <1>5
<1>6. Unlocked(issue).checkout = owner /\ \A r, a : Locked(issue, r, a).checkout = owner
  BY <1>1 DEF Unlocked, Locked, IssueRows
<1>7. CASE \E w \in posted : EnqueueWakeup(w)
  <2>1. issue' \in {issue, IssueSeized}
    BY <1>7
    DEF EnqueueWakeup, WakeRefused, WakeSkipped, WakeQueued, WakeCoalesced, WakeDeferred, rows
  <2>2. ASSUME alive PROVE IssueSeized = issue
    <3>1. Holder = issue.lock /\ Holder # NoRun /\ ~RetryIsStale(Holder)
      BY <1>1, <1>2, <2>2 DEF Holder, Live, LiveStatuses, RetryIsStale
    <3>2. Active = issue.lock
      BY <3>1 DEF Met, Dropped, Active
    <3> QED
      BY <3>1, <3>2 DEF IssueSeized
  <2>3. IssueSeized.checkout = owner
    BY <1>6 DEF IssueSeized
  <2> QED
    BY <1>3, <2>1, <2>2, <2>3
<1>8. CASE \E r \in RunIds : RunStep(r)
  <2>1. PICK r \in RunIds : RunStep(r)
    BY <1>8
  <2>2. CASE StampLock(r)
    <3>1. \/ issue' = issue
          \/ issue' = Locked(issue, r, runs[r].agent) /\ issue.lock \in {NoRun, r}
      BY <2>2 DEF StampLock
    <3>2. alive => issue'.lock = issue.lock
      BY <1>1, <1>2, <3>1 DEF Locked, IssueRows
    <3> QED
      BY <1>3, <1>6, <3>1, <3>2
  <2>3. CASE BeginExecution(r) /\ issue' = CheckedOut(r) /\ runs[r].status = "running"
    <3> DEFINE i == IF Terminal(issue.lock) THEN Unlocked(issue) ELSE issue
    <3>1. \/ issue' = i
          \/ issue' = [i EXCEPT !.status = "in_progress", !.lock = r, !.checkout = r]
      BY <2>3 DEF CheckedOut
    <3>2. CASE issue' = i
      <4>1. alive => i = issue
        BY <1>2
      <4> QED
        BY <1>3, <1>6, <3>2, <4>1
    <3>3. CASE issue' = [i EXCEPT !.status = "in_progress", !.lock = r, !.checkout = r]
      <4>1. issue'.lock = r /\ issue'.checkout = r
        BY <1>1, <3>3 DEF Unlocked, IssueRows
      <4>2. Begun(r)'
        BY <1>1, <2>3 DEF Begun
      <4> QED
        BY <4>1, <4>2 DEF CheckoutBegun, CheckoutHoldsLock
    <3> QED
      BY <3>1, <3>2, <3>3
  <2>4. CASE UNCHANGED issue
    BY <1>5, <2>4
  <2> QED
    BY <2>1, <2>2, <2>3, <2>4
    DEF RunStep, ClaimGates, ClaimUpdate, BeginExecution, AdapterReturns, rows
<1>9. CASE \E e \in ends : EndingStep(e)
  <2>1. PICK e \in ends : EndingStep(e)
    BY <1>9
  <2>2. CASE \/ RetryAfterLoss(e) \/ ScheduleRetry(e) \/ ClearLock(e) \/ ReleaseRecovers(e)
             \/ ReleaseOnly(e) \/ ReleasePromotes(e)
    <3>1. Terminal(e.run)
      BY <2>2
      DEF ClosingOver, RetryAfterLoss, ScheduleRetry, ClearLock, ReleaseRecovers, ReleaseOnly,
          ReleasePromotes, Releasing
    <3>2. alive => issue.lock # e.run /\ issue.lock # NoRun
      BY <1>2, <3>1
    <3>3. CASE RetryAfterLoss(e) \/ ScheduleRetry(e) \/ ClearLock(e)
      BY <1>3, <1>6, <3>2, <3>3 DEF RetryAfterLoss, ScheduleRetry, ClearLock, Handed
    <3>4. CASE ReleaseRecovers(e) \/ ReleaseOnly(e)
      BY <1>3, <1>6, <3>2, <3>4 DEF ReleaseRecovers, ReleaseOnly, Releasing
    <3>5. CASE ReleasePromotes(e)
      <4>1. issue'.checkout \in {owner, NoRun}
        BY <1>1, <3>5 DEF ReleasePromotes, Vacated, Unlocked, Locked, IssueRows
      <4>2. ~alive
        BY <3>2, <3>5 DEF ReleasePromotes, Releasing
      <4> QED
        BY <1>3, <1>4, <4>1, <4>2
    <3> QED
      BY <2>2, <3>3, <3>4, <3>5
  <2>3. CASE Escalate(e) \/ Reblock(e)
    BY <1>1, <1>4, <1>5, <2>3 DEF Escalate, Reblock, Vacated, Unlocked, IssueRows
  <2>4. CASE WriteStatus(e) \/ ReleaseRefused(e)
    BY <1>5, <2>4 DEF WriteStatus, ReleaseRefused, rows
  <2> QED
    BY <2>1, <2>2, <2>3, <2>4 DEF EndingStep
<1>10. CASE \E r \in RunIds : PromoteRetry(r)
  <2>1. PICK r \in RunIds : PromoteRetry(r)
    BY <1>10
  <2>2. /\ runs[r].status = "scheduled_retry"
        /\ \/ issue' = issue
           \/ issue' = Unlocked(issue) /\ issue.lock = r
    BY <2>1 DEF PromoteRetry
  <2> QED
    BY <1>2, <1>3, <1>6, <2>2
<1>11. CASE \/ \E r \in RunIds : Reap(r) \/ ReapDetached(r)
            \/ Dispatch \/ ReconcileFailed \/ CreateHold \/ CancelWakeups
  BY <1>5, <1>11 DEF Reap, ReapDetached, Dispatch, ReconcileFailed, CreateHold, CancelWakeups, rows
<1>12. CASE Environment
  <2>1. CASE Release
    <3>1. issue' = IF Terminal(issue.lock) THEN Unlocked(issue) ELSE issue
      BY <2>1 DEF Release
    <3> QED
      BY <1>2, <1>3, <1>5, <1>6, <3>1
  <2> QED
    BY <1>5, <1>12, <2>1
    DEF Environment, Comment, Assign, SetStatus, PauseAgent, ResumeAgent, CancelRun, PreviewHold,
        ReleaseHold, Block, Unblock, Crash, ReconcileProductive, rows
<1>13. CASE \E u \in updates : WriteUpdate(u)
  <2>1. PICK u \in updates : issue' = Written(u)
    BY <1>13 DEF WriteUpdate
  <2>2. CASE Vacates(u)
    BY <1>1, <1>4, <2>1, <2>2 DEF Written, Vacated, Unlocked, IssueRows
  <2>3. CASE ~Vacates(u)
    BY <1>1, <1>3, <2>1, <2>3 DEF Written, IssueRows
  <2> QED
    BY <2>2, <2>3
<1> QED
  BY <1>5, <1>7, <1>8, <1>9, <1>10, <1>11, <1>12, <1>13 DEF Next, Server, Scheduler, vars, rows

(* Whoever retries, promotes, recovers or wakes, a live run that has checked *)
(* the issue out holds its execution lock, crashes included: the column      *)
(* checkoutRunId never stands alone for a run that is alive (heartbeat.ts    *)
(* releaseIssueExecutionAndPromote, issues.ts checkout), unless the reaper's *)
(* note has brought the run back.                                            *)
THEOREM OwnerHoldsLock == Spec /\ [][~Revives]_vars => []CheckoutHoldsLock
<1> DEFINE Inv == ClosingOver /\ CheckoutBegun /\ CheckoutHoldsLock
<1>1. Init => Inv
  BY DEF Init, ClosingOver, CheckoutBegun, CheckoutHoldsLock
<1>2. TypeInv /\ Inv /\ [Next]_vars /\ [~Revives]_vars => Inv'
  <2>1. CASE UNCHANGED vars
    BY <2>1, ClosingSame DEF CheckoutBegun, CheckoutHoldsLock, Begun, Terminal, RunIds, vars, rows
  <2>2. CASE ~Revives
    BY <2>2, ClosingStep, OwnerKeepsLock
  <2> QED
    BY <2>1, <2>2
<1>3. Inv => CheckoutHoldsLock
  OBVIOUS
<1> HIDE DEF Inv
<1> QED
  BY <1>1, <1>2, <1>3, TypeInvariant, PTL DEF Spec

-----------------------------------------------------------------------------
(* What promotes the wakes set aside.                                        *)

LEMMA CarrierKept ==
    ASSUME Carried, Live \subseteq Live', ends \subseteq ends'
    PROVE  Carried'
  BY DEF Carried

LEMMA LiveSame ==
    ASSUME UNCHANGED runs
    PROVE  Live' = Live
  BY DEF Live, RunIds

LEMMA NewRowCarries ==
    ASSUME NEW old \in Seq(RunRows), NEW row \in RunRows, row.status \in LiveStatuses,
           runs' = Append(old, row)
    PROVE  Carried'
<1>1. Len(runs') = Len(old) + 1 /\ Len(old) \in Nat /\ runs'[Len(old) + 1] = row
  BY AppendProperties, LenProperties
<1>2. Len(old) + 1 \in Live'
  BY <1>1 DEF Live, RunIds
<1> QED
  BY <1>2 DEF Carried

LEMMA CarriedByWake ==
    ASSUME TypeInv, deferred # <<>> => Carried, NEW w \in posted, EnqueueWakeup(w), ~CarrierLost
    PROVE  (deferred # <<>> => Carried)'
<1>1. /\ TypeOK /\ w \in Wakes /\ UNCHANGED ends
      /\ RunsSwept \in [RunIds -> RunRows] /\ RunsSwept \in Seq(RunRows)
      /\ Len(RunsSwept) = Len(runs) /\ RunIds = 1..Len(runs)
      /\ \A r \in RunIds : runs[r] \in RunRows
  BY GrowsBySweep, RunsTyped
  DEF TypeInv, TypeOK, Grows, EnqueueWakeup, WakeRefused, WakeSkipped, WakeQueued, WakeCoalesced,
      WakeDeferred, Deliver
<1>2. CASE WakeRefused(w)
  BY <1>1, <1>2, LiveSame, CarrierKept DEF WakeRefused, rows
<1>3. CASE WakeSkipped(w)
  <2>1. Dropped = {} /\ runs' = RunsSwept /\ UNCHANGED deferred
    BY <1>3 DEF WakeSkipped, CarrierLost
  <2>2. \A r \in RunIds : runs'[r] = runs[r]
    BY <2>1 DEF RunsSwept
  <2>3. Live' = Live
    BY <1>1, <2>1, <2>2 DEF Live, RunIds
  <2> QED
    BY <1>1, <2>1, <2>3, CarrierKept
<1>4. CASE WakeQueued(w)
  <2>1. NewRun(w) \in RunRows /\ NewRun(w).status \in LiveStatuses
    BY <1>1, NewRunTyped DEF NewRun, LiveStatuses
  <2> QED
    BY <1>1, <1>4, <2>1, NewRowCarries DEF WakeQueued
<1>5. CASE WakeCoalesced(w) \/ WakeDeferred(w)
  <2>1. /\ Active \in RunIds /\ RunsSwept[Active] = runs[Active]
        /\ runs[Active].status \in LiveStatuses
    BY <1>1, <1>5, ActiveTyped, GrowsBySweep DEF WakeCoalesced, WakeDeferred
  <2>2. runs'[Active].status = runs[Active].status /\ Len(runs') = Len(runs)
    <3>1. Merge(runs[Active], w).status = runs[Active].status
      BY <1>1, <2>1, MergeTyped
    <3>2. CASE WakeCoalesced(w)
      BY <1>1, <2>1, <3>1, <3>2 DEF WakeCoalesced
    <3>3. CASE WakeDeferred(w)
      BY <1>1, <2>1, <3>3 DEF WakeDeferred
    <3> QED
      BY <1>5, <3>2, <3>3
  <2>3. Active \in {r \in RunIds' : runs'[r].status \in LiveStatuses}
    BY <1>1, <2>1, <2>2 DEF RunIds
  <2> QED
    BY <2>3 DEF Carried, Live
<1> QED
  BY <1>2, <1>3, <1>4, <1>5 DEF EnqueueWakeup

LEMMA CarriedByEnding ==
    ASSUME TypeInv, deferred # <<>> => Carried, NEW e \in ends, EndingStep(e), ~CarrierLost
    PROVE  (deferred # <<>> => Carried)'
<1>1. /\ TypeOK /\ e \in EndRecords /\ e.run \in RunIds /\ runs[e.run] \in RunRows
      /\ runs \in Seq(RunRows) /\ Grows(runs') /\ issue \in IssueRows
      /\ \A r \in RunIds : runs[r].status \in LiveStatuses \cup TerminalStatuses
  BY RunsTyped, EndingGrows DEF TypeInv, TypeOK, EndOK, EndRecords, RunRows
<1>2. ASSUME NEW row, runs' = Append(runs, row), row.status \in LiveStatuses
      PROVE  Carried'
  <2>1. Len(runs') = Len(runs) + 1 /\ Len(runs) \in Nat /\ runs'[Len(runs) + 1] = row
    BY <1>1, <1>2
  <2>2. Len(runs) + 1 \in Live'
    BY <1>2, <2>1 DEF Live, RunIds
  <2> QED
    BY <2>2 DEF Carried
<1>3. CASE WriteStatus(e) /\ e.by # "detached"
  <2> DEFINE next == [e EXCEPT !.step = NextStep(e.by)]
  <2>1. e.by # "stale" /\ next \in ends'
    BY <1>3 DEF CarrierLost, WriteStatus, Advance
  <2>2. next.by = e.by /\ next.step \in {"loss", "retry", "release"}
    BY <1>1, <2>1 DEF EndRecords, NextStep
  <2> QED
    BY <2>1, <2>2 DEF Carried
<1>10. CASE WriteStatus(e) /\ e.by = "detached"
  <2>1. e.status = "running" /\ RunIds = 1..Len(runs) /\ runs \in [RunIds -> RunRows]
    BY <1>1, <1>10, RunsTyped DEF TypeInv, EndOK
  <2>2. e.run \in Live'
    BY <1>1, <1>10, <2>1 DEF WriteStatus, Live, LiveStatuses, RunIds, RunRows
  <2> QED
    BY <2>2 DEF Carried
<1>4. CASE RetryAfterLoss(e)
  BY <1>1, <1>2, <1>4 DEF RetryAfterLoss, RunRows, LiveStatuses
<1>5. CASE ScheduleRetry(e)
  <2>1. CASE runs[e.run].attempt < MaxAttempts
    BY <1>1, <1>2, <1>5, <2>1 DEF ScheduleRetry, RunRows, LiveStatuses
  <2>2. CASE ~(runs[e.run].attempt < MaxAttempts)
    <3> DEFINE next == [e EXCEPT !.step = "release"]
    <3>1. /\ Live' = Live /\ UNCHANGED deferred
          /\ ends' = (ends \ {e}) \cup {next}
      BY <1>5, <2>2, LiveSame DEF ScheduleRetry, Advance
    <3>2. next.by = e.by /\ next.step = "release"
      BY <1>1 DEF EndRecords
    <3> QED
      BY <3>1, <3>2 DEF Carried
  <2> QED
    BY <2>1, <2>2
<1>6. CASE ReleasePromotes(e) \/ ReleaseRecovers(e)
  <2>1. \A w : NewRun(w).status \in LiveStatuses
    BY DEF NewRun, LiveStatuses
  <2> QED
    BY <1>2, <1>6, <2>1 DEF ReleasePromotes, ReleaseRecovers
<1>7. CASE ReleaseRefused(e)
  <2>1. issue.lock \in RunIds /\ ~Terminal(issue.lock) /\ UNCHANGED runs
    BY <1>1, <1>7, RunsTyped DEF ReleaseRefused, CarrierLost, IssueRows, NoRun, rows
  <2>2. issue.lock \in Live'
    BY <1>1, <2>1, LiveSame DEF Live, Terminal
  <2> QED
    BY <2>2 DEF Carried
<1>8. CASE ReleaseOnly(e)
  BY <1>8 DEF ReleaseOnly
<1>9. CASE ClearLock(e) \/ Escalate(e) \/ Reblock(e)
  <2>1. /\ UNCHANGED <<runs, deferred>> /\ ends \ {e} \subseteq ends'
        /\ e.step \in {"clear", "escalate", "reblock"}
    BY <1>9 DEF ClearLock, Escalate, Reblock, Finish
  <2> QED
    BY <2>1, LiveSame DEF Carried
<1> QED
  BY <1>3, <1>4, <1>5, <1>6, <1>7, <1>8, <1>9, <1>10 DEF EndingStep

LEMMA CarriedStep ==
    ASSUME TypeInv, deferred # <<>> => Carried, [Next]_vars, [~CarrierLost]_vars
    PROVE  (deferred # <<>> => Carried)'
<1>1. CASE UNCHANGED vars
  BY <1>1, LiveSame, CarrierKept DEF vars, rows, memory
<1>2. CASE Next /\ ~CarrierLost
  <2>1. TypeOK /\ runs \in [RunIds -> RunRows] /\ RunIds = 1..Len(runs)
    BY RunsTyped DEF TypeInv
  <2>2. CASE \E w \in posted : EnqueueWakeup(w)
    BY <1>2, <2>2, CarriedByWake
  <2>3. CASE \E e \in ends : EndingStep(e)
    BY <1>2, <2>3, CarriedByEnding
  <2>4. ASSUME UNCHANGED <<runs, deferred>>, ends \subseteq ends'
        PROVE  (deferred # <<>> => Carried)'
    BY <2>4, LiveSame, CarrierKept
  <2>5. CASE \E r \in RunIds : RunStep(r)
    <3>1. PICK r \in RunIds : RunStep(r)
      BY <2>5
    <3>2. CASE ClaimUpdate(r) /\ runs[r].status = "queued"
      <4>1. /\ \A s \in RunIds : runs'[s].status = IF s = r THEN "running" ELSE runs[s].status
            /\ Len(runs') = Len(runs) /\ UNCHANGED <<deferred, ends>>
        BY <2>1, <3>2 DEF ClaimUpdate, RunRows
      <4>2. Live \subseteq Live'
        BY <4>1 DEF Live, LiveStatuses, RunIds
      <4> QED
        BY <4>1, <4>2, CarrierKept
    <3>3. CASE UNCHANGED <<runs, deferred>> /\ ends \subseteq ends'
      BY <2>4, <3>3
    <3> QED
      BY <3>1, <3>2, <3>3
      DEF RunStep, ClaimGates, ClaimUpdate, StampLock, BeginExecution, AdapterReturns, rows
  <2>6. CASE \E r \in RunIds : PromoteRetry(r)
    <3>1. PICK r \in RunIds : PromoteRetry(r) /\ runs'[r].status # "cancelled"
      BY <1>2, <2>6 DEF CarrierLost
    <3>2. runs' = [runs EXCEPT ![r].status = "queued"] /\ UNCHANGED <<deferred, ends>>
      BY <2>1, <3>1 DEF PromoteRetry, memory, RunRows
    <3>3. /\ \A s \in RunIds : runs'[s].status = IF s = r THEN "queued" ELSE runs[s].status
          /\ Len(runs') = Len(runs)
      BY <2>1, <3>2 DEF RunRows
    <3>4. Live \subseteq Live'
      BY <3>3 DEF Live, LiveStatuses, RunIds
    <3> QED
      BY <3>2, <3>4, CarrierKept
  <2>7. CASE CancelWakeups
    BY <2>7 DEF CancelWakeups
  <2>8. CASE \/ \E r \in RunIds : Reap(r) \/ ReapDetached(r)
             \/ Dispatch \/ ReconcileFailed \/ CreateHold
             \/ \E u \in updates : WriteUpdate(u)
    BY <2>4, <2>8 DEF Reap, ReapDetached, Dispatch, ReconcileFailed, FollowUp, CreateHold,
                      WriteUpdate, rows
  <2>9. CASE Environment
    BY <1>2, <2>4, <2>9
    DEF Environment, Comment, Assign, SetStatus, Release, Request, CancelRun, PauseAgent,
        ResumeAgent, PreviewHold, ReleaseHold, Block, Unblock, ReconcileProductive, FollowUp,
        CarrierLost, rows, memory
  <2> QED
    BY <1>2, <2>2, <2>3, <2>5, <2>6, <2>7, <2>8, <2>9 DEF Next, Server, Scheduler
<1> QED
  BY <1>1, <1>2

(* A wake set aside behind a run is left without one to promote it by the    *)
(* four steps of CarrierLost only: no other ending, no claim, checkout,      *)
(* reassignment, hold or recovery forgets the wakes that wait                *)
(* (releaseIssueExecutionAndPromote and those it is called from).            *)
THEOREM OnlyTheseLoseWakes == Spec /\ [][~CarrierLost]_vars => []DeferredHasCarrier
<1>1. Init => (deferred # <<>> => Carried)
  BY DEF Init
<1>2. TypeInv /\ (deferred # <<>> => Carried) /\ [Next]_vars /\ [~CarrierLost]_vars
        => (deferred # <<>> => Carried)'
  BY CarriedStep
<1>3. (deferred # <<>> => Carried) => DeferredHasCarrier
  BY DEF DeferredHasCarrier, Carried
<1> QED
  BY <1>1, <1>2, <1>3, TypeInvariant, PTL DEF Spec
=============================================================================
