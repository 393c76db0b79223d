------------------------------- MODULE BudgetStop -------------------------------
(*****************************************************************************)
(* The hard stop of one budget: cost events that are evaluated, the board's  *)
(* changes of the policy and its decisions on incidents, and the runs that   *)
(* pass the invocation gate meanwhile.  None of the calls is a transaction:  *)
(* each goes by the policy and the spend it read some statements earlier.    *)
(*                                                                           *)
(* An action is one statement against the database.  A run of an agent whose *)
(* budget it is writes the agent's status when it begins and when it ends,   *)
(* over whatever has been put there (AgentStatus has these writes in full).  *)
(* Approvals (they follow their incident) and the copies of the amount on    *)
(* the agent and the company are left out; the sweep's rows are RunClaim's.  *)
(* Source: server/src/services/budgets.ts, costs.ts, heartbeat.ts,           *)
(* routes/costs.ts                                                           *)
(*****************************************************************************)
EXTENDS Naturals, FiniteSets

CONSTANTS
    Kinds,      \* what the budget may be for
    Calls,      \* callers of the budget service
    Runs,
    FirstAmount,    \* the amount the policy begins with
    WarnPercent,    \* of the amount, where the soft threshold is
    Amounts,    \* bound: the amounts the board may ask for, 0 for no limit
    MaxSpend,   \* bound: cost events, of one unit each, in a month
    LastMonth,  \* bound: the months are 0..LastMonth
    MaxActs     \* bound: what the board does, the crashes and the turns of the month

ASSUME BudgetAssumption ==
    /\ Kinds \subseteq {"agent", "company", "project"}
    /\ FirstAmount \in Nat \ {0} /\ Amounts \subseteq Nat
    /\ WarnPercent \in 1..99
    /\ MaxSpend \in Nat /\ LastMonth \in Nat /\ MaxActs \in Nat

VARIABLES
    kind,       \* budget_policies.scopeType
    policy,     \* its amount and isActive; the other columns have their defaults
    scope,      \* is the scope paused, and its pauseReason
    spend,      \* computeObservedAmount, for the current window
    month,
    incident,   \* the hard incident of each window that is not dismissed
    kept,       \* the windows with a dismissed incident
    soft,       \* the windows with a soft incident that is not dismissed
    call,       \* the calls under way, with what they go by
    row,        \* heartbeat_runs.status
    gate,       \* where a wake or a claim is in its gates, and the limit read
    exec,       \* where executeRun, the finalization or the reaper of a run are
    left,       \* acts that may still be done
    amiss       \* history: what the code is known not to look after

vars == <<kind, policy, scope, spend, month, incident, kept, soft, call, row, gate, exec, left,
          amiss>>

Months == 0..LastMonth
Window == IF kind = "project" THEN 0 ELSE month     \* resolveWindow

Steps == {"none", "policy", "observe", "measure", "warn", "notify", "find", "insert", "pause",
          "sweep", "cancel", "check", "write", "resume", "resolve"}

Idle == [step |-> "none", limit |-> 0, over |-> FALSE, window |-> 0, found |-> {}]
NoGate == [step |-> "none", limit |-> 0]

CallRecords == [step : Steps, limit : Nat, over : BOOLEAN, window : Months, found : SUBSET Runs]
GateRecords == [step : {"none", "scope", "policy", "spend", "pass", "refuse"}, limit : Nat]

TypeOK ==
    /\ kind \in Kinds
    /\ policy \in [amount : Nat, active : BOOLEAN]
    /\ scope \in [paused : BOOLEAN, reason : {"none", "manual", "budget"}]
    /\ spend \in Nat /\ month \in Months /\ left \in Nat
    /\ incident \in [Months -> {"none", "open", "resolved"}]
    /\ kept \subseteq Months
    /\ call \in [Calls -> CallRecords]
    /\ row \in [Runs -> {"absent", "queued", "running", "over"}]
    /\ soft \subseteq Months
    /\ gate \in [Runs -> GateRecords]
    /\ exec \in [Runs -> {"none", "begin", "work", "read", "write", "note"}]
    /\ amiss \subseteq {"late", "lifted", "blind", "unseen"}

Init ==
    /\ kind \in Kinds
    /\ policy = [amount |-> FirstAmount, active |-> TRUE]
    /\ scope = [paused |-> FALSE, reason |-> "none"]
    /\ spend = 0 /\ month = 0
    /\ incident = [m \in Months |-> "none"] /\ kept = {} /\ soft = {}
    /\ call = [c \in Calls |-> Idle]
    /\ row = [r \in Runs |-> "absent"]
    /\ gate = [r \in Runs |-> NoGate]
    /\ exec = [r \in Runs |-> "none"]
    /\ left = MaxActs
    /\ amiss = {}

Limits(amount) == amount > 0 /\ spend >= amount
Exceeded == policy.active /\ Limits(policy.amount)
SoftThreshold(amount) == (amount * WarnPercent + 99) \div 100

At(c, step) == call[c].step = step
Goto(c, step) == call' = [call EXCEPT ![c].step = step]
GoBy(c, step, limit) == call' = [call EXCEPT ![c].step = step, ![c].limit = limit]
Done(c) == call' = [call EXCEPT ![c] = Idle]
Begin(c, step, limit) == call[c] = Idle /\ GoBy(c, step, limit)
Act == left > 0 /\ left' = left - 1

(****************************** cost events *********************************)

(* createEvent inserts, then evaluates.                                      *)
Report(c) ==
    /\ spend < MaxSpend
    /\ spend' = spend + 1
    /\ Begin(c, "policy", 0)
    /\ UNCHANGED <<kind, policy, scope, month, incident, kept, soft, row, gate, exec, left, amiss>>

ReadPolicy(c) ==
    /\ At(c, "policy")
    /\ IF policy.active /\ policy.amount > 0
       THEN GoBy(c, "observe", policy.amount)
       ELSE Done(c)
    /\ UNCHANGED <<kind, policy, scope, spend, month, incident, kept, soft, row, gate, exec,
                   left, amiss>>

(* What an evaluation goes on to: the soft threshold, then the limit, both   *)
(* by the sum that was read once.                                            *)
Weighed(c, over) ==
    call' = [call EXCEPT ![c].step = IF spend >= SoftThreshold(call[c].limit) THEN "warn"
                                     ELSE IF over THEN "find" ELSE "none",
                         ![c].limit = 0, ![c].over = over]

(* Mutant: the stop begins above the limit instead of at it.                 *)
ObserveAbove(c) ==
    /\ At(c, "observe")
    /\ Weighed(c, spend > call[c].limit)
    /\ UNCHANGED <<kind, policy, scope, spend, month, incident, kept, soft, row, gate, exec,
                   left, amiss>>

Observe(c) ==
    /\ At(c, "observe")
    /\ Weighed(c, Limits(call[c].limit))
    /\ UNCHANGED <<kind, policy, scope, spend, month, incident, kept, soft, row, gate, exec,
                   left, amiss>>

(* createIncidentIfNeeded for the soft threshold: a resolved incident of     *)
(* this window will do.                                                      *)
AfterSoft(c) == IF call[c].over THEN Goto(c, "find") ELSE Done(c)

FindSoft(c) ==
    /\ At(c, "warn")
    /\ IF Window \in soft THEN AfterSoft(c)
       ELSE call' = [call EXCEPT ![c].step = "notify", ![c].window = Window]
    /\ UNCHANGED <<kind, policy, scope, spend, month, incident, kept, soft, row, gate, exec,
                   left, amiss>>

(* The unique index makes the second of two inserts throw: its call ends     *)
(* there, and does not get to its limit.                                     *)
InsertSoft(c) ==
    /\ At(c, "notify")
    /\ IF call[c].window \in soft
       THEN /\ Done(c) /\ UNCHANGED soft
            /\ amiss' = IF call[c].over THEN amiss \cup {"unseen"} ELSE amiss
       ELSE /\ AfterSoft(c) /\ soft' = soft \cup {call[c].window}
            /\ UNCHANGED amiss
    /\ UNCHANGED <<kind, policy, scope, spend, month, incident, kept, row, gate, exec, left>>

(**************************** the hard stop *********************************)

(* Mutant: the scope is paused before the incident is looked for.            *)
FindAfterPause(c) ==
    /\ At(c, "find")
    /\ scope' = [paused |-> TRUE, reason |-> "budget"]
    /\ call' = [call EXCEPT ![c].step = IF incident[Window] = "none" THEN "insert" ELSE "sweep",
                            ![c].window = Window]
    /\ UNCHANGED <<kind, policy, spend, month, incident, kept, soft, row, gate, exec, left, amiss>>

(* createIncidentIfNeeded: a resolved incident of this window will do.       *)
Find(c) ==
    /\ At(c, "find")
    /\ call' = [call EXCEPT ![c].step = IF incident[Window] = "none" THEN "insert" ELSE "pause",
                            ![c].window = Window]
    /\ UNCHANGED <<kind, policy, scope, spend, month, incident, kept, soft, row, gate, exec,
                   left, amiss>>

(* The second of two inserts throws here as well, and its call pauses        *)
(* nothing; but the first one's does.                                        *)
Insert(c) ==
    /\ At(c, "insert")
    /\ IF incident[call[c].window] = "none"
       THEN incident' = [incident EXCEPT ![call[c].window] = "open"] /\ Goto(c, "pause")
       ELSE UNCHANGED incident /\ Done(c)
    /\ UNCHANGED <<kind, policy, scope, spend, month, kept, soft, row, gate, exec, left, amiss>>

(* An agent only if it is not stopped already; a company and a project       *)
(* whatever their state.                                                     *)
PauseScope(c) ==
    /\ At(c, "pause")
    /\ IF kind = "agent" /\ scope.paused
       THEN amiss' = amiss \ {"unseen"} /\ UNCHANGED scope
       ELSE /\ scope' = [paused |-> TRUE, reason |-> "budget"]
            /\ amiss' = (amiss \ {"lifted", "unseen"}) \cup
                          (IF Limits(policy.amount) THEN {} ELSE {"late"})
    /\ Goto(c, "sweep")
    /\ UNCHANGED <<kind, policy, spend, month, incident, kept, soft, row, gate, exec, left>>

Cancellable(s) == {r \in s : row[r] \in {"queued", "running"}}

(* cancelWorkForScope                                                        *)
Sweep(c) ==
    /\ At(c, "sweep")
    /\ call' = [call EXCEPT ![c].step = "cancel", ![c].found = Cancellable(Runs)]
    /\ UNCHANGED <<kind, policy, scope, spend, month, incident, kept, soft, row, gate, exec,
                   left, amiss>>

CancelFound(c) ==
    /\ At(c, "cancel")
    /\ row' = [r \in Runs |-> IF r \in Cancellable(call[c].found) THEN "over" ELSE row[r]]
    /\ Done(c)
    /\ UNCHANGED <<kind, policy, scope, spend, month, incident, kept, soft, gate, exec, left,
                   amiss>>

(******************************* the board **********************************)

(* upsertPolicy; with no amount there is nothing to observe.                 *)
Upsert(c, amount, active) ==
    /\ Act
    /\ policy' = [amount |-> amount, active |-> amount > 0 /\ active]
    /\ Begin(c, IF amount > 0 THEN "measure" ELSE "resume", amount)
    /\ UNCHANGED <<kind, scope, spend, month, incident, kept, soft, row, gate, exec, amiss>>

(* Mutant: a raised limit does not lift the pause.                           *)
MeasureOnly(c) ==
    /\ At(c, "measure")
    /\ IF Limits(call[c].limit) THEN Weighed(c, TRUE) ELSE GoBy(c, "resolve", 0)
    /\ UNCHANGED <<kind, policy, scope, spend, month, incident, kept, soft, row, gate, exec,
                   left, amiss>>

Measure(c) ==
    /\ At(c, "measure")
    /\ IF Limits(call[c].limit) THEN Weighed(c, TRUE) ELSE GoBy(c, "resume", 0)
    /\ UNCHANGED <<kind, policy, scope, spend, month, incident, kept, soft, row, gate, exec,
                   left, amiss>>

(* resolveIncident takes an incident of any kind, status and month.          *)
Known == kept # {} \/ \E m \in Months : incident[m] # "none"

RaiseAndResume(c, amount) ==
    /\ Known \/ soft # {}
    /\ Act
    /\ Begin(c, "check", amount)
    /\ UNCHANGED <<kind, policy, scope, spend, month, incident, kept, soft, row, gate, exec, amiss>>

CheckRaise(c) ==
    /\ At(c, "check")
    /\ IF call[c].limit <= spend THEN Done(c) ELSE Goto(c, "write")
    /\ UNCHANGED <<kind, policy, scope, spend, month, incident, kept, soft, row, gate, exec,
                   left, amiss>>

WriteRaise(c) ==
    /\ At(c, "write")
    /\ policy' = [amount |-> call[c].limit, active |-> TRUE]
    /\ GoBy(c, "resume", 0)
    /\ amiss' = IF Limits(call[c].limit) THEN amiss \cup {"blind"} ELSE amiss
    /\ UNCHANGED <<kind, scope, spend, month, incident, kept, soft, row, gate, exec, left>>

(* Mutant: the pause is lifted whatever its reason.                          *)
ResumeAny(c) ==
    /\ At(c, "resume")
    /\ scope' = [paused |-> FALSE, reason |-> "none"]
    /\ amiss' = (amiss \ {"late"}) \cup (IF Exceeded THEN {"lifted"} ELSE {})
    /\ Goto(c, "resolve")
    /\ UNCHANGED <<kind, policy, spend, month, incident, kept, soft, row, gate, exec, left>>

(* resumeScopeFromBudget looks at the reason only.                           *)
Resume(c) ==
    /\ At(c, "resume")
    /\ IF scope.reason = "budget"
       THEN /\ scope' = [paused |-> FALSE, reason |-> "none"]
            /\ amiss' = (amiss \ {"late"}) \cup (IF Exceeded THEN {"lifted"} ELSE {})
       ELSE UNCHANGED <<scope, amiss>>
    /\ Goto(c, "resolve")
    /\ UNCHANGED <<kind, policy, spend, month, incident, kept, soft, row, gate, exec, left>>

(* Every open incident of the policy, whatever its month                     *)
ResolveOpen(c) ==
    /\ At(c, "resolve")
    /\ incident' = [m \in Months |-> IF incident[m] = "open" THEN "resolved" ELSE incident[m]]
    /\ Done(c)
    /\ UNCHANGED <<kind, policy, scope, spend, month, kept, soft, row, gate, exec, left, amiss>>

(* Mutant: a dismissed incident is still among those of its window.          *)
KeepAmong(m) ==
    /\ incident[m] # "none" /\ Act
    /\ incident' = [incident EXCEPT ![m] = "dismissed"]
    /\ kept' = kept \cup {m}
    /\ UNCHANGED <<kind, policy, scope, spend, month, soft, call, row, gate, exec, amiss>>

KeepPaused(m) ==
    /\ incident[m] # "none" /\ Act
    /\ incident' = [incident EXCEPT ![m] = "none"]
    /\ kept' = kept \cup {m}
    /\ UNCHANGED <<kind, policy, scope, spend, month, soft, call, row, gate, exec, amiss>>

DismissSoft(m) ==
    /\ m \in soft /\ Act
    /\ soft' = soft \ {m}
    /\ UNCHANGED <<kind, policy, scope, spend, month, incident, kept, call, row, gate, exec, amiss>>

(* The board's pause of an agent, which is followed by a sweep.              *)
BoardPause(c) ==
    /\ kind = "agent" /\ Act
    /\ scope' = [paused |-> TRUE, reason |-> "manual"]
    /\ Begin(c, "sweep", 0)
    /\ UNCHANGED <<kind, policy, spend, month, incident, kept, soft, row, gate, exec, amiss>>

BoardResume ==
    /\ kind = "agent" /\ Act
    /\ scope' = [paused |-> FALSE, reason |-> "none"]
    /\ amiss' = amiss \cup {"lifted"}
    /\ UNCHANGED <<kind, policy, spend, month, incident, kept, soft, call, row, gate, exec>>

(* PATCH of a status: neither a reason nor a sweep goes with it.             *)
BoardPatch(paused) ==
    /\ kind # "project" /\ Act
    /\ scope' = [scope EXCEPT !.paused = paused]
    /\ amiss' = IF paused THEN amiss ELSE amiss \cup {"lifted"}
    /\ UNCHANGED <<kind, policy, spend, month, incident, kept, soft, call, row, gate, exec>>

(******************************* the runs ***********************************)

Pass(r, step) == gate' = [gate EXCEPT ![r] = [step |-> step, limit |-> 0]]

Stage(r, step) == exec' = [exec EXCEPT ![r] = step]

(* A refused wake is skipped, a refused claim cancels its run; that is       *)
(* cancelRunInternal, which finalizes the agent's status.                    *)
Refuse(r) ==
    /\ gate' = [gate EXCEPT ![r] = NoGate]
    /\ IF row[r] = "queued"
       THEN /\ row' = [row EXCEPT ![r] = "over"]
            /\ Stage(r, IF kind = "agent" THEN "read" ELSE "none")
       ELSE UNCHANGED <<row, exec>>

(* The row of the scope is read first.  A paused project refuses only after  *)
(* its policy and its spend have been read.                                  *)
Enter(r) ==
    /\ row[r] \in {"absent", "queued"} /\ gate[r] = NoGate /\ exec[r] = "none"
    /\ Pass(r, "scope")
    /\ UNCHANGED <<kind, policy, scope, spend, month, incident, kept, soft, call, row, exec,
                   left, amiss>>

GateScope(r) ==
    /\ gate[r].step = "scope"
    /\ IF scope.paused /\ kind # "project" THEN Refuse(r)
       ELSE Pass(r, IF scope.paused THEN "refuse" ELSE "policy") /\ UNCHANGED <<row, exec>>
    /\ UNCHANGED <<kind, policy, scope, spend, month, incident, kept, soft, call, left, amiss>>

GateRefuse(r) ==
    /\ gate[r].step = "refuse"
    /\ Refuse(r)
    /\ UNCHANGED <<kind, policy, scope, spend, month, incident, kept, soft, call, left, amiss>>

GatePolicy(r) ==
    /\ gate[r].step = "policy"
    /\ IF policy.active /\ policy.amount > 0
       THEN gate' = [gate EXCEPT ![r] = [step |-> "spend", limit |-> policy.amount]]
       ELSE Pass(r, "pass")
    /\ UNCHANGED <<kind, policy, scope, spend, month, incident, kept, soft, call, row, exec,
                   left, amiss>>

(* Mutant: the gate trusts the pause and does not look at the spend.         *)
GateTrusting(r) ==
    /\ gate[r].step = "spend"
    /\ Pass(r, "pass")
    /\ UNCHANGED <<kind, policy, scope, spend, month, incident, kept, soft, call, row, exec,
                   left, amiss>>

GateSpend(r) ==
    /\ gate[r].step = "spend"
    /\ IF Limits(gate[r].limit) THEN Refuse(r) ELSE Pass(r, "pass") /\ UNCHANGED <<row, exec>>
    /\ UNCHANGED <<kind, policy, scope, spend, month, incident, kept, soft, call, left, amiss>>

(* The insert of the wake's run, or the claim's UPDATE if it is still queued *)
Admit(r) ==
    /\ gate[r].step = "pass"
    /\ gate' = [gate EXCEPT ![r] = NoGate]
    /\ row' = [row EXCEPT ![r] = CASE row[r] = "absent" -> "queued"
                                   [] row[r] = "queued" -> "running"
                                   [] OTHER -> row[r]]
    /\ IF row[r] = "queued" THEN Stage(r, "begin") ELSE UNCHANGED exec
    /\ UNCHANGED <<kind, policy, scope, spend, month, incident, kept, soft, call, left, amiss>>

(* executeRun looks at its run once, between the claim and what follows, and *)
(* returns if it has been cancelled by then.                                 *)
ReturnQuietly(r) ==
    /\ exec[r] = "begin" /\ row[r] # "running"
    /\ Stage(r, "none")
    /\ UNCHANGED <<kind, policy, scope, spend, month, incident, kept, soft, call, row, gate,
                   left, amiss>>

(* The agent's status is written by its id alone; the pause's reason stays.  *)
StatusWritten ==
    /\ scope' = [scope EXCEPT !.paused = FALSE]
    /\ amiss' = IF Exceeded THEN amiss \cup {"lifted"} ELSE amiss

MarkRunning(r) ==
    /\ exec[r] = "begin"
    /\ IF kind = "agent" THEN StatusWritten ELSE UNCHANGED <<scope, amiss>>
    /\ Stage(r, "work")
    /\ UNCHANGED <<kind, policy, spend, month, incident, kept, soft, call, row, gate, left>>

Ends(r) ==
    /\ row' = [row EXCEPT ![r] = "over"]
    /\ Stage(r, IF kind = "agent" THEN "read" ELSE "none")
    /\ UNCHANGED <<kind, policy, scope, spend, month, incident, kept, soft, call, gate, left,
                   amiss>>

RunEnds(r) == exec[r] = "work" /\ Ends(r)

(* finalizeAgentStatus leaves a pause alone that it sees when it begins.     *)
FinalizeRead(r) ==
    /\ exec[r] = "read"
    /\ Stage(r, IF scope.paused THEN "none" ELSE "write")
    /\ UNCHANGED <<kind, policy, scope, spend, month, incident, kept, soft, call, row, gate,
                   left, amiss>>

FinalizeWrite(r) ==
    /\ exec[r] = "write"
    /\ StatusWritten
    /\ Stage(r, "none")
    /\ UNCHANGED <<kind, policy, spend, month, incident, kept, soft, call, row, gate, left>>

(* reapOrphanedRuns ends a run that nobody executes, or notes that its       *)
(* process has outlived the server, whatever has become of the row.          *)
Orphan(r) == row[r] = "running" /\ exec[r] = "none"

Reap(r) == Orphan(r) /\ Ends(r)

FindDetached(r) ==
    /\ Orphan(r)
    /\ Stage(r, "note")
    /\ UNCHANGED <<kind, policy, scope, spend, month, incident, kept, soft, call, row, gate,
                   left, amiss>>

NoteDetached(r) ==
    /\ exec[r] = "note"
    /\ row' = [row EXCEPT ![r] = "running"]
    /\ Stage(r, "none")
    /\ amiss' = IF row[r] = "running" THEN amiss ELSE amiss \cup {"unseen"}
    /\ UNCHANGED <<kind, policy, scope, spend, month, incident, kept, soft, call, gate, left>>

(************************ the calendar and crashes **************************)

(* A month begins; nothing in the code takes note of it.                     *)
NextMonth ==
    /\ month < LastMonth /\ Act
    /\ month' = month + 1
    /\ spend' = IF kind = "project" THEN spend ELSE 0
    /\ amiss' = IF scope.reason = "budget" THEN amiss \cup {"late"} ELSE amiss
    /\ UNCHANGED <<kind, policy, scope, incident, kept, soft, call, row, gate, exec>>

(* The reaper sees to the runs that the process leaves running.              *)
Crash ==
    /\ Act
    /\ call' = [c \in Calls |-> Idle]
    /\ gate' = [r \in Runs |-> NoGate]
    /\ exec' = [r \in Runs |-> "none"]
    /\ amiss' = IF call' = call THEN amiss ELSE amiss \cup {"late", "lifted", "unseen"}
    /\ UNCHANGED <<kind, policy, scope, spend, month, incident, kept, soft, row>>

CallStep(c) ==
    \/ ReadPolicy(c) \/ Observe(c) \/ FindSoft(c) \/ InsertSoft(c)
    \/ Find(c) \/ Insert(c) \/ PauseScope(c) \/ Sweep(c) \/ CancelFound(c)
    \/ Measure(c) \/ CheckRaise(c) \/ WriteRaise(c) \/ Resume(c) \/ ResolveOpen(c)

Board(c) ==
    \/ \E amount \in Amounts, active \in BOOLEAN : Upsert(c, amount, active)
    \/ \E amount \in Amounts : RaiseAndResume(c, amount)
    \/ BoardPause(c)

GateStep(r) ==
    \/ Enter(r) \/ GateScope(r) \/ GatePolicy(r) \/ GateSpend(r) \/ GateRefuse(r) \/ Admit(r)

RunStep(r) ==
    \/ ReturnQuietly(r) \/ MarkRunning(r) \/ RunEnds(r) \/ FinalizeRead(r) \/ FinalizeWrite(r)
    \/ Reap(r) \/ FindDetached(r) \/ NoteDetached(r)

Next ==
    \/ \E c \in Calls : Report(c) \/ CallStep(c) \/ Board(c)
    \/ \E m \in Months : KeepPaused(m) \/ DismissSoft(m)
    \/ \E paused \in BOOLEAN : BoardPatch(paused)
    \/ BoardResume \/ NextMonth \/ Crash
    \/ \E r \in Runs : GateStep(r) \/ RunStep(r)

Spec == Init /\ [][Next]_vars

-------------------------------------------------------------------------------
Settled ==
    /\ \A c \in Calls : call[c] = Idle
    /\ \A r \in Runs : gate[r] = NoGate /\ exec[r] \in {"none", "work"}

(* Once every call has ended nothing runs under an exceeded hard stop,       *)
(* although the wakes and the claims read the spend before they write, the   *)
(* sweep looks once, evaluations may fail on the unique index of the hard    *)
(* incidents, the board may lift the pause and a run may write over it: the  *)
(* gate looks at the spend itself (test budgets-service.test.ts:154).  It    *)
(* takes one of these to leave a run going: a raise that was checked before  *)
(* the last cost event and reactivates a policy that is exceeded already;    *)
(* an evaluation of the overrun that ended before its pause, since it lost   *)
(* the insert of a soft incident (budgets.ts:672, before the limit is looked *)
(* at) or in a crash, and no other one after it; the reaper's note on a run  *)
(* that has just been cancelled (heartbeat.ts:6507).                         *)
NothingRunsOverBudget ==
    Settled /\ Exceeded /\ amiss \cap {"blind", "unseen"} = {} => \A r \in Runs : row[r] # "running"

(* An overrun is never missed: unless the board intervened, a change of the  *)
(* policy lifted the pause on a sum it had read earlier, a run of the agent  *)
(* wrote its own status over the pause (heartbeat.ts:7528, 6230), or the     *)
(* evaluation ended before its pause as above, the scope of an exceeded      *)
(* budget is paused (doc/SPEC-implementation.md:726).                        *)
OverrunStops ==
    Settled /\ Exceeded /\ amiss \cap {"lifted", "blind", "unseen"} = {} => scope.paused

(* And a scope is not left paused for a budget it is within, unless it was   *)
(* paused on a limit already raised, or a month has gone by.                 *)
StopsOnlyOverruns ==
    Settled /\ scope.paused /\ scope.reason = "budget" /\ "late" \notin amiss
        => Limits(policy.amount)

(* A pause for the budget is always preceded by an incident for the board,   *)
(* of which it may have disposed since.                                      *)
PausedWithIncident ==
    scope.reason = "budget" => Known

(* No budget decision, raise or turn of the month lifts the board's pause of *)
(* an agent.  Only the board does, or a run that was on its way: one that    *)
(* is past its gates and marks the agent running (heartbeat.ts:7528), or a   *)
(* finalization that saw the agent before the pause (heartbeat.ts:6230).     *)
(* What is paused at rest stays paused until the board acts.                 *)
ManualPauseKept ==
    [][kind = "agent" /\ scope.reason = "manual" /\ scope.paused /\ ~scope'.paused =>
         \/ left' # left /\ call' = call
         \/ \E r \in Runs : exec[r] # exec'[r] /\ exec[r] \in {"begin", "write"}]_vars

(* Board notified (doc/SPEC.md:299): while an agent is paused for its budget *)
(* the board has an incident of it to decide on, or has decided to keep the  *)
(* pause.                                                                    *)
BoardNotified ==
    Settled /\ scope.paused /\ scope.reason = "budget"
        => kept # {} \/ \E m \in Months : incident[m] = "open"

-------------------------------------------------------------------------------
(* The incident comes first on every path to a pause.                        *)
StopInv ==
    /\ PausedWithIncident
    /\ \A c \in Calls : At(c, "pause") => Known

(* A call that is bound to pause the scope, or has found it paused already.  *)
Stops(c) ==
    \/ At(c, "policy") \/ At(c, "find") \/ At(c, "pause")
    \/ call[c].step \in {"warn", "notify"} /\ call[c].over
    \/ call[c].step \in {"observe", "measure"} /\ Limits(call[c].limit)
    \/ At(c, "insert") /\ incident[call[c].window] = "none"

(* A call that will cancel the run if the run is still there.                *)
Chases(c, r) ==
    \/ Stops(c) \/ At(c, "sweep")
    \/ At(c, "cancel") /\ r \in call[c].found

(* A call that will look for a pause to lift.                                *)
Lifts(c) ==
    \/ At(c, "resume")
    \/ At(c, "measure") /\ call[c].limit = policy.amount

(* A claim that will not look at the spend any more, or on a limit it is     *)
(* within.                                                                   *)
PastTheSpend(r) ==
    \/ gate[r].step = "pass"
    \/ gate[r].step = "spend" /\ ~Limits(gate[r].limit)

Hot(r) ==
    \/ row[r] = "running"
    \/ row[r] = "queued" /\ PastTheSpend(r)

(* A run that slips through the gate of an exceeded budget is chased: the    *)
(* evaluation of the overrun is still ahead of its sweep.                    *)
HotIsChased ==
    Exceeded /\ amiss \cap {"blind", "unseen"} = {} =>
        \A r \in Runs : Hot(r) => \E c \in Calls : Chases(c, r)

(* An overrun whose scope is not paused yet has a call that will pause it.   *)
OverrunIsMet ==
    Exceeded /\ amiss \cap {"lifted", "blind", "unseen"} = {} =>
        scope.paused \/ \E c \in Calls : Stops(c)

(* A pause without an overrun has a call that will lift it.                  *)
PauseIsMet ==
    scope.reason = "budget" /\ "late" \notin amiss =>
        Limits(policy.amount) \/ \E c \in Calls : Lifts(c)
=============================================================================
