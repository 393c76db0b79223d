SPECIFICATION Spec
CONSTANTS
  Runs = {r1, r2}
  PatchTo = {"idle", "running", "terminated"}
  MaxCalls = 3
INVARIANTS TypeOK IdleAtRest HiredOnlyByApproval
PROPERTIES TerminationSettles DecisionKept
CHECK_DEADLOCK FALSE
