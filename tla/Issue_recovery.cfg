SPECIFICATION OneStart
CONSTANTS
  Agents = {a1, a2}
  NoAgent = NoAgent
  MaxRuns = 3
  MaxAttempts = 1
  Budgets <- CrashFailureAndHold
PROPERTIES FailedWorkFollowedUp TerminalIsFinal
CHECK_DEADLOCK FALSE
