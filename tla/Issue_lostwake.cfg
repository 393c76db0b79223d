SPECIFICATION Spec
CONSTANTS
  Agents = {a1, a2}
  NoAgent = NoAgent
  MaxRuns = 3
  MaxAttempts = 1
  Budgets <- CommentsAndFailure
SYMMETRY Symmetry
INVARIANTS DeferredHasCarrier
CHECK_DEADLOCK FALSE
