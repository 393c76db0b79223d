SPECIFICATION Spec
CONSTANTS
  Agents = {a1, a2}
  NoAgent = NoAgent
  MaxRuns = 3
  MaxAttempts = 1
  Budgets <- AllSafety
SYMMETRY Symmetry
INVARIANTS TypeOK 
PROPERTIES CheckoutNamesOwner 
CHECK_DEADLOCK FALSE
