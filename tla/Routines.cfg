SPECIFICATION Spec
CONSTANTS
  Calls = {c1, c2}
  NoCall = NoCall
  Issues = {i1, i2}
  NoIssue = NoIssue
  Cap = 2
  Setups <- MCSetups
  Horizon = 2
SYMMETRY Symmetry
INVARIANTS TypeOK OneLiveDispatch FiredOnceUnlessOverrun CollisionHasCause
CHECK_DEADLOCK FALSE
