SPECIFICATION Spec
CONSTANTS
  Calls = {c1, c2}
  NoCall = NoCall
  Runs = {r1, r2, r3}
  NoRun = NoRun
  MaxConcurrent = 1
  SlowBodies = FALSE
  ApiRuns = {}
  GatedRuns = {r1, r2, r3}
  MaxOutermost = 1
  MaxThrows = 0
SYMMETRY Symmetry
INVARIANTS NoOverbooking
