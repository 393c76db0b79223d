SPECIFICATION FairSpec
CONSTANTS
  Calls = {c1, c2}
  NoCall = NoCall
  Runs = {r1, r2}
  NoRun = NoRun
  MaxConcurrent = 1
  SlowBodies = FALSE
  ApiRuns = {r2}
  GatedRuns = {r1}
  MaxOutermost = 1
  MaxThrows = 1
INVARIANTS SerialUnlessForced TypeOK OverbookedOnlyIfForced ClaimedOnce RunningHasExecutor 
PROPERTIES QueuedRunDecided
