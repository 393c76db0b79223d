SPECIFICATION FairSpec
CONSTANTS
  Calls = {c1, c2, c3}
  NoCall = NoCall
  Stale = 3
INVARIANTS TypeOK WaitBounded OvertakesOnlyByTimeout
PROPERTIES ImplementsChain WaiterProceeds GivesUpOnlyOnStale
