SPECIFICATION Spec
CONSTANTS
    Kinds = {"agent", "company", "project"}
    Calls = {c1, c2}
    Runs = {r1}
    FirstAmount = 2
    WarnPercent = 50
    Amounts = {0, 1, 3}
    MaxSpend = 3
    LastMonth = 1
    MaxActs = 2
    c1 = c1
    c2 = c2
    r1 = r1
SYMMETRY Symmetry
CHECK_DEADLOCK FALSE
INVARIANTS TypeOK NothingRunsOverBudget OverrunStops StopsOnlyOverruns PausedWithIncident
PROPERTY ManualPauseKept
