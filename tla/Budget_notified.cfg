SPECIFICATION Spec
CONSTANTS
    Kinds = {"agent"}
    Calls = {c1}
    Runs = {r1}
    FirstAmount = 1
    WarnPercent = 80
    Amounts = {2}
    MaxSpend = 2
    LastMonth = 0
    MaxActs = 1
    c1 = c1
    r1 = r1
CHECK_DEADLOCK FALSE
INVARIANT BoardNotified
