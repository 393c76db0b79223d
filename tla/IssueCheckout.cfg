SPECIFICATION Spec
CONSTANTS
    a = a
    b = b
    ra = ra
    sa = sa
    rb = rb
    c1 = c1
    c2 = c2
    NoAgent = NoAgent
    NoRun = NoRun
    Keep = Keep
    Agents = {a, b}
    Runs = {ra, sa, rb}
    Calls = {c1, c2}
    AgentOf <- MCAgentOf
    OnIssue = {ra, rb}
    Managers = {b}
    Patches <- MCPatches
    MaxCalls = 2
SYMMETRY Symmetry
CHECK_DEADLOCK FALSE
INVARIANTS TypeOK CheckedOutInProgress CheckoutHoldsLock
PROPERTIES ImplementsOwner LockMovesByAdoption ReleaseSparesWhatItSaw
