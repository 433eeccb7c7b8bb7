SPECIFICATION Spec
CONSTANTS
    Refreshes = {r1, r2}
    Logins = {l1, l2}
    Logouts = {o1}
    NoToken = NoToken
    ConcurrentThreshold = 2
    FaultKinds = {"audit", "store"}
    MaxFaults = 1
SYMMETRY Symmetry
INVARIANTS ReplayKillsFamily
PROPERTY ImplementsTokenFamily
CHECK_DEADLOCK FALSE
