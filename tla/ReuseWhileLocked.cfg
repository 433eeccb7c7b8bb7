SPECIFICATION Spec
CONSTANTS
    Refreshes = {r1, r2, r3}
    Logins = {l1}
    Logouts = {}
    NoToken = NoToken
    ConcurrentThreshold = 2
    FaultKinds = {}
    MaxFaults = 0
INVARIANT ReuseRevokes
CHECK_DEADLOCK FALSE
