SPECIFICATION Spec
CONSTANTS
    Refreshes = {r1}
    Logins = {l1}
    Logouts = {o1}
    NoToken = NoToken
    ConcurrentThreshold = 2
    FaultKinds = {}
    MaxFaults = 0
INVARIANT LogoutEndsSession
CHECK_DEADLOCK FALSE
