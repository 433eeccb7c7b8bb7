SPECIFICATION Spec
CONSTANTS
    Refreshes = {r1, r2, r3}
    Logins = {l1}
    Logouts = {}
    NoToken = NoToken
    ConcurrentThreshold = 2
    FaultKinds = {"audit", "store", "crash", "resend"}
    MaxFaults = 2
SYMMETRY Symmetry
INVARIANTS IInv SingleUse LockExcludes FailureLeavesNothing HonestClientServed
CHECK_DEADLOCK FALSE
