SPECIFICATION Spec
CONSTANTS
    Issues = {i1, i2}
    Verifies = {v1}
    Revokes = {k1}
    Activations = {a1}
    Drops = {d1}
    SessionIds = {s1, s2}
    Scopes = {x1}
    RouteScopes = {x1, x2}
    NoToken = NoToken
    AgentThreshold = 1
    FaultKinds = {"audit", "store", "crash"}
    MaxFaults = 1
SYMMETRY Symmetry
INVARIANTS AcceptedIsEntitled RevokedHasNoSession FailedIssueLeavesNothing HonestAgentServed
CHECK_DEADLOCK FALSE
