SPECIFICATION Spec
CONSTANTS
    Sessions = {s1}
    Logins = {l1}
    Refreshes = {r1}
    Logouts = {}
    RevokeAlls = {a1}
    NoToken = NoToken
    NoSession = NoSession
    AccessLife = 1
    RefreshLife = 3
    MaxFallback = 2
    Rotates = TRUE
    Prompt = TRUE
INVARIANT RevokeAllEndsEverySession
CHECK_DEADLOCK FALSE
