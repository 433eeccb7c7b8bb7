SPECIFICATION Spec
CONSTANTS
    Sessions = {s1, s2}
    Logins = {l1, l2}
    Refreshes = {r1}
    Logouts = {o1}
    RevokeAlls = {a1}
    NoToken = NoToken
    NoSession = NoSession
    AccessLife = 2
    RefreshLife = 2
    MaxFallback = 2
    Rotates = TRUE
    Prompt = FALSE
SYMMETRY Symmetry
INVARIANTS TypeOK RevokeAllCovers RecordOutlivesToken
PROPERTY ImplementsFamilies
CHECK_DEADLOCK FALSE
