CONSTANTS
    k1 = k1
    k2 = k2
    pA = pA
    pB = pB
    t1 = t1
    admin = admin
    writer = writer
    Kids = {k1, k2}
    Pairs = {pA, pB}
    MaxKeys = 3
    Emitters = {r1}
    Sinks = {s1, s2}
    Configs <- MCConfigs
    FirstConfig <- Before
    Route <- MCRoute
    Claims <- MCClaims
    Tenants = {t1}
    NoTenant = NoTenant
    TenantScoped = TRUE
    MoveQuarantines = TRUE
    MaxTokens = 2
    MaxDeploys = 2
    MaxFaults = 1
SPECIFICATION Spec
SYMMETRY Symmetry
CHECK_DEADLOCK FALSE
INVARIANTS TypeOK ServedWasEntitled RefusedForCause RefusalsRecorded ResourceServersAgree
