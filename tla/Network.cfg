SPECIFICATION NetworkSpec
CONSTANTS
    client1 = client1
    proxy = proxy
    net = net
    outer = outer
    Addresses = {client1, proxy}
    Trusted = {proxy}
    Unknown = Unknown
    NoHeader = NoHeader
    MaxHops = 2
    Networks = {net, outer}
    Covers <- MCCovers
    Adds = {a1, a2}
    Removes = {r1}
    Checks = {c1}
    Lists = {l1}
    BatchSize = 1
    MaxFaults = 1
    Keys = {k1}
    Limited = {q1, q2}
    MaxKeys = 4
    One = 3
    Capacity = 6
    Rate = 1
    Second = 2
    MinTtl = 1
    MaxTtl = 5
    MaxSkew = 1
    MaxDelay = 1
    MaxOutages = 1
    Never = Never
SYMMETRY Symmetry
INVARIANTS AllowedWasListed DeniedForCause BehindTrustedProxies  
CHECK_DEADLOCK FALSE
