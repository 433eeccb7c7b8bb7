SPECIFICATION Spec
CONSTANTS
    Reports = {p1, p2}
    ReportTypes = {"concurrent_refresh"}
    Requests = {q1, q2}
    Releases = {e1}
    ConcurrentThreshold = 2
    AgentThreshold = 2
    IpAction = "quarantine"
    DeviceAction = "audit"
    FaultKinds = {"audit", "store"}
    MaxFaults = 1
SYMMETRY Symmetry
INVARIANTS TypeOK CounterLapses ThresholdQuarantines QuarantinedForCause ChangeAnswered
CHECK_DEADLOCK FALSE
