CONSTANTS
    a = a
    b = b
    c = c
    c1 = c1
    c2 = c2
    Keys = {a, b, c}
    NoKey = NoKey
    HotKeyConfig <- MCHotKeyConfig
    Lanes = {"api", "batch"}
    Reqs <- MCReqs
    KeyOf <- MCKeyOf
    LaneOf <- MCLaneOf
    Shards = {0}
    ShardOf <- MCShardOf
    Callers = {c1, c2}
    Workloads <- MCWorkloads
    QueueSize = 1
    OverloadEnabled = TRUE
    AdmissionEnabled = TRUE
    PerKeyAdmission <- MCPerKey
    OverloadPolicies <- MCOverloadPolicies
    AdmissionPolicies <- MCAdmissionPolicies
SPECIFICATION Spec
INVARIANTS TypeOK IndexExact InflightJustified QueuedDriftBounded MitigationIsolated ObserversAgree  SnapshotOrdered
PROPERTY QuietKeyAdmitted
