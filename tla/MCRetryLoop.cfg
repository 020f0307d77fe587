CONSTANTS
    a = a
    b = b
    Jobs <- MCJobs
    Requests <- MCRequests
    RequestCfg <- MCRequestCfg
    QueueRetry <- NoPolicy
    QueueSuppression <- NoSuppression
    IdempotencyPolicy <- MCIdempotencyPolicy
    BackendEnabled = TRUE
    MaxInFlight <- MCMaxInFlight
    Snapshots <- MCSnapshots
    WorkHorizon = 1
    DurationMax = 1000
    Classifier <- MCClassifier
SPECIFICATION FairSpec
INVARIANTS TypeOK LeaseLedger NoLeaseWhileIdle NoUnsafeDuplicate  SuppressedIsFinal
PROPERTY EveryFutureCompletes
CHECK_DEADLOCK FALSE
