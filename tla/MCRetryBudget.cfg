CONSTANTS
    a = a
    b = b
    Jobs <- MCJobs
    Requests <- MCRequests
    RequestCfg <- MCRequestCfg
    QueueRetry <- NoPolicy
    QueueSuppression <- NoSuppression
    IdempotencyPolicy <- MCIdempotencyPolicy
    BackendEnabled = TRUE
    MaxInFlight <- MCMaxInFlight
    Snapshots <- MCSnapshots
    WorkHorizon = 2
    DurationMax = 1000
    Classifier <- MCClassifier
SPECIFICATION Spec
INVARIANT RetryFitsBudget
CHECK_DEADLOCK FALSE
