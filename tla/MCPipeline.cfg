CONSTANTS
    req_deadline = req_deadline
    req_retry = req_retry
    req_first = req_first
    req_second = req_second
    Reqs <- MCReqs
    Workloads <- MCWorkloads
    HasDeadline = {req_deadline, req_retry}
    Cancellable = {req_deadline, req_retry}
    Stages <- MCStages
    StageErrors = {"retryable"}
    Callers <- MCCallers
    ShardOf <- MCShardOf
    MaxPending = 2
    MaxPendingPerShard = 1
    QueueCap = 1
    Retry <- MCRetry
    Idem <- MCIdem
    IdemPolicy <- MCIdemPolicy
    Suppression <- MCSuppression
    Snapshots <- MCSnapshots
    DurationMax = 1000
    Classifier <- MCClassifier
SPECIFICATION FairSpec
INVARIANTS TypeOK OneDriver RegistryExact AtMostOneAccepted
PROPERTY EveryPipelineEnds
CHECK_DEADLOCK FALSE
