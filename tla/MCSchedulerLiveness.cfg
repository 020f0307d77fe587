SPECIFICATION FairSpec
CONSTANTS
  NumShards = 1
  NumLanes = 2
  QueueSize = 2
  Workers = {w1, w2}
  j1 = j1
  j2 = j2
  j3 = j3
  j4 = j4
  Jobs = {j1, j2, j4}
  KeyHash <- MCKeyHash
  JobLane <- MCJobLane
  Quotas <- OneEach
  NoPolicy = NoPolicy
  Updaters = {}
  Stoppers = {p1}
  DrainChoices = {TRUE}
  Cancellable = {}
  StartCtxMayCancel = FALSE
  StopCtxMayExpire = FALSE
PROPERTIES ImplementsJobLifecycle QueuedJobRuns StopReturns
