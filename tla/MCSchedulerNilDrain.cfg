SPECIFICATION Spec
CONSTANTS
  NumShards = 1
  NumLanes = 1
  QueueSize = 2
  Workers = {w1}
  j1 = j1
  j2 = j2
  j3 = j3
  j4 = j4
  Jobs = {j1, j2}
  KeyHash <- MCKeyHash
  JobLane <- MCJobLane
  Quotas <- OneEach
  NoPolicy = NoPolicy
  Updaters = {}
  Stoppers = {p1, p2}
  DrainChoices = {TRUE}
  Cancellable = {}
  StartCtxMayCancel = FALSE
  StopCtxMayExpire = TRUE
INVARIANT NilDrainMeansProcessed
CHECK_DEADLOCK FALSE
