SPECIFICATION FairSpec
CONSTANTS
  NumShards = 1
  NumLanes = 1
  QueueSize = 2
  Workers = {w1}
  j1 = j1
  j2 = j2
  j3 = j3
  j4 = j4
  Jobs = {j1, j2}
  KeyHash <- MCKeyHash
  JobLane <- MCJobLane
  Quotas <- OneEach
  NoPolicy = NoPolicy
  Updaters = {}
  Stoppers = {}
  DrainChoices = {TRUE}
  Cancellable = {j1}
  StartCtxMayCancel = FALSE
  StopCtxMayExpire = FALSE
PROPERTY AcceptedJobRuns
CHECK_DEADLOCK FALSE
