SPECIFICATION Spec
CONSTANTS
  NumShards = 2
  NumLanes = 1
  QueueSize = 2
  Workers = {w1, w2}
  j1 = j1
  j2 = j2
  j3 = j3
  j4 = j4
  Jobs = {j1, j2, j3}
  KeyHash <- MCKeyHash
  JobLane <- MCJobLane
  Quotas <- OneEach
  NoPolicy = NoPolicy
  Updaters = {}
  Stoppers = {p1, p2}
  DrainChoices = {TRUE, FALSE}
  Cancellable = {}
  StartCtxMayCancel = FALSE
  StopCtxMayExpire = TRUE
INVARIANTS DrainedMeansEmpty StoppedMeansQuiet
SYMMETRY WorkerSymmetry
CHECK_DEADLOCK FALSE
