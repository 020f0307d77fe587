SPECIFICATION Spec
CONSTANTS
  NumShards = 2
  NumLanes = 1
  QueueSize = 2
  Workers = {w1, w2}
  j1 = j1
  j2 = j2
  j3 = j3
  j4 = j4
  Jobs = {j1, j2, j3, j4}
  KeyHash <- MCKeyHash
  JobLane <- MCJobLane
  Quotas <- OneOrTwoEach
  NoPolicy = NoPolicy
  Updaters = {u1}
  Stoppers = {}
  DrainChoices = {TRUE}
  Cancellable = {j1}
  StartCtxMayCancel = TRUE
  StopCtxMayExpire = FALSE
SYMMETRY WorkerSymmetry
INVARIANTS TypeOK SingleAnnouncement ChannelHasRoom NoLostWakeup GaugesExact
CHECK_DEADLOCK FALSE
