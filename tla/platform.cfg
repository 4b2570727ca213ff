SPECIFICATION Spec

CONSTANTS
  AssetId = {a1}
  NoAsset = NoAsset
  KindCount = 2
  Workers = {w1}
  Requests = {r1, r2}
  Notifiers = {}
  MaxAttempts = 2
  MaxEventAttempts = 1
  MaxFaults = 1
  FaultKinds = {"publish", "confirm", "refused", "store", "request", "crash", "database", "commit", "connection"}
  MaxCalls = 4
  CleanupRuns = 1
  Accepted = {}
  Uploads = {"valid", "corrupt", "huge"}
  TimePasses = {"stale", "old"}

CHECK_DEADLOCK FALSE

SYMMETRY Replicas

INVARIANTS
  RowsHaveObjects
  ReasonMeansFailed
PROPERTIES
  DeletedStaysDeleted
  FollowsLifecycle
