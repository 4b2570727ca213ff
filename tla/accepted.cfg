SPECIFICATION Spec

CONSTANTS
  AssetId = {a1}
  NoAsset = NoAsset
  KindCount = 1
  Workers = {w1}
  Requests = {r1, r2}
  Notifiers = {}
  MaxAttempts = 2
  MaxEventAttempts = 1
  MaxFaults = 2
  FaultKinds = {"publish", "confirm", "crash", "connection", "database", "commit", "refused"}
  MaxCalls = 4
  CleanupRuns = 1
  Accepted = {}
  Uploads = {"valid", "corrupt"}
  TimePasses = {"stale", "old"}

CHECK_DEADLOCK FALSE

SYMMETRY Replicas

INVARIANTS
  SubmittedHasJob
