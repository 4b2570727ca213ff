SPECIFICATION Spec

CONSTANTS
  AssetId = {a1}
  NoAsset = NoAsset
  KindCount = 1
  Workers = {}
  Requests = {r1, r2, r3}
  Notifiers = {}
  MaxAttempts = 1
  MaxEventAttempts = 1
  MaxFaults = 3
  FaultKinds = {"publish", "confirm", "crash"}
  MaxCalls = 6
  CleanupRuns = 1
  Accepted = {}
  Uploads = {"valid", "corrupt"}
  TimePasses = {"stale", "old"}

CHECK_DEADLOCK FALSE

SYMMETRY Replicas

INVARIANTS
  OnePublisherPerImage
