SPECIFICATION Spec

CONSTANTS
  AssetId = {a1}
  NoAsset = NoAsset
  KindCount = 1
  Workers = {}
  Requests = {r1, r2}
  Notifiers = {}
  MaxAttempts = 1
  MaxEventAttempts = 1
  MaxFaults = 0
  FaultKinds = {}
  MaxCalls = 5
  CleanupRuns = 0
  Accepted = {}
  Uploads = {"valid", "huge"}
  TimePasses = {}

CHECK_DEADLOCK FALSE


INVARIANTS
  OnePublisherPerImage
