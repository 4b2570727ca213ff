SPECIFICATION Spec

CONSTANTS
  AssetId = {a1}
  NoAsset = NoAsset
  KindCount = 1
  Workers = {w1}
  Requests = {r1}
  Notifiers = {}
  MaxAttempts = 2
  MaxEventAttempts = 1
  MaxFaults = 1
  FaultKinds = {"publish"}
  MaxCalls = 1
  CleanupRuns = 1
  Accepted = {a1}
  Uploads = {}
  TimePasses = {"old"}

CHECK_DEADLOCK FALSE

PROPERTIES
  CleanupSparesImages
