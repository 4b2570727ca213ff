SPECIFICATION Spec

CONSTANTS
  AssetId = {a1}
  NoAsset = NoAsset
  KindCount = 1
  Workers = {w1, w2}
  Requests = {}
  Notifiers = {}
  MaxAttempts = 1
  MaxEventAttempts = 1
  MaxFaults = 2
  FaultKinds = {"connection", "store"}
  MaxCalls = 0
  CleanupRuns = 0
  Accepted = {a1}
  Uploads = {}
  TimePasses = {}

CHECK_DEADLOCK FALSE

PROPERTIES
  DoneIsFinal
