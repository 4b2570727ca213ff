SPECIFICATION Spec

CONSTANTS
  AssetId = {a1}
  NoAsset = NoAsset
  KindCount = 1
  Workers = {w1}
  Requests = {}
  Notifiers = {n1}
  MaxAttempts = 2
  MaxEventAttempts = 2
  MaxFaults = 1
  FaultKinds = {"crash"}
  MaxCalls = 0
  CleanupRuns = 0
  Accepted = {a1}
  Uploads = {}
  TimePasses = {}

CHECK_DEADLOCK FALSE

INVARIANTS
  NotifiedOnce
