SPECIFICATION Spec

CONSTANTS
  AssetId = {a1}
  NoAsset = NoAsset
  KindCount = 1
  Workers = {}
  Requests = {r1}
  Notifiers = {}
  MaxAttempts = 1
  MaxEventAttempts = 1
  MaxFaults = 1
  FaultKinds = {"confirm"}
  MaxCalls = 2
  CleanupRuns = 0
  Accepted = {}
  Uploads = {"valid"}
  TimePasses = {}

CHECK_DEADLOCK FALSE

INVARIANTS
  UnsubmittedHasNoJob
