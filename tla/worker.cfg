SPECIFICATION Spec

CONSTANTS
  AssetId = {a1}
  NoAsset = NoAsset
  KindCount = 3
  Workers = {w1, w2}
  Requests = {r1}
  Notifiers = {}
  MaxAttempts = 3
  MaxEventAttempts = 1
  MaxFaults = 4
  FaultKinds = {"database", "commit", "store", "publish", "confirm", "connection", "crash"}
  MaxCalls = 1
  CleanupRuns = 0
  Accepted = {a1}
  Uploads = {}
  TimePasses = {}

CHECK_DEADLOCK FALSE

SYMMETRY Replicas

INVARIANTS
  TypeOK
  DoneIsComplete
  GoodFileKeepsItsJob
  DeadLettersAreLastAttempts
