SPECIFICATION FairSpec

CONSTANTS
  AssetId = {a1}
  NoAsset = NoAsset
  KindCount = 1
  Workers = {w1}
  Requests = {r1}
  Notifiers = {n1}
  MaxAttempts = 2
  MaxEventAttempts = 2
  MaxFaults = 2
  FaultKinds = {"database", "commit", "publish", "confirm", "connection", "crash", "channel"}
  MaxCalls = 1
  CleanupRuns = 0
  Accepted = {a1}
  Uploads = {}
  TimePasses = {}

CHECK_DEADLOCK FALSE

INVARIANTS
  SentWasDelivered
  NeverSilent
PROPERTIES
  DeletedStaysDeleted
  AcceptedIsSettled
  AnnouncedIsNotified
