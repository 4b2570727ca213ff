SPECIFICATION SurroundingsSpec

CONSTANTS
  Main = main
  Probes = {p1}
  Nobody = nobody
  MaxTroubles = 2
  FirstDelay = 1
  MaxDelay = 2
  Migrators = {1, 2}
  Release <- TwoReleases
  NoMigrator = nobody
  BackoffLimit = 2
  MaxOutages = 2
  BucketBackoffLimit = 2
  MaxAbsences = 2
  AssetId = {1, 2, 3}
  KindCount = 1
  Matching = {1, 3}
  MatchLimit = 2
  MaxPageSize = 2
  AskedPages = {0, 2}
  AskedSizes = {3}
  Failing = {1}
  Removable = {1}
  Writers = {w1, w2}
  FirstPage = 2
  MaxClock = 3
  MaxOpen = 2
  Spelling = {"Ann ", "ann", "bob"}
  Normal <- Typed
  Password = {"one", "two"}
  Clients = {c1, c2}
  DeadQueues = 2
  MaxDead = 2
  Pictures <- SomePictures
  Targets = {3, 8, 12}
  Values <- SomeValues

CHECK_DEADLOCK FALSE

INVARIANTS
  BadTagsAreHarmless
