SPECIFICATION MCStorageSpec
CONSTANTS
  web = web
  None = None
  Collectors <- MCCollectors
  Ids <- MCIds
  Keep <- MCKeep
  NumFiles = 1
  ClockMayStepBack = FALSE
  Rollbacks = "unlocked"
  RetentionKeep = 1
  StagingMaxAge = 1
  PublishTime = 1
  ReadsMayFail = TRUE
  nightly = nightly
  Jobs <- MCJobs
  Operator = nightly
  KeepMinimum = 1
  RetentionDays = 2
  CriticalAge = 1
  MaxDumps = 2
  MaxDay = 3
  OutageDay = 2
  MaxRev = 2
  NoBlog = 2
  w1 = w1
  w2 = w2
  h1 = h1
  h2 = h2
  Workers <- MCWorkers
  Hosts <- MCHosts
  MaxTime = 4
  MoveTime = 3
  Null = Null
INVARIANTS
  PublishesWholeSnapshot
  TypesOK
  YoungAndNewestRetained
  PassedIsRestorable
  HealthyIsRestorable
  DroppedIsInADump
  RowTellsOneRun
  RecordedIsPublished
  OwnSnapshotInForce
PROPERTIES
  SparesWhatItRead
