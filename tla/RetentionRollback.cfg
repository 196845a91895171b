SPECIFICATION MCSpec
CONSTANTS
  web = web
  None = None
  Collectors <- MCCollectors
  Ids <- MCIds
  Keep <- MCKeep
  NumFiles = 1
  ClockMayStepBack = FALSE
  Rollbacks = "unlocked"
  RetentionKeep = 1
  StagingMaxAge = 1
  PublishTime = 1
  ReadsMayFail = FALSE
INVARIANTS
  ActiveAlwaysProtected
