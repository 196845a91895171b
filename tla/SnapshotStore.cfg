SPECIFICATION FairSpec
CONSTANTS
  web = web
  cli = cli
  None = None
  Collectors <- MCCollectors
  Ids <- MCIds
  Keep <- MCKeep
  NumFiles = 1
  ClockMayStepBack = FALSE
  Rollbacks = "unlocked"
INVARIANTS
  ActiveIntact
  PublicationExclusive
  RetainedIntact
PROPERTIES
  PrunedToKeep
  LockReleased
  ImplementsActiveSnapshot
