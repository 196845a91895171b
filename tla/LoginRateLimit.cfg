SPECIFICATION FairSpec
CONSTANTS
  w1 = w1
  w2 = w2
  alice = alice
  bob = bob
  home = home
  None = None
  Cleaner = Cleaner
  Workers <- MCWorkers
  Users <- MCUsers
  Sources <- MCSources
  UserAttempts = 2
  SourceAttempts = 1
  Window = 2
  Block = 2
  Retention = 2
  MaxDelay = 1
  MaxTime = 3
INVARIANTS
  MissesFewFailures
  ExcessBounded
PROPERTIES
  BlockNeverShortened
  RequestsEnd
