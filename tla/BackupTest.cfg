SPECIFICATION BackupSpec
CONSTANTS
  nightly = nightly
  Jobs <- MCJobs
  Operator = nightly
  KeepMinimum = 1
  RetentionDays = 2
  CriticalAge = 1
  MaxDumps = 2
  MaxDay = 2
  MaxRev = 2
  NoBlog = 2
INVARIANTS
  WholeBackupPasses
