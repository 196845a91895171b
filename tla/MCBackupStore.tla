---------------------------- MODULE MCBackupStore ----------------------------
(* BackupStore with one run of the backup at a time, scheduled or by hand.   *)
EXTENDS BackupStore

CONSTANT nightly

MCJobs == {nightly}
=============================================================================
