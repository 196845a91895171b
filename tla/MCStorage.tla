------------------------------ MODULE MCStorage ------------------------------
(* What runs beside the collectors: the retention script over snapshots;     *)
(* backups, the two prunings of them and the replacement of production; and  *)
(* the syncs that record what they published.  The three share no state, so  *)
(* one of them moves while the others stay at rest.                          *)
(* DeviceSync has two workers.                                               *)
EXTENDS MCSnapshotRetention, BackupStore, DeviceSync

CONSTANTS
  w1, w2, h1, h2, nightly,
  OutageDay,    \* bound: the last day of a behaviour in which production is replaced
  MoveTime      \* bound: moments of one in which the firewall is another

VARIABLE part   \* what moves

MCWorkers == {w1, w2}
MCHosts == {h1, h2}
MCJobs == {nightly}

MCStorageInit ==
  /\ part \in {"snapshots", "prunings", "backups", "script", "one firewall", "two firewalls"}
  /\ MCInit /\ BackupInit /\ SyncInit
  /\ row.host = h1

\* Production is not replaced, or it is, in fewer days, by an operator beside whom
\* only backups are scheduled, or the retention script runs and no other backup than
\* his once production is dropped.
OnlyPrunings == BackupNext /\ outage' = "none"
BesideBackups == BackupNext /\ day' <= OutageDay /\ at'["retention"] = "idle"
BesideScript == BackupNext /\ day' <= OutageDay /\ (lost' # Blank => at'[nightly] = "idle")

\* The firewall stays the same, or may be another, in fewer moments.
OneFirewall == SyncNext /\ (row' \in Devices => row'.host = h1)
TwoFirewalls == SyncNext /\ clock' <= MoveTime

MCStorageNext ==
  /\ part' = part
  /\ \/ part = "snapshots" /\ RNext /\ UNCHANGED <<backupVars, syncVars>>
     \/ part = "prunings" /\ OnlyPrunings /\ UNCHANGED <<allVars, syncVars>>
     \/ part = "backups" /\ BesideBackups /\ UNCHANGED <<allVars, syncVars>>
     \/ part = "script" /\ BesideScript /\ UNCHANGED <<allVars, syncVars>>
     \/ part = "one firewall" /\ OneFirewall /\ UNCHANGED <<allVars, backupVars>>
     \/ part = "two firewalls" /\ TwoFirewalls /\ UNCHANGED <<allVars, backupVars>>

\* The columns of a device's row, the files of a backup and what every program
\* holds are of their types.
TypesOK == SyncTypeOK /\ BackupTypeOK

MCStorageSpec == MCStorageInit /\ [][MCStorageNext]_<<part, allVars, backupVars, syncVars>>
=============================================================================
