----------------------------- MODULE BackupStore -----------------------------
(***************************************************************************)
(* The backups of the database: scripts/postgres-backup.sh (with           *)
(* postgres-restore-test.sh, which it runs), prune_backup_sets of          *)
(* scripts/storage-retention.py, and the replacement of production by      *)
(* scripts/postgres-restore.sh, in the procedure of                        *)
(* docs/POSTGRES-BACKUP-RESTORE.md.  None of them takes a lock.  Each step *)
(* of a script may be its last one: a command fails (set -e), or the       *)
(* process is killed.                                                      *)
(*                                                                         *)
(* A dump has the number of its publication, which is the order of         *)
(* modification times.  A partial file is read by nobody but the run that  *)
(* writes it: partial files and their removal by age are left out.         *)
(***************************************************************************)
EXTENDS Naturals, FiniteSets

CONSTANTS
  Jobs,            \* runs of postgres-backup.sh that may overlap
  Operator,        \* the one an operator runs by hand
  KeepMinimum,     \* KEEP_MINIMUM
  RetentionDays,   \* RETENTION_DAYS
  CriticalAge,     \* BACKUP_CRITICAL_AGE_HOURS of the monitor, in days
  MaxDumps,        \* bound: dumps published
  MaxDay,          \* bound: days
  MaxRev,          \* bound: revisions of the production data
  NoBlog           \* the first revision after migration 0008

ASSUME BackupAssumption ==
  /\ KeepMinimum \in Nat /\ RetentionDays \in Nat
  /\ CriticalAge \in 0 .. RetentionDays
  /\ MaxDumps \in Nat /\ MaxDay \in Nat /\ MaxRev \in Nat \ {0}
  /\ NoBlog \in Nat
  /\ "retention" \notin Jobs /\ Operator \in Jobs

VARIABLES
  production,   \* what the production database holds
  appUp,        \* is the application running, and writing?
  day,
  last,         \* dumps published so far
  archive,      \* archive[i]: the contents dumped into dump i
  made,         \* made[i]: the day dump i was modified
  dumps,        \* the *.dump files there are
  checksum,     \* checksum[i]: the state of its .sha256 file
  meta,         \* meta[i]: restore_test in its .meta file
  created,      \* created[i]: the day in it, on which the backup began
  at,           \* where each script is
  own,          \* the dump a backup run made
  tests,        \* does it run the restore test?
  started,      \* the day it began
  copy,         \* what a run holds: the partial file, then the disposable database
  left,         \* the dumps a pruning has still to look at
  outage,       \* the replacement of production: where it is, and its backup run
  chosen,       \* the dump it restores
  opened,       \* what pg_restore reads: the file stays open when it is removed
  began,        \* the day it began
  lost          \* history: the contents it dropped first

files == <<last, archive, made, dumps, checksum, meta, created>>
runs == <<at, own, tests, started, copy, left>>
replacement == <<outage, chosen, opened, began, lost>>
backupVars == <<production, appUp, day, files, runs, replacement>>

Numbers == 1 .. MaxDumps
Pruners == Jobs \cup {"retention"}

\* Contents of a database: Blank if it lacks tables of the application, a revision
\* of its data, or Torn(r), which has the tables of revision r but not all its rows.
\* Migration 0008, which drops the blog's tables, makes revision NoBlog.
Contents == 0 .. 2 * MaxRev
Blank == 0
Torn(contents) == IF contents \in 1 .. MaxRev THEN contents + MaxRev ELSE contents
Revision(contents) == IF contents > MaxRev THEN contents - MaxRev ELSE contents

BackupInit ==
  /\ production = 1
  /\ appUp = TRUE /\ day = 0
  /\ last = 0 /\ dumps = {}
  /\ archive = [i \in Numbers |-> Blank]
  /\ made = [i \in Numbers |-> 0]
  /\ checksum = [i \in Numbers |-> "none"]
  /\ meta = [i \in Numbers |-> "none"]
  /\ created = [i \in Numbers |-> 0]
  /\ at = [p \in Pruners |-> "idle"]
  /\ own = [j \in Jobs |-> 0]
  /\ tests = [j \in Jobs |-> TRUE]
  /\ started = [j \in Jobs |-> 0]
  /\ copy = [j \in Jobs |-> Blank]
  /\ left = [p \in Pruners |-> {}]
  /\ outage = "none" /\ chosen = 0 /\ opened = Blank /\ began = 0 /\ lost = Blank

Step(p, from, to) == at[p] = from /\ at' = [at EXCEPT ![p] = to]

(***************************************************************************)
(* postgres-backup.sh                                                      *)
(***************************************************************************)

\* pg_dump reads one consistent state of the database.
Start(j) ==
  /\ Step(j, "idle", "dumping")
  /\ \E b \in BOOLEAN : tests' = [tests EXCEPT ![j] = b]
  /\ copy' = [copy EXCEPT ![j] = production]
  /\ started' = [started EXCEPT ![j] = day]
  /\ UNCHANGED <<own, left>>

StartBackup(j) ==
  /\ Start(j)
  /\ UNCHANGED <<production, appUp, day, files, replacement>>

\* Not empty, listed by pg_restore, renamed to its name.
PublishDump(j) ==
  /\ Step(j, "dumping", "checksum") /\ last < MaxDumps
  /\ last' = last + 1
  /\ archive' = [archive EXCEPT ![last + 1] = copy[j]]
  /\ made' = [made EXCEPT ![last + 1] = day]
  /\ dumps' = dumps \cup {last + 1}
  /\ own' = [own EXCEPT ![j] = last + 1]
  /\ UNCHANGED <<checksum, meta, created, production, appUp, day, tests, started, copy, left,
                 replacement>>

\* sha256sum, into a file the shell has created empty.
OpenChecksum(j) ==
  /\ Step(j, "checksum", "digest")
  /\ checksum' = [checksum EXCEPT ![own[j]] = "cut"]
  /\ UNCHANGED <<last, archive, made, dumps, meta, created, production, appUp, day, own, tests,
                 started, copy, left, replacement>>

WriteChecksum(j) ==
  /\ Step(j, "digest", "meta")
  /\ own[j] \in dumps
  /\ checksum' = [checksum EXCEPT ![own[j]] = "good"]
  /\ UNCHANGED <<last, archive, made, dumps, meta, created, production, appUp, day, own, tests,
                 started, copy, left, replacement>>

WriteMeta(j) ==
  /\ Step(j, "meta", IF tests[j] THEN "test" ELSE "mark")
  /\ meta' = [meta EXCEPT ![own[j]] = "pending"]
  /\ created' = [created EXCEPT ![own[j]] = started[j]]
  /\ UNCHANGED <<last, archive, made, dumps, checksum, production, appUp, day, own, tests,
                 started, copy, left, replacement>>

\* postgres-restore-test.sh: the checksum holds, if there is one, and the dump
\* is restored into a disposable database.
Verifiable(i) == i \in dumps /\ checksum[i] # "cut"
RestoreCopy(j) ==
  /\ Step(j, "test", "tables")
  /\ Verifiable(own[j])
  /\ copy' = [copy EXCEPT ![j] = archive[own[j]]]
  /\ UNCHANGED <<files, production, appUp, day, own, tests, started, left, replacement>>

\* Faulty: any database with tables will do.
AnyTables(contents) == TRUE

\* The six tables it counts, of which two are the blog's.  It counts no rows.
ExpectedTables(contents) == contents # Blank /\ Revision(contents) < NoBlog

PassTest(j) ==
  /\ ExpectedTables(copy[j])
  /\ Step(j, "tables", "mark")
  /\ UNCHANGED <<files, production, appUp, day, own, tests, started, copy, left, replacement>>

FailTest(j) ==
  /\ ~ ExpectedTables(copy[j])
  /\ Step(j, "tables", "rejected")
  /\ UNCHANGED <<files, production, appUp, day, own, tests, started, copy, left, replacement>>

\* sed: "pending" becomes "passed" or "skipped", in a file that must exist.
MarkMeta(j) ==
  /\ Step(j, "mark", "list")
  /\ meta[own[j]] # "none"
  /\ meta' = [meta EXCEPT ![own[j]] = IF tests[j] THEN "passed" ELSE "skipped"]
  /\ UNCHANGED <<last, archive, made, dumps, checksum, created, production, appUp, day, own, tests,
                 started, copy, left, replacement>>

(***************************************************************************)
(* Pruning, by a backup run and by the retention script                    *)
(***************************************************************************)

BeginRetention ==
  /\ Step("retention", "idle", "glob")
  /\ UNCHANGED <<files, production, appUp, day, own, tests, started, copy, left, replacement>>

\* The script lists the names, then asks for their times: it dies if one of
\* the files is gone.
Glob ==
  /\ Step("retention", "glob", "list")
  /\ left' = [left EXCEPT !["retention"] = dumps]
  /\ UNCHANGED <<files, production, appUp, day, own, tests, started, copy, replacement>>

\* Faulty: sorted the other way, the oldest are kept.
BeyondOldest(listed) ==
  {i \in listed : Cardinality({k \in listed : k < i}) >= KeepMinimum}

\* Newest first, from KEEP_MINIMUM on.
BeyondMinimum(listed) ==
  {i \in listed : Cardinality({k \in listed : k > i}) >= KeepMinimum}

Sort(p) ==
  /\ p = "retention" => left[p] \subseteq dumps
  /\ Step(p, "list", "age")
  /\ left' = [left EXCEPT ![p] = BeyondMinimum(IF p = "retention" THEN @ ELSE dumps)]
  /\ UNCHANGED <<files, production, appUp, day, own, tests, started, copy, replacement>>

NextOf(p) == CHOOSE i \in left[p] : \A k \in left[p] : k <= i
Drop(p) == left' = [left EXCEPT ![p] = @ \ {NextOf(p)}]

\* Faulty: whatever is beyond the minimum goes.
ExpiredAtOnce(p, i) == TRUE

\* -mtime +N: more than N whole days; the script: N days or more.
Expired(p, i) ==
  IF p = "retention" THEN day - made[i] >= RetentionDays ELSE day - made[i] > RetentionDays

\* The age of a file that is gone: find fails and the backup goes on; stat
\* fails and the script dies.
KeepYoung(p) ==
  /\ left[p] # {}
  /\ \/ NextOf(p) \in dumps /\ ~ Expired(p, NextOf(p))
     \/ NextOf(p) \notin dumps /\ p # "retention"
  /\ Step(p, "age", "age")
  /\ Drop(p)
  /\ UNCHANGED <<files, production, appUp, day, own, tests, started, copy, replacement>>

Condemn(p) ==
  /\ left[p] # {} /\ NextOf(p) \in dumps /\ Expired(p, NextOf(p))
  /\ Step(p, "age", "rm")
  /\ UNCHANGED <<files, production, appUp, day, own, tests, started, copy, left, replacement>>

\* The dump, its checksum and its metadata, one by one, if they exist.
RemoveDump(p) ==
  /\ Step(p, "rm", "rm_sha256")
  /\ dumps' = dumps \ {NextOf(p)}
  /\ archive' = [archive EXCEPT ![NextOf(p)] = Blank]
  /\ UNCHANGED <<last, made, checksum, meta, created, production, appUp, day, own, tests,
                 started, copy, left, replacement>>

RemoveChecksum(p) ==
  /\ Step(p, "rm_sha256", "rm_meta")
  /\ checksum' = [checksum EXCEPT ![NextOf(p)] = "none"]
  /\ UNCHANGED <<last, archive, made, dumps, meta, created, production, appUp, day, own, tests,
                 started, copy, left, replacement>>

RemoveMeta(p) ==
  /\ Step(p, "rm_meta", "age")
  /\ meta' = [meta EXCEPT ![NextOf(p)] = "none"]
  /\ created' = [created EXCEPT ![NextOf(p)] = 0]
  /\ Drop(p)
  /\ UNCHANGED <<last, archive, made, dumps, checksum, production, appUp, day, own, tests,
                 started, copy, replacement>>

Prune(p) ==
  \/ Sort(p) \/ KeepYoung(p) \/ Condemn(p)
  \/ RemoveDump(p) \/ RemoveChecksum(p) \/ RemoveMeta(p)

Ended(p) ==
  /\ at' = [at EXCEPT ![p] = "idle"]
  /\ left' = [left EXCEPT ![p] = {}]
  /\ IF p \in Jobs
     THEN /\ own' = [own EXCEPT ![p] = 0]
          /\ copy' = [copy EXCEPT ![p] = Blank]
          /\ tests' = [tests EXCEPT ![p] = TRUE]
          /\ started' = [started EXCEPT ![p] = 0]
     ELSE UNCHANGED <<own, copy, tests, started>>

\* Exit status 0: the operator who waits for it goes on.
ExitZero(p) ==
  /\ at[p] = "age" /\ left[p] = {}
  /\ Ended(p)
  /\ outage' = IF p = Operator /\ outage = "backing_up" THEN "backed_up" ELSE outage
  /\ UNCHANGED <<files, production, appUp, day, chosen, opened, began, lost>>

\* A command fails, or the process is killed, anywhere: the operator gives up.
Die(p) ==
  /\ at[p] # "idle"
  /\ Ended(p)
  /\ IF p = Operator /\ outage = "backing_up"
     THEN outage' = "none" /\ appUp' = TRUE /\ began' = 0
     ELSE UNCHANGED <<outage, appUp, began>>
  /\ UNCHANGED <<files, production, day, chosen, opened, lost>>

\* backup_checks of the monitor: it is silent if there is one.
Recent(i) == meta[i] = "passed" /\ day - created[i] < CriticalAge

(***************************************************************************)
(* The replacement of production                                           *)
(***************************************************************************)

\* "Announce maintenance and stop write traffic."
StopWrites ==
  /\ outage = "none" /\ appUp
  /\ outage' = "stopped" /\ appUp' = FALSE
  /\ began' = day
  /\ UNCHANGED <<files, runs, production, day, chosen, opened, lost>>

\* "Create a fresh backup of the current production database."
FreshBackup ==
  /\ outage = "stopped" /\ outage' = "backing_up"
  /\ Start(Operator)
  /\ UNCHANGED <<files, production, appUp, day, chosen, opened, began, lost>>

\* A backup in which the operator, restoring it beside production, found data;
\* postgres-restore.sh: the arguments, the checksum if there is one, --list.
Choose(i) ==
  /\ outage \in {"backed_up", "dropped"}
  /\ Verifiable(i) /\ archive[i] # Blank
  /\ outage' = "chosen" /\ chosen' = i
  /\ UNCHANGED <<files, runs, production, appUp, day, opened, began, lost>>

\* The application is stopped, the database dropped and created.
DropProduction ==
  /\ outage = "chosen" /\ outage' = "created"
  /\ production' = Blank
  /\ lost' = IF lost = Blank THEN production ELSE lost
  /\ UNCHANGED <<files, runs, appUp, day, chosen, opened, began>>

\* The dump is opened again, now for pg_restore,
OpenDump ==
  /\ outage = "created" /\ chosen \in dumps
  /\ outage' = "loading" /\ opened' = archive[chosen]
  /\ UNCHANGED <<files, runs, production, appUp, day, chosen, began, lost>>

\* which creates the tables, then fills them, and not in one transaction;
LoadTables ==
  /\ outage = "loading" /\ production = Blank
  /\ production' = Torn(opened)
  /\ UNCHANGED <<files, runs, replacement, appUp, day>>

\* then the application is up.
LoadDump ==
  /\ outage = "loading" /\ production = Torn(opened)
  /\ outage' = "none" /\ appUp' = TRUE
  /\ production' = opened
  /\ chosen' = 0 /\ opened' = Blank /\ began' = 0 /\ lost' = Blank
  /\ UNCHANGED <<files, runs, day>>

\* Once production has been dropped: the dump is gone, a check or pg_restore fails,
\* or the script is killed.  Production is left as far as it has been restored,
\* and the operator starts over with some dump.
RestoreFails ==
  /\ outage \in {"chosen", "created", "loading"} /\ lost # Blank
  /\ outage' = "dropped"
  /\ chosen' = 0 /\ opened' = Blank
  /\ UNCHANGED <<files, runs, production, appUp, day, began, lost>>

\* Before that: the checks fail, or the operator thinks better of it.
CallOff ==
  /\ outage \in {"stopped", "backed_up", "chosen"} /\ lost = Blank
  /\ outage' = "none" /\ appUp' = TRUE
  /\ chosen' = 0 /\ began' = 0
  /\ UNCHANGED <<files, runs, production, day, opened, lost>>

(***************************************************************************)
(* The application and the calendar                                        *)
(***************************************************************************)

Write ==
  /\ appUp /\ production # Blank /\ Revision(production) < MaxRev
  /\ production' = production + 1
  /\ UNCHANGED <<files, runs, replacement, appUp, day>>

\* A replacement is over before the backup it took expires.
Midnight ==
  /\ day < MaxDay /\ (outage = "none" \/ day + 1 - began < RetentionDays)
  /\ day' = day + 1
  /\ UNCHANGED <<files, runs, replacement, production, appUp>>

Backup(j) ==
  \/ StartBackup(j) \/ PublishDump(j) \/ OpenChecksum(j) \/ WriteChecksum(j) \/ WriteMeta(j)
  \/ RestoreCopy(j) \/ PassTest(j) \/ FailTest(j) \/ MarkMeta(j)

Replace ==
  \/ StopWrites \/ FreshBackup \/ (\E i \in Numbers : Choose(i)) \/ DropProduction
  \/ OpenDump \/ LoadTables \/ LoadDump \/ RestoreFails \/ CallOff

BackupNext ==
  \/ \E j \in Jobs : Backup(j)
  \/ BeginRetention \/ Glob
  \/ \E p \in Pruners : Prune(p) \/ ExitZero(p) \/ Die(p)
  \/ Replace
  \/ Write \/ Midnight

BackupSpec == BackupInit /\ [][BackupNext]_backupVars

(***************************************************************************)
(* Properties                                                              *)
(***************************************************************************)

BackupTypeOK ==
  /\ production \in Contents /\ lost \in Contents /\ opened \in Contents
  /\ appUp \in BOOLEAN /\ day \in 0 .. MaxDay
  /\ last \in 0 .. MaxDumps
  /\ archive \in [Numbers -> Contents] /\ made \in [Numbers -> 0 .. MaxDay]
  /\ created \in [Numbers -> 0 .. MaxDay] /\ started \in [Jobs -> 0 .. MaxDay]
  /\ dumps \subseteq 1 .. last
  /\ checksum \in [Numbers -> {"none", "cut", "good"}]
  /\ meta \in [Numbers -> {"none", "pending", "skipped", "passed"}]
  /\ at \in [Pruners -> {"idle", "dumping", "checksum", "digest", "meta", "test", "tables",
                         "rejected", "mark", "glob", "list", "age", "rm", "rm_sha256", "rm_meta"}]
  /\ own \in [Jobs -> 0 .. MaxDumps] /\ tests \in [Jobs -> BOOLEAN]
  /\ copy \in [Jobs -> Contents] /\ left \in [Pruners -> SUBSET Numbers]
  /\ outage \in {"none", "stopped", "backing_up", "backed_up", "chosen", "created", "loading",
                "dropped"}
  /\ chosen \in 0 .. MaxDumps /\ began \in 0 .. MaxDay

\* "Backups older than 14 days are removed, while at least the seven newest
\* archives are retained": whoever prunes, at whatever moment of another's
\* pruning, a dump that is young or among the newest KEEP_MINIMUM ever made is
\* there.
YoungAndNewestRetained ==
  \A i \in 1 .. last :
    day - made[i] < RetentionDays \/ last - i < KeepMinimum => i \in dumps

\* A dump whose metadata say "passed" restores to a database with the tables of
\* the application, and its checksum can be verified, whatever was killed before.
\* Their rows are those production had: a restore of production that was cut short
\* leaves tables without all of them, and a dump of that passes too.
PassedIsRestorable ==
  \A i \in dumps : meta[i] = "passed" => archive[i] # Blank /\ checksum[i] = "good"

\* storage-monitor.py, which looks at the metadata alone: as long as the newest
\* backup marked "passed" is younger than the critical age, there is a dump as
\* young that restores, in the same sense.
HealthyIsRestorable ==
  (\E i \in Numbers : Recent(i)) =>
     \E i \in dumps : Recent(i) /\ archive[i] # Blank /\ checksum[i] = "good"

\* Once the documented procedure has dropped production, and until a dump is
\* loaded to its end, what was dropped is in a dump that can be restored: neither
\* restores cut short, nor scheduled backups of what they leave, nor two prunings
\* take it.
DroppedIsInADump ==
  lost # Blank =>
    \E i \in dumps : archive[i] = lost /\ checksum[i] = "good" /\ meta[i] \in {"passed", "skipped"}

\* "Confirms the application tables and alembic_version exist": the restore test
\* refuses no dump of a database of the application.
WholeBackupPasses ==
  \A j \in Jobs : at[j] = "rejected" => copy[j] = Blank
=============================================================================
