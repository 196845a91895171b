--------------------------- MODULE BackupStoreProofs ---------------------------
(***************************************************************************)
(* What is proved of BackupStore, for every set of runs that overlap and   *)
(* every retention.                                                        *)
(***************************************************************************)
EXTENDS BackupStore, FiniteSetTheorems, WellFoundedInduction, TLAPS

Removing == {"rm", "rm_sha256", "rm_meta"}

\* A run that has published owns its dump, and alone.
OwnOk(j) ==
  /\ at[j] # "glob"
  /\ at[j] \in {"idle", "dumping"} <=> own[j] = 0
  /\ own[j] <= last

OwnApart == \A j, k \in Jobs : j # k /\ own[j] # 0 => own[k] # own[j]

\* What a pruning has in hand is beyond the newest, whatever was published
\* since it listed them; what it removes has expired.
PruneOk(p) ==
  /\ left[p] \subseteq 1 .. last
  /\ at[p] \in Removing \cup {"age"} => \A i \in left[p] : last - i >= KeepMinimum
  /\ at[p] \in Removing => left[p] # {} /\ day - made[NextOf(p)] >= RetentionDays
  /\ at[p] \in {"rm_sha256", "rm_meta"} => NextOf(p) \notin dumps

\* A backup is dated no later than its dump.
DatesInv ==
  /\ \A i \in Numbers : made[i] <= day /\ created[i] <= made[i]
  /\ \A i \in Numbers : i > last => meta[i] = "none" /\ created[i] = 0
DatesOk(j) == started[j] <= day /\ (own[j] # 0 => started[j] <= made[own[j]])

\* What a run has found out about its dump, as long as the dump is there.
RunOk(j) ==
  /\ at[j] \in {"checksum", "digest", "meta"} => meta[own[j]] = "none"
  /\ own[j] \in dumps =>
       /\ at[j] \in {"meta", "test", "tables", "mark"} => checksum[own[j]] = "good"
       /\ at[j] = "tables" => copy[j] = archive[own[j]]
       /\ at[j] = "mark" /\ tests[j] => archive[own[j]] # Blank

IInv ==
  /\ BackupTypeOK
  /\ \A j \in Jobs : OwnOk(j) /\ DatesOk(j) /\ RunOk(j)
  /\ OwnApart
  /\ \A p \in Pruners : PruneOk(p)
  /\ DatesInv
  /\ YoungAndNewestRetained /\ PassedIsRestorable

\* There is a dump of c that the replacement has made.
Saved(c) ==
  \E i \in dumps :
    /\ made[i] >= began
    /\ archive[i] = c /\ checksum[i] = "good" /\ meta[i] \in {"passed", "skipped"}

\* While writes are stopped, the operator's backup run is about what production holds.
OperatorInv ==
  LET o == Operator
  IN  /\ at[o] # "idle"
      /\ at[o] = "dumping" => copy[o] = production
      /\ at[o] \in {"checksum", "digest", "meta", "test", "tables", "mark"} =>
           made[own[o]] >= began /\ archive[own[o]] = production
      /\ at[o] \in Removing \cup {"list", "age"} => Saved(production)

Lossy == {"created", "loading", "dropped"}   \* from the drop to the end of a load

\* What must not be lost: what production holds, or what was dropped.
Held == IF lost = Blank THEN production ELSE lost

OutageInv ==
  /\ appUp <=> outage = "none"
  /\ lost = Blank => production # Blank
  /\ lost # Blank => outage \in {"chosen"} \cup Lossy
  /\ outage \in Lossy => lost # Blank
  /\ outage = "loading" => opened # Blank
  /\ outage # "none" => began <= day /\ day - began < RetentionDays
  /\ outage \in {"chosen", "created"} =>
       chosen \in 1 .. last /\ (chosen \in dumps => archive[chosen] # Blank)
  /\ outage = "backing_up" => OperatorInv
  /\ outage \in {"backed_up", "chosen"} \cup Lossy => Saved(Held)

-----------------------------------------------------------------------------
(* The dump a pruning looks at next, and those beyond the newest.          *)

LEMMA GreatestExists ==
  ASSUME NEW n \in Nat, NEW S, S \subseteq 1 .. n, S # {}
  PROVE  \E i \in S : \A k \in S : k <= i
<1> DEFINE T == {m \in Nat : n - m \in S}
<1>1. T # {}
  <2>1. PICK i \in S : TRUE
    OBVIOUS
  <2>2. n - i \in T
    BY <2>1
  <2> QED  BY <2>2
<1>2. IsWellFoundedOn(OpToRel(<, Nat), Nat)
  BY NatLessThanWellFounded
<1>3. \E m \in T : \A y \in T : ~ (<<y, m>> \in OpToRel(<, Nat))
  BY <1>1, <1>2, WFMin
<1>4. PICK m \in T : \A y \in T : ~ (y < m)
  BY <1>3 DEF OpToRel
<1>5. ASSUME NEW k \in S
      PROVE  k <= n - m
  <2>1. n - k \in T
    BY <1>5
  <2> QED  BY <1>4, <2>1, <1>5
<1> QED  BY <1>4, <1>5

\* As long as something is left, the next dump to look at is one of what is left.
LEMMA NextOfIsLeft ==
  ASSUME NEW p, NEW n \in Nat, left[p] \subseteq 1 .. n, left[p] # {}
  PROVE  NextOf(p) \in left[p]
  BY GreatestExists DEF NextOf

LEMMA BeyondMinimumIsOld ==
  ASSUME NEW n \in Nat, NEW listed, listed \subseteq 1 .. n, NEW i \in BeyondMinimum(listed)
  PROVE  n - i >= KeepMinimum
<1> DEFINE newer == {k \in listed : k > i}
<1>1. i \in {m \in listed : Cardinality({k \in listed : k > m}) >= KeepMinimum}
  BY DEF BeyondMinimum
<1>2. i \in 1 .. n /\ Cardinality(newer) >= KeepMinimum
  BY <1>1
<1>3. newer \subseteq (i + 1) .. n
  <2>1. ASSUME NEW k \in listed, k > i
        PROVE  k \in (i + 1) .. n
    BY <1>2, <2>1
  <2> QED  BY <2>1
<1>4. IsFiniteSet((i + 1) .. n) /\ Cardinality((i + 1) .. n) = n - i
  BY <1>2, FS_Interval
<1>5. Cardinality(newer) <= n - i /\ Cardinality(newer) \in Nat
  BY <1>3, <1>4, FS_Subset, FS_CardinalityType
<1> QED  BY <1>2, <1>5, BackupAssumption

-----------------------------------------------------------------------------
(* The type invariant.                                                     *)

LEMMA Types ==
  ASSUME BackupTypeOK
  PROVE  /\ day \in Nat /\ last \in Nat /\ last <= MaxDumps
         /\ dumps \subseteq 1 .. last /\ 1 .. last \subseteq Numbers /\ Numbers \subseteq Nat
         /\ 0 \in Contents /\ 1 \in Contents /\ Contents \subseteq Nat
         /\ \A c \in Contents : Torn(c) \in Contents /\ (c # Blank => Torn(c) # Blank)
         /\ \A p \in Pruners : left[p] \subseteq Numbers
         /\ Jobs \subseteq Pruners /\ "retention" \in Pruners \ Jobs
<1>1. /\ day \in Nat /\ last \in Nat /\ last <= MaxDumps
      /\ dumps \subseteq 1 .. last /\ 1 .. last \subseteq Numbers /\ Numbers \subseteq Nat
      /\ \A p \in Pruners : left[p] \subseteq Numbers
  BY BackupAssumption DEF BackupTypeOK, Numbers
<1>2. /\ 0 \in Contents /\ 1 \in Contents /\ Contents \subseteq Nat
      /\ \A c \in Contents : Torn(c) \in Contents /\ (c # Blank => Torn(c) # Blank)
  BY BackupAssumption DEF Contents, Torn, Blank
<1>3. Jobs \subseteq Pruners /\ "retention" \in Pruners \ Jobs
  BY BackupAssumption DEF Pruners
<1> QED  BY <1>1, <1>2, <1>3

LEMMA ScriptTypes ==
  ASSUME BackupTypeOK, NEW j \in Jobs,
         \/ StartBackup(j) \/ OpenChecksum(j) \/ WriteChecksum(j) \/ WriteMeta(j)
         \/ PassTest(j) \/ FailTest(j) \/ MarkMeta(j)
  PROVE  BackupTypeOK'
<1> USE DEF BackupTypeOK, files, runs, replacement, Step
<1>0. j \in Pruners
  BY DEF Pruners
<1>1. CASE StartBackup(j)
  BY <1>0, <1>1 DEF StartBackup, Start
<1>2. CASE OpenChecksum(j)
  BY <1>0, <1>2 DEF OpenChecksum
<1>3. CASE WriteChecksum(j)
  BY <1>0, <1>3 DEF WriteChecksum
<1>4. CASE WriteMeta(j)
  BY <1>0, <1>4 DEF WriteMeta
<1>5. CASE PassTest(j) \/ FailTest(j)
  BY <1>0, <1>5 DEF PassTest, FailTest
<1>6. CASE MarkMeta(j)
  BY <1>0, <1>6 DEF MarkMeta
<1> QED  BY <1>1, <1>2, <1>3, <1>4, <1>5, <1>6

LEMMA DumpTypes ==
  ASSUME BackupTypeOK, NEW j \in Jobs, PublishDump(j) \/ RestoreCopy(j)
  PROVE  BackupTypeOK'
<1> USE DEF BackupTypeOK, replacement, files, Step
<1>0. j \in Pruners
  BY DEF Pruners
<1>1. CASE PublishDump(j)
  <2>1. last' = last + 1 /\ last' \in 0 .. MaxDumps /\ last + 1 \in 0 .. MaxDumps
    BY <1>1, BackupAssumption DEF PublishDump
  <2>2. dumps' \subseteq 1 .. last'
    BY <1>1, <2>1, Types DEF PublishDump
  <2>3. archive' \in [Numbers -> Contents]
    BY <1>1 DEF PublishDump
  <2>4. made' \in [Numbers -> 0 .. MaxDay] /\ own' \in [Jobs -> 0 .. MaxDumps]
    BY <1>1, <2>1 DEF PublishDump
  <2>5. at' \in [Pruners -> {"idle", "dumping", "checksum", "digest", "meta", "test", "tables",
                             "rejected", "mark", "glob", "list", "age", "rm", "rm_sha256", "rm_meta"}]
    BY <1>0, <1>1 DEF PublishDump
  <2> QED  BY <1>1, <2>1, <2>2, <2>3, <2>4, <2>5 DEF PublishDump
<1>2. CASE RestoreCopy(j)
  <2>1. own[j] \in Numbers
    BY <1>2, Types DEF RestoreCopy, Verifiable
  <2>2. copy' \in [Jobs -> Contents]
    BY <1>2, <2>1 DEF RestoreCopy
  <2> QED  BY <1>0, <1>2, <2>2 DEF RestoreCopy
<1> QED  BY <1>1, <1>2

LEMMA PruningTypes ==
  ASSUME BackupTypeOK, NEW p \in Pruners,
         \/ Sort(p) \/ KeepYoung(p) \/ Condemn(p)
         \/ RemoveDump(p) \/ RemoveChecksum(p) \/ RemoveMeta(p)
  PROVE  BackupTypeOK'
<1> USE DEF BackupTypeOK, replacement, files, Step
<1>1. CASE Sort(p)
  <2>1. left' \in [Pruners -> SUBSET Numbers]
    <3>1. BeyondMinimum(IF p = "retention" THEN left[p] ELSE dumps) \subseteq Numbers
      BY Types DEF BeyondMinimum
    <3> QED  BY <1>1, <3>1 DEF Sort
  <2> QED  BY <1>1, <2>1 DEF Sort
<1>2. CASE KeepYoung(p) \/ Condemn(p)
  <2>1. left' \in [Pruners -> SUBSET Numbers]
    BY <1>2 DEF KeepYoung, Condemn, Drop
  <2>2. \E s \in {"age", "rm"} : at' = [at EXCEPT ![p] = s]
    BY <1>2 DEF KeepYoung, Condemn
  <2>3. UNCHANGED <<files, production, appUp, day, own, tests, started, copy, replacement>>
    BY <1>2 DEF KeepYoung, Condemn
  <2> QED  BY <2>1, <2>2, <2>3
<1>3. CASE RemoveDump(p)
  <2>1. archive' \in [Numbers -> Contents]
    BY <1>3, Types DEF RemoveDump, Blank
  <2> QED  BY <1>3, <2>1 DEF RemoveDump
<1>4. CASE RemoveChecksum(p)
  BY <1>4 DEF RemoveChecksum
<1>5. CASE RemoveMeta(p)
  <2>1. created' \in [Numbers -> 0 .. MaxDay]
    <3>1. created' = [created EXCEPT ![NextOf(p)] = 0] /\ 0 \in 0 .. MaxDay
      BY <1>5, BackupAssumption DEF RemoveMeta
    <3> QED  BY <3>1
  <2>2. left' \in [Pruners -> SUBSET Numbers]
    BY <1>5 DEF RemoveMeta, Drop
  <2> QED  BY <1>5, <2>1, <2>2 DEF RemoveMeta
<1> QED  BY <1>1, <1>2, <1>3, <1>4, <1>5

LEMMA EndTypes ==
  ASSUME BackupTypeOK, NEW p \in Pruners, ExitZero(p) \/ Die(p)
  PROVE  BackupTypeOK'
<1> USE DEF BackupTypeOK
<1>1. /\ at' = [at EXCEPT ![p] = "idle"] /\ left' = [left EXCEPT ![p] = {}]
      /\ own' \in {own, [own EXCEPT ![p] = 0]}
      /\ copy' \in {copy, [copy EXCEPT ![p] = Blank]}
      /\ tests' \in {tests, [tests EXCEPT ![p] = TRUE]}
      /\ started' \in {started, [started EXCEPT ![p] = 0]}
  BY DEF ExitZero, Die, Ended
<1>2. own' \in [Jobs -> 0 .. MaxDumps] /\ started' \in [Jobs -> 0 .. MaxDay]
  BY <1>1, BackupAssumption
<1>3. copy' \in [Jobs -> Contents]
  <2>1. Blank \in Contents
    BY Types DEF Blank
  <2> QED  BY <1>1, <2>1
<1>7. tests' \in [Jobs -> BOOLEAN]
  BY <1>1
<1>4. /\ at' \in [Pruners -> {"idle", "dumping", "checksum", "digest", "meta", "test", "tables",
                              "rejected", "mark", "glob", "list", "age", "rm", "rm_sha256", "rm_meta"}]
      /\ left' \in [Pruners -> SUBSET Numbers]
  BY <1>1
<1>5. /\ UNCHANGED <<files, production, day, chosen, opened, lost>>
      /\ appUp' \in BOOLEAN
      /\ outage' \in {"none", "stopped", "backing_up", "backed_up", "chosen", "created", "loading",
                      "dropped"}
      /\ began' \in {began, 0}
  BY DEF ExitZero, Die
<1>6. began' \in 0 .. MaxDay
  BY <1>5, BackupAssumption
<1> QED  BY <1>2, <1>3, <1>4, <1>5, <1>6, <1>7 DEF files

LEMMA OtherTypes ==
  ASSUME BackupTypeOK, BeginRetention \/ Glob \/ Replace \/ Write \/ Midnight
  PROVE  BackupTypeOK'
<1> USE DEF BackupTypeOK, files, runs, replacement, Step
<1>1. CASE BeginRetention \/ Glob
  BY <1>1, Types DEF BeginRetention, Glob
<1>2. CASE StopWrites \/ FreshBackup
  <2>1. CASE StopWrites
    BY <2>1 DEF StopWrites
  <2>2. CASE FreshBackup
    <3>1. Operator \in Jobs /\ Operator \in Pruners
      BY BackupAssumption DEF Pruners
    <3> QED  BY <2>2, <3>1 DEF FreshBackup, Start
  <2> QED  BY <1>2, <2>1, <2>2
<1>3. CASE \E i \in Numbers : Choose(i)
  <2>1. chosen' \in 0 .. MaxDumps
    BY <1>3 DEF Choose, Numbers
  <2> QED  BY <1>3, <2>1 DEF Choose
<1>4. CASE DropProduction
  <2>1. production' \in Contents /\ lost' \in Contents
    BY <1>4, Types DEF DropProduction, Blank
  <2> QED  BY <1>4, <2>1 DEF DropProduction
<1>5. CASE LoadDump
  <2>1. production' \in Contents /\ lost' \in Contents /\ opened' \in Contents
    BY <1>5, Types DEF LoadDump, Blank
  <2>2. chosen' \in 0 .. MaxDumps /\ began' \in 0 .. MaxDay
    BY <1>5, BackupAssumption DEF LoadDump
  <2> QED  BY <1>5, <2>1, <2>2 DEF LoadDump
<1>6. CASE OpenDump \/ LoadTables
  <2>1. production' \in Contents /\ opened' \in Contents
    BY <1>6, Types DEF OpenDump, LoadTables
  <2> QED  BY <1>6, <2>1 DEF OpenDump, LoadTables
<1>10. CASE RestoreFails
  <2>1. opened' \in Contents /\ chosen' \in 0 .. MaxDumps
    BY <1>10, Types, BackupAssumption DEF RestoreFails, Blank
  <2> QED  BY <1>10, <2>1 DEF RestoreFails
<1>7. CASE CallOff
  BY <1>7, BackupAssumption DEF CallOff
<1>8. CASE Write
  <2>1. production' \in Contents
    BY <1>8, BackupAssumption DEF Write, Contents, Revision, Blank
  <2> QED  BY <1>8, <2>1 DEF Write
<1>9. CASE Midnight
  BY <1>9, BackupAssumption DEF Midnight
<1> QED  BY <1>1, <1>2, <1>3, <1>4, <1>5, <1>6, <1>7, <1>8, <1>9, <1>10 DEF Replace

LEMMA TypeStep ==
  ASSUME BackupTypeOK, [BackupNext]_backupVars
  PROVE  BackupTypeOK'
<1>1. CASE UNCHANGED backupVars
  BY <1>1 DEF BackupTypeOK, backupVars, files, runs, replacement
<1>2. CASE BackupNext
  BY <1>2, ScriptTypes, DumpTypes, PruningTypes, EndTypes, OtherTypes DEF BackupNext, Backup, Prune
<1> QED  BY <1>1, <1>2

LEMMA InitTypes == BackupInit => BackupTypeOK
<1> SUFFICES ASSUME BackupInit PROVE BackupTypeOK
  OBVIOUS
<1>1. 0 \in 0 .. MaxDay /\ 0 \in 0 .. MaxDumps /\ 0 \in Contents /\ 1 \in Contents
  BY BackupAssumption DEF Contents
<1> QED  BY <1>1 DEF BackupInit, BackupTypeOK, Blank

\* Every program is where it can be, and every file holds what it may.
THEOREM TypeCorrect == BackupSpec => []BackupTypeOK
<1>1. BackupTypeOK /\ [BackupNext]_backupVars => BackupTypeOK'
  BY TypeStep
<1> QED  BY <1>1, InitTypes, PTL DEF BackupSpec

-----------------------------------------------------------------------------
(* What the steps may change.                                              *)

\* A step of a backup run up to its pruning, by the clock or by the operator.
RunStep(j) == Backup(j) \/ (Start(j) /\ UNCHANGED <<files, day>>)

PruneStep(p) == Prune(p) \/ ExitZero(p) \/ Die(p)

LEMMA StepKinds ==
  ASSUME [BackupNext]_backupVars
  PROVE  \/ \E j \in Jobs : RunStep(j)
         \/ \E p \in Pruners : PruneStep(p)
         \/ BeginRetention \/ Glob
         \/ UNCHANGED <<files, runs>> /\ (day' = day \/ Midnight)
<1>1. CASE UNCHANGED backupVars
  BY <1>1 DEF backupVars
<1>2. CASE Replace
  <2>1. CASE FreshBackup
    BY <2>1, BackupAssumption DEF FreshBackup, RunStep
  <2>2. CASE Replace /\ ~ FreshBackup
    BY <2>2 DEF Replace, StopWrites, Choose, DropProduction, OpenDump, LoadTables,
       LoadDump, RestoreFails, CallOff, replacement
  <2> QED  BY <1>2, <2>1, <2>2
<1>3. CASE Write
  BY <1>3 DEF Write
<1>4. CASE Midnight
  BY <1>4 DEF Midnight
<1> QED  BY <1>1, <1>2, <1>3, <1>4 DEF BackupNext, RunStep, PruneStep

\* A backup run writes about its own dump only.
LEMMA RunFrame ==
  ASSUME IInv, NEW j \in Jobs, RunStep(j)
  PROVE  /\ UNCHANGED <<left, day>>
         /\ \A q \in Pruners \ {j} : at'[q] = at[q]
         /\ at'[j] \notin Removing \cup {"age", "glob", "idle"}
         /\ \A k \in Jobs \ {j} : /\ own'[k] = own[k] /\ tests'[k] = tests[k]
                                  /\ started'[k] = started[k] /\ copy'[k] = copy[k]
         /\ \A i \in 1 .. last : made'[i] = made[i] /\ archive'[i] = archive[i]
         /\ \A i \in Numbers : i # own[j] =>
              checksum'[i] = checksum[i] /\ meta'[i] = meta[i] /\ created'[i] = created[i]
         /\ \/ last' = last /\ dumps' = dumps /\ own' = own /\ made' = made
            \/ last' = last + 1 /\ dumps' = dumps \cup {last'} /\ own'[j] = last'
<1> USE DEF IInv, BackupTypeOK, Step, files, Removing
<1>0. j \in Pruners /\ 1 .. last \subseteq Numbers
  BY Types DEF Pruners
<1>1. CASE StartBackup(j) \/ (Start(j) /\ UNCHANGED <<files, day>>)
  <2>1. Start(j) /\ UNCHANGED <<files, day>>
    BY <1>1 DEF StartBackup
  <2>2. OwnOk(j) /\ own' = own /\ UNCHANGED <<last, dumps, made, archive, checksum, meta, created, left, day>>
    BY <2>1 DEF Start
  <2> QED  BY <1>0, <2>1, <2>2 DEF Start
<1>2. CASE PublishDump(j)
  BY <1>0, <1>2, Types DEF PublishDump
<1>3. CASE OpenChecksum(j)
  BY <1>0, <1>3 DEF OpenChecksum
<1>4. CASE WriteChecksum(j)
  BY <1>0, <1>4 DEF WriteChecksum
<1>5. CASE WriteMeta(j)
  BY <1>0, <1>5 DEF WriteMeta
<1>6. CASE RestoreCopy(j)
  BY <1>0, <1>6 DEF RestoreCopy
<1>7. CASE PassTest(j) \/ FailTest(j)
  BY <1>0, <1>7 DEF PassTest, FailTest
<1>8. CASE MarkMeta(j)
  BY <1>0, <1>8 DEF MarkMeta
<1> QED  BY <1>1, <1>2, <1>3, <1>4, <1>5, <1>6, <1>7, <1>8 DEF RunStep, Backup

\* A pruning takes only old dumps that are beyond the newest, and touches the
\* files beside a dump only when it has taken the dump.
LEMMA PruneFrame ==
  ASSUME IInv, NEW p \in Pruners, PruneStep(p)
  PROVE  /\ UNCHANGED <<last, made, day>>
         /\ \A q \in Pruners \ {p} : at'[q] = at[q] /\ left'[q] = left[q]
         /\ \A k \in Jobs \ {p} : /\ own'[k] = own[k] /\ tests'[k] = tests[k]
                                  /\ started'[k] = started[k] /\ copy'[k] = copy[k]
         /\ dumps' \subseteq dumps
         /\ \A i \in dumps \ dumps' : last - i >= KeepMinimum /\ day - made[i] >= RetentionDays
         /\ \A i \in dumps' : /\ archive'[i] = archive[i] /\ checksum'[i] = checksum[i]
                              /\ meta'[i] = meta[i] /\ created'[i] = created[i]
         /\ \A i \in Numbers : \/ meta'[i] = meta[i] /\ created'[i] = created[i]
                               \/ meta'[i] = "none" /\ created'[i] = 0
<1> USE DEF IInv, BackupTypeOK, Step, files, Removing
<1>0. PruneOk(p) /\ dumps \subseteq Numbers /\ last \in Nat
  BY Types
<1>n. at[p] \in Removing => NextOf(p) \in left[p]
  BY <1>0, NextOfIsLeft DEF PruneOk
<1>1. CASE Sort(p) \/ KeepYoung(p) \/ Condemn(p)
  BY <1>0, <1>1 DEF Sort, KeepYoung, Condemn, Drop
<1>2. CASE RemoveDump(p)
  <2>1. last - NextOf(p) >= KeepMinimum /\ day - made[NextOf(p)] >= RetentionDays
    BY <1>0, <1>n, <1>2 DEF RemoveDump, PruneOk
  <2> QED  BY <1>0, <1>2, <2>1 DEF RemoveDump
<1>3. CASE RemoveChecksum(p)
  BY <1>0, <1>3 DEF RemoveChecksum, PruneOk
<1>4. CASE RemoveMeta(p)
  BY <1>0, <1>4 DEF RemoveMeta, PruneOk, Drop
<1>5. CASE ExitZero(p) \/ Die(p)
  BY <1>0, <1>5 DEF ExitZero, Die, Ended
<1> QED  BY <1>1, <1>2, <1>3, <1>4, <1>5 DEF PruneStep, Prune

\* Everything else leaves the files and the backup runs alone.
LEMMA OtherFrame ==
  ASSUME IInv, BeginRetention \/ Glob \/ (UNCHANGED <<files, runs>> /\ (day' = day \/ Midnight))
  PROVE  /\ UNCHANGED <<files, own, tests, started, copy>>
         /\ \A j \in Jobs : at'[j] = at[j] /\ left'[j] = left[j]
         /\ day' = day \/ day' = day + 1
<1> USE DEF IInv, BackupTypeOK, Step
<1>1. CASE BeginRetention \/ Glob
  BY <1>1, Types DEF BeginRetention, Glob
<1>2. CASE UNCHANGED <<files, runs>> /\ (day' = day \/ Midnight)
  BY <1>2, Types DEF Midnight, runs
<1> QED  BY <1>1, <1>2

LEMMA NextOfSame ==
  ASSUME NEW p, left'[p] = left[p]
  PROVE  NextOf(p)' = NextOf(p)
  BY DEF NextOf

-----------------------------------------------------------------------------
(* The parts of the inductive invariant, one by one.                       *)

LEMMA RetainedStep ==
  ASSUME IInv, [BackupNext]_backupVars
  PROVE  YoungAndNewestRetained'
<1>0. YoungAndNewestRetained /\ BackupTypeOK
  BY DEF IInv
<1>1. day \in Nat /\ last \in Nat /\ made \in [Numbers -> Nat] /\ 1 .. last \subseteq Numbers
  BY <1>0, Types DEF BackupTypeOK
<1>2. KeepMinimum \in Nat /\ RetentionDays \in Nat
  BY BackupAssumption
<1>3. ASSUME NEW j \in Jobs, RunStep(j)
      PROVE  YoungAndNewestRetained'
  BY <1>0, <1>1, <1>2, <1>3, RunFrame DEF YoungAndNewestRetained
<1>4. ASSUME NEW p \in Pruners, PruneStep(p)
      PROVE  YoungAndNewestRetained'
  BY <1>0, <1>1, <1>2, <1>4, PruneFrame DEF YoungAndNewestRetained
<1>5. CASE BeginRetention \/ Glob \/ (UNCHANGED <<files, runs>> /\ (day' = day \/ Midnight))
  BY <1>0, <1>1, <1>2, <1>5, OtherFrame DEF YoungAndNewestRetained, files
<1> QED  BY <1>3, <1>4, <1>5, StepKinds

LEMMA OwnStep ==
  ASSUME IInv, [BackupNext]_backupVars, NEW k \in Jobs
  PROVE  OwnOk(k)'
<1>0. OwnOk(k) /\ BackupTypeOK /\ k \in Pruners /\ k # "retention" /\ last \in Nat /\ own[k] \in Nat
  BY Types DEF IInv, BackupTypeOK
<1>1. ASSUME NEW j \in Jobs, RunStep(j)
      PROVE  OwnOk(k)'
  <2>1. CASE k # j
    BY <1>0, <1>1, <2>1, RunFrame DEF OwnOk
  <2>2. CASE k = j
    <3> USE <1>0, <2>2 DEF OwnOk, BackupTypeOK, Step
    <3>1. CASE StartBackup(k) \/ (Start(k) /\ UNCHANGED <<files, day>>)
      BY <3>1 DEF StartBackup, Start, files
    <3>2. CASE PublishDump(k)
      BY <3>2 DEF PublishDump
    <3>3. CASE OpenChecksum(k) \/ WriteChecksum(k) \/ WriteMeta(k) \/ MarkMeta(k)
      BY <3>3 DEF OpenChecksum, WriteChecksum, WriteMeta, MarkMeta
    <3>4. CASE RestoreCopy(k) \/ PassTest(k) \/ FailTest(k)
      BY <3>4 DEF RestoreCopy, PassTest, FailTest, files
    <3> QED  BY <1>1, <3>1, <3>2, <3>3, <3>4 DEF RunStep, Backup
  <2> QED  BY <2>1, <2>2
<1>2. ASSUME NEW p \in Pruners, PruneStep(p)
      PROVE  OwnOk(k)'
  <2>1. CASE k # p
    BY <1>0, <1>2, <2>1, PruneFrame DEF OwnOk
  <2>2. CASE k = p
    <3> USE <1>0, <2>2 DEF OwnOk, BackupTypeOK, Step, files
    <3>1. CASE ExitZero(k) \/ Die(k)
      BY <3>1 DEF ExitZero, Die, Ended
    <3>2. CASE Sort(k) \/ KeepYoung(k) \/ Condemn(k)
      BY <3>2 DEF Sort, KeepYoung, Condemn
    <3>3. CASE RemoveDump(k) \/ RemoveChecksum(k) \/ RemoveMeta(k)
      BY <3>3 DEF RemoveDump, RemoveChecksum, RemoveMeta
    <3> QED  BY <1>2, <3>1, <3>2, <3>3 DEF PruneStep, Prune
  <2> QED  BY <2>1, <2>2
<1>3. CASE BeginRetention \/ Glob \/ (UNCHANGED <<files, runs>> /\ (day' = day \/ Midnight))
  BY <1>0, <1>3, OtherFrame DEF OwnOk, files
<1> QED  BY <1>1, <1>2, <1>3, StepKinds

LEMMA ApartStep ==
  ASSUME IInv, [BackupNext]_backupVars
  PROVE  OwnApart'
<1>0. OwnApart /\ last \in Nat /\ \A k \in Jobs : own[k] \in Nat /\ own[k] <= last
  BY Types DEF IInv, OwnOk, BackupTypeOK
<1>1. ASSUME NEW j \in Jobs, RunStep(j)
      PROVE  OwnApart'
  BY <1>0, <1>1, RunFrame DEF OwnApart
<1>2. ASSUME NEW p \in Pruners, PruneStep(p)
      PROVE  OwnApart'
  <2>1. own' = own \/ own' = [own EXCEPT ![p] = 0]
    BY <1>2 DEF PruneStep, ExitZero, Die, Ended, Prune, Sort, KeepYoung, Condemn,
                RemoveDump, RemoveChecksum, RemoveMeta
  <2>2. own \in [Jobs -> 0 .. MaxDumps]
    BY DEF IInv, BackupTypeOK
  <2> QED  BY <1>0, <2>1, <2>2 DEF OwnApart
<1>3. CASE BeginRetention \/ Glob \/ (UNCHANGED <<files, runs>> /\ (day' = day \/ Midnight))
  BY <1>0, <1>3, OtherFrame DEF OwnApart
<1> QED  BY <1>1, <1>2, <1>3, StepKinds

\* The pruning of p itself.
LEMMA PruneOwnStep ==
  ASSUME IInv, NEW p \in Pruners, PruneStep(p)
  PROVE  PruneOk(p)'
<1>0. /\ BackupTypeOK /\ PruneOk(p) /\ last \in Nat /\ dumps \subseteq 1 .. last
      /\ at = [q \in Pruners |-> at[q]] /\ left[p] \subseteq 1 .. last
  BY Types DEF IInv, BackupTypeOK, PruneOk
<1>1. CASE Sort(p)
  <2>1. at'[p] = "age" /\ last' = last
    BY <1>0, <1>1 DEF Sort, Step, files
  <2>2. PICK listed \in SUBSET (1 .. last) : left'[p] = BeyondMinimum(listed)
    BY <1>0, <1>1 DEF Sort, BackupTypeOK
  <2>3. left'[p] \subseteq 1 .. last
    BY <2>2 DEF BeyondMinimum
  <2>4. \A i \in left'[p] : last - i >= KeepMinimum
    BY <1>0, <2>2, BeyondMinimumIsOld
  <2> QED  BY <2>1, <2>3, <2>4 DEF PruneOk, Removing
<1>2. CASE KeepYoung(p) \/ RemoveMeta(p)
  <2>1. at'[p] = "age" /\ last' = last /\ left'[p] \subseteq left[p] /\ at[p] \in Removing \cup {"age"}
    BY <1>0, <1>2 DEF KeepYoung, RemoveMeta, Step, files, Drop, BackupTypeOK, Removing
  <2> QED  BY <1>0, <2>1 DEF PruneOk, Removing
<1>3. CASE Condemn(p)
  <2>1. at[p] = "age" /\ at'[p] = "rm" /\ UNCHANGED <<last, left, made, day, dumps>>
    BY <1>0, <1>3 DEF Condemn, Step, files
  <2>2. day - made[NextOf(p)] >= RetentionDays /\ left[p] # {}
    <3>1. NextOf(p) \in Numbers
      BY <1>0, <1>3, Types DEF Condemn
    <3>2. made[NextOf(p)] \in Nat /\ day \in Nat
      BY <1>0, <3>1, Types DEF BackupTypeOK
    <3> QED  BY <1>3, <3>2, BackupAssumption DEF Condemn, Expired
  <2> QED  BY <1>0, <2>1, <2>2, NextOfSame DEF PruneOk, Removing
<1>4. CASE RemoveDump(p)
  <2>1. at[p] = "rm" /\ at'[p] = "rm_sha256" /\ UNCHANGED <<last, left, made, day>>
    BY <1>0, <1>4 DEF RemoveDump, Step
  <2>2. NextOf(p) \notin dumps'
    BY <1>4 DEF RemoveDump
  <2> QED  BY <1>0, <2>1, <2>2, NextOfSame DEF PruneOk, Removing
<1>5. CASE RemoveChecksum(p)
  <2>1. at[p] = "rm_sha256" /\ at'[p] = "rm_meta" /\ UNCHANGED <<last, left, made, day, dumps>>
    BY <1>0, <1>5 DEF RemoveChecksum, Step
  <2> QED  BY <1>0, <2>1, NextOfSame DEF PruneOk, Removing
<1>6. CASE ExitZero(p) \/ Die(p)
  <2>1. at'[p] = "idle" /\ left'[p] = {} /\ last' = last
    BY <1>0, <1>6 DEF ExitZero, Die, Ended, files, BackupTypeOK
  <2> QED  BY <1>0, <2>1 DEF PruneOk, Removing
<1> QED  BY <1>1, <1>2, <1>3, <1>4, <1>5, <1>6 DEF PruneStep, Prune

LEMMA PruneOkStep ==
  ASSUME IInv, [BackupNext]_backupVars, NEW q \in Pruners
  PROVE  PruneOk(q)'
<1>0. /\ BackupTypeOK /\ PruneOk(q) /\ last \in Nat /\ day \in Nat /\ KeepMinimum \in Nat
      /\ RetentionDays \in Nat /\ made \in [Numbers -> Nat] /\ left[q] \subseteq 1 .. last
      /\ 1 .. last \subseteq Numbers
  BY Types, BackupAssumption DEF IInv, BackupTypeOK, PruneOk
<1>1. left[q] # {} => NextOf(q) \in 1 .. last /\ NextOf(q) \in Numbers
  BY <1>0, NextOfIsLeft
<1>2. ASSUME NEW j \in Jobs, RunStep(j)
      PROVE  PruneOk(q)'
  <2>1. left'[q] = left[q] /\ last' \in Nat /\ last' >= last /\ day' = day
    BY <1>0, <1>2, RunFrame
  <2>2. CASE q = j
    <3>1. at'[q] \notin Removing \cup {"age"}
      BY <1>2, <2>2, RunFrame
    <3>2. left'[q] \subseteq 1 .. last'
      BY <1>0, <2>1
    <3> QED  BY <3>1, <3>2 DEF PruneOk, Removing
  <2>3. CASE q # j
    <3>1. at'[q] = at[q]
      BY <1>2, <2>3, RunFrame
    <3>2. left[q] # {} => made'[NextOf(q)] = made[NextOf(q)]
      BY <1>1, <1>2, RunFrame
    <3>3. left[q] # {} /\ NextOf(q) \notin dumps => NextOf(q) \notin dumps'
      BY <1>0, <1>1, <1>2, RunFrame
    <3>4. NextOf(q)' = NextOf(q)
      BY <2>1, NextOfSame
    <3> QED  BY <1>0, <1>1, <2>1, <3>1, <3>2, <3>3, <3>4 DEF PruneOk, Removing
  <2> QED  BY <2>2, <2>3
<1>3. ASSUME NEW p \in Pruners, PruneStep(p)
      PROVE  PruneOk(q)'
  <2>1. CASE q = p
    BY <1>3, <2>1, PruneOwnStep
  <2>2. CASE q # p
    BY <1>0, <1>1, <1>3, <2>2, PruneFrame, NextOfSame DEF PruneOk, Removing
  <2> QED  BY <2>1, <2>2
<1>4. CASE BeginRetention \/ Glob
  <2>1. CASE q # "retention"
    BY <1>0, <1>4, <2>1, NextOfSame DEF PruneOk, Removing, BeginRetention, Glob, Step, files, BackupTypeOK
  <2>2. CASE q = "retention"
    <3>1. at'[q] \in {"glob", "list"} /\ last' = last /\ left'[q] \in {left[q], dumps}
      BY <1>0, <1>4, <2>2 DEF BeginRetention, Glob, Step, files, BackupTypeOK
    <3> QED  BY <1>0, <3>1, Types DEF PruneOk, Removing
  <2> QED  BY <2>1, <2>2
<1>5. CASE UNCHANGED <<files, runs>> /\ (day' = day \/ Midnight)
  <2>1. day' \in Nat /\ day' >= day /\ UNCHANGED <<last, at, left, dumps, made>>
    BY <1>0, <1>5 DEF Midnight, files, runs
  <2> QED  BY <1>0, <1>1, <2>1, NextOfSame DEF PruneOk, Removing
<1> QED  BY <1>2, <1>3, <1>4, <1>5, StepKinds

LEMMA DatesStep ==
  ASSUME IInv, [BackupNext]_backupVars
  PROVE  DatesInv'
<1>0. /\ BackupTypeOK /\ DatesInv /\ last \in Nat /\ day \in Nat
      /\ made \in [Numbers -> Nat] /\ created \in [Numbers -> Nat]
      /\ meta = [i \in Numbers |-> meta[i]] /\ Numbers \subseteq Nat
  BY Types DEF IInv, BackupTypeOK
<1>1. ASSUME NEW j \in Jobs, RunStep(j)
      PROVE  DatesInv'
  <2>0. OwnOk(j) /\ DatesOk(j) /\ own[j] \in Nat /\ started[j] \in Nat
    BY Types DEF IInv, BackupTypeOK
  <2>1. CASE PublishDump(j)
    BY <1>0, <2>1 DEF PublishDump, DatesInv
  <2>2. CASE WriteMeta(j)
    BY <1>0, <2>0, <2>2 DEF WriteMeta, DatesInv, DatesOk, OwnOk, Step
  <2>3. CASE MarkMeta(j)
    BY <1>0, <2>0, <2>3 DEF MarkMeta, DatesInv, OwnOk, Step
  <2>4. CASE ~ (PublishDump(j) \/ WriteMeta(j) \/ MarkMeta(j))
    <3>1. UNCHANGED <<last, made, meta, created, day>>
      BY <1>1, <2>4 DEF RunStep, Backup, StartBackup, OpenChecksum, WriteChecksum, RestoreCopy,
                        PassTest, FailTest, files
    <3> QED  BY <1>0, <3>1 DEF DatesInv
  <2> QED  BY <2>1, <2>2, <2>3, <2>4
<1>2. ASSUME NEW p \in Pruners, PruneStep(p)
      PROVE  DatesInv'
  <2>1. /\ UNCHANGED <<last, made, day>>
        /\ \A i \in Numbers : \/ meta'[i] = meta[i] /\ created'[i] = created[i]
                              \/ meta'[i] = "none" /\ created'[i] = 0
    BY <1>2, PruneFrame
  <2> QED  BY <1>0, <2>1 DEF DatesInv
<1>3. CASE BeginRetention \/ Glob \/ (UNCHANGED <<files, runs>> /\ (day' = day \/ Midnight))
  <2>1. UNCHANGED <<last, made, meta, created>> /\ day' \in Nat /\ day' >= day
    BY <1>0, <1>3, OtherFrame DEF files
  <2> QED  BY <1>0, <2>1 DEF DatesInv
<1> QED  BY <1>1, <1>2, <1>3, StepKinds

LEMMA DatesOkStep ==
  ASSUME IInv, [BackupNext]_backupVars, NEW k \in Jobs
  PROVE  DatesOk(k)'
<1>0. /\ BackupTypeOK /\ OwnOk(k) /\ DatesOk(k) /\ last \in Nat /\ day \in Nat
      /\ made \in [Numbers -> Nat] /\ own[k] \in Nat /\ started[k] \in Nat
      /\ 1 .. last \subseteq Numbers /\ k \in Pruners
  BY Types DEF IInv, BackupTypeOK
<1>1. own[k] # 0 => own[k] \in 1 .. last /\ made[own[k]] \in Nat
  BY <1>0 DEF OwnOk
<1>2. ASSUME NEW j \in Jobs, RunStep(j)
      PROVE  DatesOk(k)'
  <2>1. CASE k # j
    <3>1. own'[k] = own[k] /\ started'[k] = started[k] /\ day' = day
      BY <1>2, <2>1, RunFrame
    <3>2. own[k] # 0 => made'[own[k]] = made[own[k]]
      BY <1>1, <1>2, RunFrame
    <3> QED  BY <1>0, <1>1, <3>1, <3>2 DEF DatesOk
  <2>2. CASE k = j
    <3>1. CASE Start(k) /\ UNCHANGED <<files, day>>
      <4>1. own'[k] = own[k] /\ own[k] = 0 /\ started'[k] = day /\ day' = day
        BY <1>0, <3>1 DEF Start, OwnOk, Step, BackupTypeOK
      <4> QED  BY <1>0, <4>1 DEF DatesOk
    <3>2. CASE PublishDump(k)
      <4>1. own'[k] = last + 1 /\ started'[k] = started[k] /\ day' = day
        BY <3>2 DEF PublishDump, BackupTypeOK, IInv
      <4>2. made'[last + 1] = day
        BY <1>0, <3>2, BackupAssumption DEF PublishDump, Numbers
      <4> QED  BY <1>0, <4>1, <4>2 DEF DatesOk
    <3>3. CASE ~ (PublishDump(k) \/ Start(k))
      <4>1. UNCHANGED <<made, own, started, day>>
        BY <1>2, <2>2, <3>3 DEF RunStep, Backup, StartBackup, OpenChecksum, WriteChecksum, WriteMeta,
                        RestoreCopy, PassTest, FailTest, MarkMeta, files
      <4> QED  BY <1>0, <4>1 DEF DatesOk
    <3>4. Start(k) => UNCHANGED <<files, day>>
      BY <1>2, <2>2 DEF RunStep, Backup, StartBackup, Start, PublishDump, OpenChecksum, WriteChecksum,
                        WriteMeta, RestoreCopy, PassTest, FailTest, MarkMeta, Step
    <3> QED  BY <3>1, <3>2, <3>3, <3>4
  <2> QED  BY <2>1, <2>2
<1>3. ASSUME NEW p \in Pruners, PruneStep(p)
      PROVE  DatesOk(k)'
  <2>1. UNCHANGED <<made, day>>
    BY <1>3, PruneFrame
  <2>2. \/ own'[k] = own[k] /\ started'[k] = started[k]
        \/ own'[k] = 0 /\ started'[k] = 0
    <3>1. CASE k # p
      BY <1>3, <3>1, PruneFrame
    <3>2. CASE k = p
      BY <1>3, <3>2 DEF PruneStep, ExitZero, Die, Ended, Prune, Sort, KeepYoung, Condemn,
                RemoveDump, RemoveChecksum, RemoveMeta, BackupTypeOK, IInv
    <3> QED  BY <3>1, <3>2
  <2> QED  BY <1>0, <2>1, <2>2 DEF DatesOk
<1>4. CASE BeginRetention \/ Glob \/ (UNCHANGED <<files, runs>> /\ (day' = day \/ Midnight))
  <2>1. UNCHANGED <<made, own, started>> /\ day' \in Nat /\ day' >= day
    BY <1>0, <1>4, OtherFrame DEF files
  <2> QED  BY <1>0, <2>1 DEF DatesOk
<1> QED  BY <1>2, <1>3, <1>4, StepKinds

\* The run's own steps.
LEMMA RunOwnStep ==
  ASSUME IInv, NEW j \in Jobs, RunStep(j)
  PROVE  RunOk(j)'
<1>0. /\ BackupTypeOK /\ OwnOk(j) /\ RunOk(j) /\ DatesInv /\ last \in Nat /\ j \in Pruners
      /\ dumps \subseteq 1 .. last /\ dumps \subseteq Numbers /\ own[j] \in Nat
  BY Types DEF IInv, BackupTypeOK
<1>1. CASE StartBackup(j) \/ (Start(j) /\ UNCHANGED <<files, day>>)
  <2>1. at'[j] = "dumping" /\ own[j] = 0 /\ own' = own /\ dumps' = dumps
    BY <1>0, <1>1 DEF StartBackup, Start, Step, OwnOk, files, BackupTypeOK
  <2> QED  BY <1>0, <2>1 DEF RunOk
<1>2. CASE PublishDump(j)
  <2>1. at'[j] = "checksum" /\ own'[j] = last + 1 /\ meta' = meta
    BY <1>0, <1>2 DEF PublishDump, Step, BackupTypeOK
  <2>2. meta[last + 1] = "none"
    BY <1>0, <1>2, BackupAssumption DEF PublishDump, DatesInv, Numbers
  <2> QED  BY <2>1, <2>2 DEF RunOk
<1>3. CASE OpenChecksum(j)
  <2>1. at'[j] = "digest" /\ at[j] = "checksum" /\ own' = own /\ meta' = meta
    BY <1>0, <1>3 DEF OpenChecksum, Step, BackupTypeOK
  <2> QED  BY <1>0, <2>1 DEF RunOk
<1>4. CASE WriteChecksum(j)
  <2>1. /\ at'[j] = "meta" /\ at[j] = "digest" /\ own' = own /\ meta' = meta
        /\ checksum'[own[j]] = "good"
    BY <1>0, <1>4 DEF WriteChecksum, Step, BackupTypeOK
  <2> QED  BY <1>0, <2>1 DEF RunOk
<1>5. CASE WriteMeta(j)
  <2>1. /\ at'[j] \in {"test", "mark"} /\ (at'[j] = "mark" => ~ tests[j])
        /\ at[j] = "meta" /\ UNCHANGED <<own, checksum, dumps, tests>>
    BY <1>0, <1>5 DEF WriteMeta, Step, BackupTypeOK
  <2> QED  BY <1>0, <2>1 DEF RunOk
<1>6. CASE RestoreCopy(j)
  <2>1. /\ at'[j] = "tables" /\ at[j] = "test" /\ UNCHANGED <<own, checksum, dumps, archive>>
        /\ copy'[j] = archive[own[j]]
    BY <1>0, <1>6 DEF RestoreCopy, Step, BackupTypeOK, files
  <2> QED  BY <1>0, <2>1 DEF RunOk
<1>7. CASE PassTest(j)
  <2>1. /\ at'[j] = "mark" /\ at[j] = "tables" /\ UNCHANGED <<own, checksum, dumps, archive>>
        /\ copy[j] # Blank
    BY <1>0, <1>7 DEF PassTest, Step, BackupTypeOK, files, ExpectedTables
  <2> QED  BY <1>0, <2>1 DEF RunOk
<1>8. CASE FailTest(j) \/ MarkMeta(j)
  <2>1. at'[j] \in {"rejected", "list"}
    BY <1>0, <1>8 DEF FailTest, MarkMeta, Step, BackupTypeOK
  <2> QED  BY <2>1 DEF RunOk
<1> QED  BY <1>1, <1>2, <1>3, <1>4, <1>5, <1>6, <1>7, <1>8 DEF RunStep, Backup

LEMMA RunOkStep ==
  ASSUME IInv, [BackupNext]_backupVars, NEW k \in Jobs
  PROVE  RunOk(k)'
<1>0. /\ BackupTypeOK /\ OwnOk(k) /\ RunOk(k) /\ last \in Nat
      /\ own[k] \in Nat /\ dumps \subseteq 1 .. last
      /\ 1 .. last \subseteq Numbers /\ k \in Pruners
  BY Types DEF IInv, BackupTypeOK
<1>1. own[k] # 0 => own[k] \in 1 .. last /\ own[k] \in Numbers
  BY <1>0 DEF OwnOk
<1>2. ASSUME NEW j \in Jobs, RunStep(j), k # j
      PROVE  RunOk(k)'
  <2>1. /\ own'[k] = own[k] /\ tests'[k] = tests[k] /\ copy'[k] = copy[k] /\ at'[k] = at[k]
    BY <1>0, <1>2, RunFrame
  <2>2. own[k] # 0 =>
          /\ archive'[own[k]] = archive[own[k]] /\ checksum'[own[k]] = checksum[own[k]]
          /\ meta'[own[k]] = meta[own[k]]
    <3>1. own[k] # 0 => own[j] # own[k]
      BY <1>2 DEF IInv, OwnApart
    <3> QED  BY <1>1, <1>2, <3>1, RunFrame
  <2>3. own[k] \in dumps' => own[k] \in dumps
    BY <1>0, <1>2, RunFrame DEF OwnOk
  <2>4. own[k] = 0 => at[k] \in {"idle", "dumping"} /\ 0 \notin dumps
    BY <1>0 DEF OwnOk
  <2>5. CASE own[k] = 0
    BY <2>1, <2>3, <2>4, <2>5 DEF RunOk
  <2>6. CASE own[k] # 0
    BY <1>0, <2>1, <2>2, <2>3, <2>6 DEF RunOk
  <2> QED  BY <2>5, <2>6
<1>3. ASSUME NEW p \in Pruners, PruneStep(p)
      PROVE  RunOk(k)'
  <2>1. CASE k = p
    <3>1. at'[k] \in {"idle", "age"} \cup Removing
      BY <1>0, <1>3, <2>1 DEF PruneStep, Prune, Sort, KeepYoung, Condemn, RemoveDump, RemoveChecksum,
        RemoveMeta, ExitZero, Die, Ended, Step, Removing, BackupTypeOK
    <3> QED  BY <3>1 DEF RunOk, Removing
  <2>2. CASE k # p
    <3>1. /\ own'[k] = own[k] /\ tests'[k] = tests[k] /\ copy'[k] = copy[k] /\ at'[k] = at[k]
          /\ dumps' \subseteq dumps
          /\ \A i \in dumps' : archive'[i] = archive[i] /\ checksum'[i] = checksum[i]
      BY <1>0, <1>3, <2>2, PruneFrame
    <3>2. own[k] # 0 => meta'[own[k]] \in {meta[own[k]], "none"}
      BY <1>1, <1>3, PruneFrame
    <3>3. own[k] = 0 => at[k] \in {"idle", "dumping"}
      BY <1>0 DEF OwnOk
    <3>4. at'[k] \in {"checksum", "digest", "meta"} => meta'[own'[k]] = "none"
      BY <1>0, <3>1, <3>2, <3>3 DEF RunOk
    <3> QED  BY <1>0, <3>1, <3>4 DEF RunOk
  <2> QED  BY <2>1, <2>2
<1>4. CASE BeginRetention \/ Glob \/ (UNCHANGED <<files, runs>> /\ (day' = day \/ Midnight))
  <2>1. UNCHANGED <<own, tests, copy, files>> /\ at'[k] = at[k]
    BY <1>0, <1>4, OtherFrame
  <2> QED  BY <1>0, <2>1 DEF RunOk, files
<1> QED  BY <1>2, RunOwnStep, <1>3, <1>4, StepKinds

LEMMA PassedStep ==
  ASSUME IInv, [BackupNext]_backupVars
  PROVE  PassedIsRestorable'
<1>0. /\ BackupTypeOK /\ PassedIsRestorable /\ DatesInv /\ last \in Nat
      /\ dumps \subseteq 1 .. last /\ 1 .. last \subseteq Numbers
  BY Types DEF IInv, BackupTypeOK
<1>1. ASSUME NEW j \in Jobs, RunStep(j)
      PROVE  PassedIsRestorable'
  <2>0. OwnOk(j) /\ RunOk(j) /\ own[j] \in Nat
    BY DEF IInv, BackupTypeOK
  <2>1. ASSUME NEW i \in dumps', meta'[i] = "passed", i # own[j]
        PROVE  archive'[i] # Blank /\ checksum'[i] = "good"
    <3>1. i \in Numbers
      <4>1. BackupTypeOK'
        BY <1>0, TypeStep
      <4> QED  BY <2>1, <4>1, BackupAssumption DEF BackupTypeOK, Numbers
    <3>2. meta[i] = "passed" /\ checksum'[i] = checksum[i]
      BY <1>1, <2>1, <3>1, RunFrame
    <3>3. i \in dumps
      <4>1. ~ (i > last)
        BY <1>0, <3>1, <3>2 DEF DatesInv
      <4> QED  BY <1>0, <1>1, <2>1, <4>1, RunFrame
    <3>4. archive'[i] = archive[i]
      BY <1>0, <1>1, <3>3, RunFrame
    <3> QED  BY <1>0, <3>2, <3>3, <3>4 DEF PassedIsRestorable
  <2>2. ASSUME own[j] \in dumps', meta'[own[j]] = "passed"
        PROVE  archive'[own[j]] # Blank /\ checksum'[own[j]] = "good"
    <3>1. own[j] \in dumps /\ own[j] \in Numbers
      BY <1>0, <1>1, <2>0, <2>2, RunFrame DEF OwnOk
    <3>2. archive'[own[j]] = archive[own[j]]
      BY <1>0, <1>1, <3>1, RunFrame
    <3>3. meta[own[j]] = "passed" => archive[own[j]] # Blank /\ checksum[own[j]] = "good"
      BY <1>0, <3>1 DEF PassedIsRestorable
    <3>4. CASE OpenChecksum(j) \/ WriteChecksum(j)
      <4>1. meta' = meta /\ at[j] \in {"checksum", "digest"}
        BY <3>4 DEF OpenChecksum, WriteChecksum, Step
      <4> QED  BY <2>0, <2>2, <4>1 DEF RunOk
    <3>5. CASE WriteMeta(j)
      BY <1>0, <2>2, <3>1, <3>5 DEF WriteMeta, BackupTypeOK
    <3>6. CASE MarkMeta(j)
      <4>1. tests[j] /\ at[j] = "mark" /\ checksum' = checksum
        BY <1>0, <2>2, <3>1, <3>6 DEF MarkMeta, Step, BackupTypeOK
      <4> QED  BY <2>0, <3>1, <3>2, <4>1 DEF RunOk
    <3>7. CASE UNCHANGED <<checksum, meta>>
      BY <2>2, <3>2, <3>3, <3>7
    <3> QED  BY <1>1, <3>4, <3>5, <3>6, <3>7 DEF RunStep, Backup, StartBackup, PublishDump,
               RestoreCopy, PassTest, FailTest, files
  <2> QED  BY <2>1, <2>2 DEF PassedIsRestorable
<1>2. ASSUME NEW p \in Pruners, PruneStep(p)
      PROVE  PassedIsRestorable'
  BY <1>0, <1>2, PruneFrame DEF PassedIsRestorable
<1>3. CASE BeginRetention \/ Glob \/ (UNCHANGED <<files, runs>> /\ (day' = day \/ Midnight))
  BY <1>0, <1>3, OtherFrame DEF PassedIsRestorable, files
<1> QED  BY <1>1, <1>2, <1>3, StepKinds

LEMMA InitInductive == BackupInit => IInv
<1> SUFFICES ASSUME BackupInit PROVE IInv
  OBVIOUS
<1>1. BackupTypeOK /\ Numbers \subseteq Nat
  BY InitTypes, Types
<1>2. \A j \in Jobs : OwnOk(j) /\ DatesOk(j) /\ RunOk(j)
  <2>1. ASSUME NEW j \in Jobs
        PROVE  at[j] = "idle" /\ own[j] = 0 /\ last = 0 /\ day = 0 /\ started[j] = 0 /\ dumps = {}
    BY DEF BackupInit, Pruners
  <2> QED  BY <2>1 DEF OwnOk, DatesOk, RunOk
<1>3. OwnApart
  BY DEF BackupInit, OwnApart
<1>4. \A p \in Pruners : PruneOk(p)
  BY DEF BackupInit, PruneOk, Removing
<1>5. DatesInv /\ YoungAndNewestRetained /\ PassedIsRestorable
  BY DEF BackupInit, DatesInv, YoungAndNewestRetained, PassedIsRestorable
<1> QED  BY <1>1, <1>2, <1>3, <1>4, <1>5 DEF IInv

LEMMA InductiveStep ==
  ASSUME IInv, [BackupNext]_backupVars
  PROVE  IInv'
<1>1. BackupTypeOK'
  BY TypeStep DEF IInv
<1>2. \A j \in Jobs : OwnOk(j)' /\ DatesOk(j)' /\ RunOk(j)'
  BY OwnStep, DatesOkStep, RunOkStep
<1>3. \A p \in Pruners : PruneOk(p)'
  BY PruneOkStep
<1>4. OwnApart' /\ DatesInv' /\ YoungAndNewestRetained' /\ PassedIsRestorable'
  BY ApartStep, DatesStep, RetainedStep, PassedStep
<1> QED  BY <1>1, <1>2, <1>3, <1>4 DEF IInv, Pruners

\* The inductive invariant.
THEOREM Inductive == BackupSpec => []IInv
<1>1. IInv /\ [BackupNext]_backupVars => IInv'
  BY InductiveStep
<1> QED  BY <1>1, InitInductive, PTL DEF BackupSpec

-----------------------------------------------------------------------------
(* What the operators of the system rely on.                               *)

\* Whoever prunes, whenever, what is young or among the newest stays.
THEOREM RetentionKeepsItsPromise == BackupSpec => []YoungAndNewestRetained
<1>1. IInv => YoungAndNewestRetained
  BY DEF IInv
<1> QED  BY <1>1, Inductive, PTL

\* "passed" in the metadata of a dump that is there is true of the dump.
THEOREM PassedRestores == BackupSpec => []PassedIsRestorable
<1>1. IInv => PassedIsRestorable
  BY DEF IInv
<1> QED  BY <1>1, Inductive, PTL

\* The monitor looks at the metadata only, and that is enough.
THEOREM SilenceIsHealth == BackupSpec => []HealthyIsRestorable
<1>1. IInv => HealthyIsRestorable
  <2> SUFFICES ASSUME IInv, NEW i \in Numbers, Recent(i)
               PROVE  i \in dumps /\ archive[i] # Blank /\ checksum[i] = "good"
    BY DEF HealthyIsRestorable
  <2>1. /\ BackupTypeOK /\ DatesInv /\ YoungAndNewestRetained /\ PassedIsRestorable
        /\ meta[i] = "passed" /\ day - created[i] < CriticalAge
    BY DEF IInv, Recent
  <2>2. day \in Nat /\ made[i] \in Nat /\ created[i] \in Nat /\ created[i] <= made[i]
    BY <2>1, Types DEF BackupTypeOK, DatesInv
  <2>3. i \in 1 .. last
    BY <2>1, Types DEF DatesInv, Numbers
  <2>4. day - made[i] < RetentionDays
    BY <2>1, <2>2, BackupAssumption
  <2>5. i \in dumps
    BY <2>1, <2>3, <2>4 DEF YoungAndNewestRetained
  <2> QED  BY <2>1, <2>5 DEF PassedIsRestorable
<1> QED  BY <1>1, Inductive, PTL

-----------------------------------------------------------------------------
(* The replacement of production.                                          *)

\* The dump the replacement has made is too young for any pruning, and its
\* files are complete: no step spoils it.
LEMMA SavedStep ==
  ASSUME IInv, [BackupNext]_backupVars, NEW c, Saved(c),
         began' = began, day - began < RetentionDays
  PROVE  Saved(c)'
<1>0. /\ BackupTypeOK /\ last \in Nat /\ day \in Nat /\ began \in Nat
      /\ dumps \subseteq 1 .. last /\ 1 .. last \subseteq Numbers
      /\ made \in [Numbers -> Nat] /\ RetentionDays \in Nat
  BY Types, BackupAssumption DEF IInv, BackupTypeOK
<1>1. PICK i \in dumps : /\ made[i] >= began /\ archive[i] = c /\ checksum[i] = "good"
                         /\ meta[i] \in {"passed", "skipped"}
  BY DEF Saved
<1> DEFINE Kept == /\ i \in dumps' /\ made'[i] = made[i] /\ archive'[i] = c
                   /\ checksum'[i] = "good" /\ meta'[i] \in {"passed", "skipped"}
<1>2. ASSUME NEW j \in Jobs, RunStep(j)
      PROVE  Kept
  <2>0. RunOk(j) /\ i \in Numbers
    BY <1>0 DEF IInv
  <2>1. i \in dumps' /\ made'[i] = made[i] /\ archive'[i] = c
    BY <1>0, <1>1, <1>2, RunFrame
  <2>2. CASE i # own[j]
    BY <1>0, <1>1, <1>2, <2>1, <2>2, RunFrame
  <2>3. CASE i = own[j]
    <3>1. at[j] \notin {"checksum", "digest", "meta"}
      BY <1>1, <2>0, <2>3 DEF RunOk
    <3>2. CASE MarkMeta(j)
      <4>1. checksum' = checksum /\ meta'[i] \in {"passed", "skipped"}
        BY <1>0, <2>0, <2>3, <3>2 DEF MarkMeta, BackupTypeOK
      <4> QED  BY <1>1, <2>1, <4>1
    <3>3. CASE ~ MarkMeta(j)
      <4>1. UNCHANGED <<checksum, meta>>
        BY <1>2, <3>1, <3>3 DEF RunStep, Backup, StartBackup, PublishDump, OpenChecksum, WriteChecksum,
          WriteMeta, RestoreCopy, PassTest, FailTest, files, Step
      <4> QED  BY <1>1, <2>1, <4>1
    <3> QED  BY <3>2, <3>3
  <2> QED  BY <2>2, <2>3
<1>3. ASSUME NEW p \in Pruners, PruneStep(p)
      PROVE  Kept
  <2>1. i \in dumps'
    BY <1>0, <1>1, <1>3, PruneFrame
  <2> QED  BY <1>1, <1>3, <2>1, PruneFrame
<1>4. ASSUME BeginRetention \/ Glob \/ (UNCHANGED <<files, runs>> /\ (day' = day \/ Midnight))
      PROVE  Kept
  BY <1>1, <1>4, OtherFrame DEF files
<1>5. Kept
  BY <1>2, <1>3, <1>4, StepKinds
<1> QED  BY <1>1, <1>5 DEF Saved

LEMMA ChosenStep ==
  ASSUME IInv, [BackupNext]_backupVars, NEW i \in 1 .. last, i \in dumps => archive[i] # Blank
  PROVE  i \in 1 .. last' /\ (i \in dumps' => archive'[i] # Blank)
<1>0. BackupTypeOK /\ last \in Nat /\ dumps \subseteq 1 .. last
  BY Types DEF IInv
<1>1. ASSUME NEW j \in Jobs, RunStep(j)
      PROVE  i \in 1 .. last' /\ (i \in dumps' => archive'[i] # Blank)
  BY <1>0, <1>1, RunFrame
<1>2. ASSUME NEW p \in Pruners, PruneStep(p)
      PROVE  i \in 1 .. last' /\ (i \in dumps' => archive'[i] # Blank)
  BY <1>0, <1>2, PruneFrame
<1>3. CASE BeginRetention \/ Glob \/ (UNCHANGED <<files, runs>> /\ (day' = day \/ Midnight))
  BY <1>0, <1>3, OtherFrame DEF files
<1> QED  BY <1>1, <1>2, <1>3, StepKinds

\* The operator's run, while the replacement waits for it.
LEMMA OperatorStep ==
  ASSUME IInv, [BackupNext]_backupVars, OperatorInv, outage = "backing_up", outage' = "backing_up",
         UNCHANGED <<production, began>>, began <= day, day - began < RetentionDays
  PROVE  OperatorInv'
<1> DEFINE o == Operator
<1> HIDE DEF o
<1>0. /\ BackupTypeOK /\ last \in Nat /\ day \in Nat /\ began \in Nat
      /\ dumps \subseteq 1 .. last /\ 1 .. last \subseteq Numbers
      /\ made \in [Numbers -> Nat] /\ RetentionDays \in Nat
      /\ o \in Jobs /\ o \in Pruners /\ own[o] \in Nat /\ OwnOk(o) /\ RunOk(o)
      /\ at = [q \in Pruners |-> at[q]]
  BY Types, BackupAssumption DEF IInv, BackupTypeOK, Pruners, o
<1>1. /\ at[o] # "idle"
      /\ at[o] = "dumping" => copy[o] = production
      /\ at[o] \in {"checksum", "digest", "meta", "test", "tables", "mark"} =>
           made[own[o]] >= began /\ archive[own[o]] = production
      /\ at[o] \in Removing \cup {"list", "age"} => Saved(production)
  BY DEF OperatorInv, o
<1>2. Saved(production) => Saved(production)'
  BY <1>0, SavedStep
<1> DEFINE Next ==
      /\ at'[o] # "idle"
      /\ at'[o] = "dumping" => copy'[o] = production
      /\ at'[o] \in {"checksum", "digest", "meta", "test", "tables", "mark"} =>
           made'[own'[o]] >= began /\ archive'[own'[o]] = production
      /\ at'[o] \in Removing \cup {"list", "age"} => Saved(production)'
<1>3. SUFFICES Next
  BY <1>3 DEF OperatorInv, o, Removing
<1>4. own[o] # 0 => own[o] \in 1 .. last /\ own[o] \in Numbers
  BY <1>0 DEF OwnOk
<1>5. at[o] \in {"checksum", "digest", "meta", "test", "tables", "mark"} =>
        own[o] # 0 /\ own[o] \in dumps
  <2>1. at[o] \in {"checksum", "digest", "meta", "test", "tables", "mark"} => own[o] # 0
    BY <1>0 DEF OwnOk
  <2> QED  BY <1>0, <1>1, <1>4, <2>1 DEF IInv, YoungAndNewestRetained
<1>6. ASSUME NEW j \in Jobs, RunStep(j), j # o
      PROVE  Next
  <2>1. at'[o] = at[o] /\ own'[o] = own[o] /\ copy'[o] = copy[o]
    BY <1>0, <1>6, RunFrame
  <2>2. own[o] # 0 => made'[own[o]] = made[own[o]] /\ archive'[own[o]] = archive[own[o]]
    BY <1>4, <1>6, RunFrame
  <2> QED  BY <1>1, <1>2, <1>5, <2>1, <2>2
<1>7. ASSUME NEW p \in Pruners, PruneStep(p), p # o
      PROVE  Next
  <2>1. at'[o] = at[o] /\ own'[o] = own[o] /\ copy'[o] = copy[o] /\ made' = made
    BY <1>0, <1>7, PruneFrame
  <2>2. own[o] \in dumps /\ made[own[o]] >= began => archive'[own[o]] = archive[own[o]]
    BY <1>0, <1>7, PruneFrame
  <2> QED  BY <1>1, <1>2, <1>5, <2>1, <2>2
<1>8. CASE RunStep(o)
  <2>1. CASE Start(o) \/ StartBackup(o)
    <3>1. at[o] = "idle"
      BY <2>1 DEF Start, StartBackup, Step
    <3> QED  BY <1>1, <3>1
  <2>2. CASE PublishDump(o)
    <3>1. at[o] = "dumping" /\ at'[o] = "checksum" /\ own'[o] = last + 1
      BY <1>0, <2>2 DEF PublishDump, Step, BackupTypeOK
    <3>2. last + 1 \in Numbers
      BY <1>0, <2>2, BackupAssumption DEF PublishDump, Numbers
    <3>3. made'[last + 1] = day /\ archive'[last + 1] = copy[o]
      BY <1>0, <2>2, <3>2 DEF PublishDump, BackupTypeOK
    <3> QED  BY <1>0, <1>1, <3>1, <3>3 DEF Removing
  <2>3. CASE OpenChecksum(o) \/ WriteChecksum(o) \/ WriteMeta(o)
    <3>1. /\ at[o] \in {"checksum", "digest", "meta"} /\ at'[o] \in {"digest", "meta", "test", "mark"}
          /\ UNCHANGED <<own, made, archive>>
      BY <1>0, <2>3 DEF OpenChecksum, WriteChecksum, WriteMeta, Step
    <3> QED  BY <1>1, <3>1 DEF Removing
  <2>4. CASE RestoreCopy(o) \/ PassTest(o) \/ FailTest(o)
    <3>1. /\ at[o] \in {"test", "tables"} /\ at'[o] \in {"tables", "mark", "rejected"}
          /\ UNCHANGED <<own, made, archive>>
      BY <1>0, <2>4 DEF RestoreCopy, PassTest, FailTest, Step, files
    <3> QED  BY <1>1, <3>1 DEF Removing
  <2>5. CASE MarkMeta(o)
    <3>1. at[o] = "mark" /\ at'[o] = "list" /\ UNCHANGED <<own, made, archive, dumps, checksum>>
      BY <1>0, <2>5 DEF MarkMeta, Step
    <3>2. meta'[own[o]] \in {"passed", "skipped"}
      BY <1>0, <1>4, <1>5, <2>5, <3>1 DEF MarkMeta, BackupTypeOK
    <3>3. checksum[own[o]] = "good"
      BY <1>0, <1>5, <3>1 DEF RunOk
    <3>4. Saved(production)'
      BY <1>1, <1>5, <3>1, <3>2, <3>3 DEF Saved
    <3> QED  BY <3>1, <3>4
  <2> QED  BY <1>8, <2>1, <2>2, <2>3, <2>4, <2>5 DEF RunStep, Backup
<1>9. CASE PruneStep(o)
  <2>1. CASE ExitZero(o) \/ Die(o)
    BY <1>0, <2>1 DEF ExitZero, Die, o
  <2>2. CASE Prune(o)
    <3>1. at[o] \in Removing \cup {"list", "age"} /\ at'[o] \in Removing \cup {"list", "age"}
      BY <1>0, <2>2 DEF Prune, Sort, KeepYoung, Condemn, RemoveDump, RemoveChecksum, RemoveMeta, Step, Removing
    <3> QED  BY <1>1, <1>2, <3>1 DEF Removing
  <2> QED  BY <1>9, <2>1, <2>2 DEF PruneStep
<1>10. CASE BeginRetention \/ Glob \/ (UNCHANGED <<files, runs>> /\ (day' = day \/ Midnight))
  <2>1. at'[o] = at[o] /\ UNCHANGED <<own, copy, made, archive>>
    BY <1>0, <1>10, OtherFrame DEF files
  <2> QED  BY <1>1, <1>2, <2>1
<1> QED  BY <1>6, <1>7, <1>8, <1>9, <1>10, StepKinds

\* A step that is none of the replacement's.
LEMMA QuietStep ==
  ASSUME IInv, OutageInv, [BackupNext]_backupVars,
         UNCHANGED <<production, appUp, replacement>>,
         day' \in Nat, day' >= day, outage # "none" => day' - began < RetentionDays
  PROVE  OutageInv'
<1>0. /\ UNCHANGED <<outage, chosen, opened, began, lost, production, appUp>>
      /\ began \in Nat /\ day \in Nat /\ RetentionDays \in Nat
  BY Types, BackupAssumption DEF IInv, BackupTypeOK, replacement
<1>1. outage # "none" => began <= day /\ day - began < RetentionDays
  BY DEF OutageInv
<1>2. (appUp <=> outage = "none")'
  BY <1>0 DEF OutageInv
<1>3. /\ lost = Blank => production # Blank
      /\ lost # Blank => outage \in {"chosen"} \cup Lossy
      /\ outage \in Lossy => lost # Blank
      /\ outage = "loading" => opened # Blank
  BY DEF OutageInv
<1>4. (outage # "none" => began <= day /\ day - began < RetentionDays)'
  <2>1. ASSUME outage # "none"
        PROVE  began <= day' /\ day' - began < RetentionDays
    <3>1. began <= day
      BY <1>1, <2>1
    <3>2. began <= day'
      BY <1>0, <3>1
    <3> QED  BY <2>1, <3>2
  <2> QED  BY <1>0, <2>1
<1>5. (outage \in {"chosen", "created"} =>
        chosen \in 1 .. last /\ (chosen \in dumps => archive[chosen] # Blank))'
  <2>1. outage \in {"chosen", "created"} =>
          chosen \in 1 .. last' /\ (chosen \in dumps' => archive'[chosen] # Blank)
    BY ChosenStep DEF OutageInv
  <2> QED  BY <1>0, <2>1
<1>6. (outage = "backing_up" => OperatorInv)'
  BY <1>0, <1>1, OperatorStep DEF OutageInv
<1>7. (outage \in {"backed_up", "chosen"} \cup Lossy => Saved(Held))'
  <2> DEFINE c == Held
  <2>1. outage \in {"backed_up", "chosen"} \cup Lossy => Saved(c)
    BY DEF OutageInv
  <2>2. c' = c
    BY <1>0 DEF Blank, Held
  <2>3. Saved(c) /\ outage # "none" => Saved(c)'
    <3> HIDE DEF c
    <3>1. ASSUME Saved(c), outage # "none"
          PROVE  Saved(c)'
      <4>1. \A v : Saved(v) => Saved(v)'
        BY <1>0, <1>1, <3>1, SavedStep
      <4>2. \A v : Saved(v)' => \E i \in dumps' : /\ made'[i] >= began' /\ archive'[i] = v
                 /\ checksum'[i] = "good" /\ meta'[i] \in {"passed", "skipped"}
        BY DEF Saved
      <4> QED  BY <2>2, <3>1, <4>1, <4>2 DEF Saved
    <3> QED  BY <3>1
  <2> QED  BY <1>0, <2>1, <2>3 DEF Lossy
<1> QED  BY <1>0, <1>2, <1>3, <1>4, <1>5, <1>6, <1>7 DEF OutageInv, Blank, Lossy

\* What a backup run does, and a pruning as long as it goes on, is no step of
\* the replacement.
LEMMA ScriptQuiet ==
  ASSUME \/ \E j \in Jobs : Backup(j)
         \/ \E p \in Pruners : Prune(p)
         \/ BeginRetention \/ Glob
  PROVE  UNCHANGED <<production, appUp, replacement, day>>
<1>1. ASSUME NEW j \in Jobs, Backup(j)
      PROVE  UNCHANGED <<production, appUp, replacement, day>>
  BY <1>1 DEF Backup, StartBackup, PublishDump, OpenChecksum, WriteChecksum, WriteMeta,
    RestoreCopy, PassTest, FailTest, MarkMeta
<1>2. ASSUME NEW p \in Pruners, Prune(p)
      PROVE  UNCHANGED <<production, appUp, replacement, day>>
  BY <1>2 DEF Prune, Sort, KeepYoung, Condemn, RemoveDump, RemoveChecksum, RemoveMeta
<1>3. CASE BeginRetention \/ Glob
  BY <1>3 DEF BeginRetention, Glob
<1> QED  BY <1>1, <1>2, <1>3

\* The operator's run ends, and the replacement goes on or is given up.
LEMMA OperatorEnds ==
  ASSUME IInv, OutageInv, [BackupNext]_backupVars, outage = "backing_up",
         ExitZero(Operator) \/ Die(Operator)
  PROVE  OutageInv'
<1>0. /\ began \in Nat /\ day \in Nat /\ began <= day /\ day - began < RetentionDays
      /\ production # Blank /\ lost = Blank /\ appUp = FALSE /\ OperatorInv /\ appUp \in BOOLEAN
  BY Types DEF OutageInv, Lossy, IInv, BackupTypeOK
<1>1. CASE ExitZero(Operator)
  <2>1. at[Operator] = "age" /\ UNCHANGED <<production, lost, appUp, day, began>> /\ outage' = "backed_up"
    BY <1>1 DEF ExitZero
  <2>2. Saved(production)
    BY <1>0, <2>1 DEF OperatorInv, Removing
  <2>3. Saved(production)'
    BY <1>0, <2>1, <2>2, SavedStep
  <2>4. Saved(Held)'
    BY <1>0, <2>1, <2>3 DEF Blank, Held, Saved
  <2>5. began' <= day' /\ day' - began' < RetentionDays
    BY <1>0, <2>1
  <2>6. appUp' = FALSE /\ production' # Blank'
    BY <1>0, <2>1 DEF Blank
  <2> QED  BY <1>0, <2>1, <2>4, <2>5, <2>6 DEF OutageInv, Blank, Lossy
<1>2. CASE Die(Operator)
  <2>1. outage' = "none" /\ appUp' = TRUE /\ UNCHANGED <<production, lost>>
    BY <1>2 DEF Die
  <2> QED  BY <1>0, <2>1 DEF OutageInv, Blank, Lossy
<1> QED  BY <1>1, <1>2

\* The steps of postgres-restore.sh and of its operator.  The backup must be in
\* force for a day at least: with RETENTION_DAYS=0 the retention script takes
\* a dump beyond the newest at once.
LEMMA ReplaceStep ==
  ASSUME IInv, OutageInv, [BackupNext]_backupVars, Replace, RetentionDays # 0
  PROVE  OutageInv'
<1>0. /\ BackupTypeOK /\ began \in Nat /\ day \in Nat /\ RetentionDays \in Nat \ {0}
      /\ appUp \in BOOLEAN /\ dumps \subseteq 1 .. last
      /\ outage # "none" => began <= day /\ day - began < RetentionDays
  BY Types, BackupAssumption DEF OutageInv, IInv, BackupTypeOK
<1>1. /\ appUp <=> outage = "none"
      /\ lost = Blank => production # Blank
      /\ lost # Blank => outage \in {"chosen"} \cup Lossy
      /\ outage \in Lossy => lost # Blank
  BY DEF OutageInv
<1>2. CASE StopWrites
  <2>1. outage' = "stopped" /\ appUp' = FALSE /\ UNCHANGED <<production, lost>> /\ lost = Blank
    BY <1>1, <1>2 DEF StopWrites, Lossy
  <2>2. began' <= day' /\ day' - began' < RetentionDays
    BY <1>0, <1>2 DEF StopWrites
  <2> QED  BY <1>1, <2>1, <2>2 DEF OutageInv, Blank, Lossy
<1>3. CASE FreshBackup
  <2>1. /\ outage' = "backing_up" /\ UNCHANGED <<production, lost, appUp, day, began>>
        /\ lost = Blank /\ appUp = FALSE
    BY <1>1, <1>3, <1>0 DEF FreshBackup, Lossy
  <2>2. began' <= day' /\ day' - began' < RetentionDays
    BY <1>0, <1>3, <2>1 DEF FreshBackup
  <2>3. OperatorInv'
    <3>1. at'[Operator] = "dumping" /\ copy'[Operator] = production
      BY <1>0, <1>3, BackupAssumption DEF FreshBackup, Start, Step, BackupTypeOK, Pruners
    <3> QED  BY <2>1, <3>1 DEF OperatorInv, Removing
  <2> QED  BY <1>1, <2>1, <2>2, <2>3 DEF OutageInv, Blank, Lossy
\* What is held stays the same from the fresh backup on, and so does its dump.
<1>4. ASSUME outage \in {"backed_up", "chosen"} \cup Lossy, UNCHANGED <<began, day>>, Held' = Held
      PROVE  Saved(Held)' /\ began' <= day' /\ day' - began' < RetentionDays
  <2> DEFINE held == Held
  <2>1. Saved(held) /\ held' = held /\ outage # "none"
    BY <1>4 DEF OutageInv, Lossy
  <2> HIDE DEF held
  <2>2. \A v : Saved(v) => Saved(v)'
    BY <1>0, <1>4, <2>1, SavedStep
  <2>3. \A v : Saved(v)' <=> \E i \in dumps' : /\ made'[i] >= began' /\ archive'[i] = v
             /\ checksum'[i] = "good" /\ meta'[i] \in {"passed", "skipped"}
    BY DEF Saved
  <2>4. Saved(held)'
    BY <2>1, <2>2, <2>3 DEF Saved
  <2> QED  BY <1>0, <1>4, <2>1, <2>4 DEF held
<1>5. ASSUME NEW i \in Numbers, Choose(i)
      PROVE  OutageInv'
  <2>1. /\ outage \in {"backed_up", "dropped"} /\ outage' = "chosen" /\ chosen' = i
        /\ i \in dumps /\ archive[i] # Blank
        /\ UNCHANGED <<last, dumps, archive, production, appUp, day, began, lost>>
    BY <1>5 DEF Choose, Verifiable, files
  <2>2. Saved(Held)' /\ began' <= day' /\ day' - began' < RetentionDays
    BY <1>4, <2>1 DEF Held, Blank, Lossy
  <2>3. appUp' = FALSE
    BY <1>0, <1>1, <2>1
  <2>4. chosen' \in 1 .. last' /\ (chosen' \in dumps' => archive'[chosen'] # Blank)
    BY <1>0, <2>1
  <2> QED  BY <1>1, <2>1, <2>2, <2>3, <2>4 DEF OutageInv, Blank, Lossy
<1>6. CASE DropProduction
  <2>1. /\ outage = "chosen" /\ outage' = "created"
        /\ lost' = IF lost = Blank THEN production ELSE lost
        /\ UNCHANGED <<last, dumps, archive, appUp, day, chosen, began>>
    BY <1>6 DEF DropProduction, files
  <2>2. lost' # Blank /\ Held' = Held
    BY <1>1, <2>1 DEF Held, Blank
  <2>3. Saved(Held)' /\ began' <= day' /\ day' - began' < RetentionDays
    BY <1>4, <2>1, <2>2
  <2>4. appUp' = FALSE
    BY <1>0, <1>1, <2>1
  <2>5. chosen' \in 1 .. last' /\ (chosen' \in dumps' => archive'[chosen'] # Blank)
    BY <2>1 DEF OutageInv
  <2> QED  BY <2>1, <2>2, <2>3, <2>4, <2>5 DEF OutageInv, Blank, Lossy
<1>7. CASE OpenDump \/ LoadTables \/ RestoreFails
  <2>1. /\ outage \in {"chosen"} \cup Lossy /\ outage' \in {"loading", "dropped"} /\ lost # Blank
        /\ UNCHANGED <<lost, appUp, day, began>>
    BY <1>1, <1>7 DEF OpenDump, LoadTables, RestoreFails, replacement, Lossy
  <2>2. Saved(Held)' /\ began' <= day' /\ day' - began' < RetentionDays
    BY <1>4, <2>1 DEF Held, Blank
  <2>3. appUp' = FALSE
    BY <1>0, <1>1, <2>1 DEF Lossy
  <2>4. outage' = "loading" => opened' # Blank
    BY <1>7 DEF OpenDump, LoadTables, RestoreFails, replacement, OutageInv
  <2> QED  BY <2>1, <2>2, <2>3, <2>4 DEF OutageInv, Blank, Lossy
<1>8. CASE LoadDump
  <2>1. outage' = "none" /\ appUp' = TRUE /\ production' # Blank /\ lost' = Blank
    BY <1>8 DEF LoadDump, OutageInv
  <2> QED  BY <2>1 DEF OutageInv, Blank, Lossy
<1>9. CASE CallOff
  <2>1. outage' = "none" /\ appUp' = TRUE /\ lost' = Blank /\ production' # Blank
    BY <1>1, <1>9 DEF CallOff
  <2> QED  BY <2>1 DEF OutageInv, Blank, Lossy
<1> QED  BY <1>2, <1>3, <1>5, <1>6, <1>7, <1>8, <1>9 DEF Replace

LEMMA OutageStep ==
  ASSUME IInv, OutageInv, [BackupNext]_backupVars, RetentionDays # 0
  PROVE  OutageInv'
<1>0. /\ day \in Nat /\ began \in Nat /\ (outage # "none" => day - began < RetentionDays)
      /\ appUp <=> outage = "none"
  BY Types DEF IInv, BackupTypeOK, OutageInv
<1>1. CASE \/ \E j \in Jobs : Backup(j)
           \/ \E p \in Pruners : Prune(p)
           \/ BeginRetention \/ Glob
  BY <1>0, <1>1, ScriptQuiet, QuietStep
<1>2. ASSUME NEW p \in Pruners, ExitZero(p) \/ Die(p)
      PROVE  OutageInv'
  <2>1. CASE p = Operator /\ outage = "backing_up"
    BY <1>2, <2>1, OperatorEnds
  <2>2. CASE ~ (p = Operator /\ outage = "backing_up")
    <3>1. UNCHANGED <<production, appUp, replacement, day>>
      BY <1>2, <2>2 DEF ExitZero, Die, replacement
    <3> QED  BY <1>0, <3>1, QuietStep
  <2> QED  BY <2>1, <2>2
<1>3. CASE Replace
  BY <1>3, ReplaceStep
<1>4. CASE Write
  <2>1. /\ outage = "none" /\ outage' = "none" /\ appUp' = appUp /\ lost' = lost
        /\ production' # Blank
    BY <1>0, <1>4, Types DEF Write, replacement, Blank, IInv, BackupTypeOK
  <2> QED  BY <1>0, <2>1 DEF OutageInv, Blank, Lossy
<1>5. CASE Midnight
  <2>1. UNCHANGED <<production, appUp, replacement>> /\ day' = day + 1
    BY <1>5 DEF Midnight
  <2>2. outage # "none" => day' - began < RetentionDays
    BY <1>0, <1>5 DEF Midnight
  <2> QED  BY <1>0, <2>1, <2>2, QuietStep
<1>6. CASE UNCHANGED backupVars
  <2>1. UNCHANGED <<production, appUp, replacement, day>>
    BY <1>6 DEF backupVars
  <2> QED  BY <1>0, <2>1, QuietStep
<1> QED  BY <1>1, <1>2, <1>3, <1>4, <1>5, <1>6 DEF BackupNext

\* From the moment production is dropped until a dump is loaded to its end, what
\* was dropped is in a dump that restores, however often a restore is cut short.
THEOREM DroppedIsSafe ==
  ASSUME RetentionDays # 0
  PROVE  BackupSpec => []DroppedIsInADump
<1>1. BackupInit => OutageInv
  BY DEF BackupInit, OutageInv, Blank, Lossy
<1>2. IInv /\ OutageInv /\ [BackupNext]_backupVars => OutageInv'
  BY OutageStep
<1>3. OutageInv => DroppedIsInADump
  <2> SUFFICES ASSUME OutageInv, lost # Blank
               PROVE  \E i \in dumps : /\ archive[i] = lost /\ checksum[i] = "good"
                                       /\ meta[i] \in {"passed", "skipped"}
    BY DEF DroppedIsInADump
  <2>1. Saved(lost)
    BY DEF OutageInv, Held, Lossy
  <2> QED  BY <2>1 DEF Saved
<1> QED  BY <1>1, <1>2, <1>3, Inductive, PTL DEF BackupSpec
=============================================================================
