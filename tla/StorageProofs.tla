---------------------------- MODULE StorageProofs ----------------------------
(* What is proved of SnapshotStore, for every set of collectors and ids,     *)
(* every number of files and every retention, and of SnapshotRetention, whose*)
(* script takes no lock, beside any number of collectors.                    *)
(*                                                                           *)
(* IInv is inductive for the collectors.  Its core is the lock (only its     *)
(* holder is away from "idle", hence a step of one collector meets all others*)
(* idle) and, for the holder, what the disk looks like at each of its steps. *)
EXTENDS SnapshotRetention, FiniteSetTheorems, WellFoundedInduction, TLAPS

Chosen == {"write", "rename", "tmp", "replace", "sync", "list", "prune"}
Renamed == {"tmp", "replace", "sync", "list", "prune"}

LockHeld == \A c \in Collectors : pc[c] # "idle" <=> lock = c

DiskInv ==
  /\ dirs \cap staging = {}
  /\ \A i \in Ids \ used : content[i] = {}
  /\ pointer \in used \cup {None}

\* What the disk holds of the snapshot that collector c is publishing.
RunInv(c) ==
  /\ pc[c] \in {"idle", "collect", "stage"} => step[c] = 1
  /\ pc[c] \in Chosen => sid[c] \in used
  /\ pc[c] \in {"write", "rename"} => sid[c] \notin dirs
  /\ pc[c] = "write" => content[sid[c]] = 1 .. step[c] - 1
  /\ pc[c] = "rename" => content[sid[c]] = Entries
  /\ pc[c] \in Renamed => Complete(sid[c])
  /\ pc[c] = "prune" => sid[c] \notin victims[c]
  /\ base[c] \in used \cup {None}
  /\ pc[c] \in Chosen => ClockMayStepBack \/ base[c] = None \/ base[c] < sid[c]

StructInv == LockHeld /\ DiskInv /\ \A c \in Collectors : RunInv(c)

\* The pointer, seen from collector c.
PointerInv(c) ==
  /\ pc[c] \notin {"idle"} \cup Swapped => pointer = base[c]
  /\ pc[c] \in Swapped => pointer = sid[c]

IInv ==
  /\ TypeOK
  /\ StructInv
  /\ \A c \in Collectors : PointerInv(c)
  /\ ActiveIntact

-----------------------------------------------------------------------------
(* The initial states.                                                     *)

LEMMA InitInvariant == Init => IInv
  BY IdsAssumption, NumFilesAssumption, NoneAssumption, SMTT(30)
  DEF Init, IInv, TypeOK, StructInv, LockHeld, DiskInv, RunInv, PointerInv,
      ActiveIntact, Complete, Entries, Manifest, Steps, Chosen, Renamed, Swapped

\* While one collector is away from "idle" no other is: the lock is exclusive.
LEMMA Alone ==
  ASSUME LockHeld, NEW c \in Collectors, pc[c] # "idle"
  PROVE  lock = c /\ \A d \in Collectors \ {c} : pc[d] = "idle"
  BY DEF LockHeld

-----------------------------------------------------------------------------
(* Each step keeps the type invariant and the structure of the disk.       *)

LEMMA AcquireStruct ==
  ASSUME TypeOK, StructInv, NEW c \in Collectors, Acquire(c)
  PROVE  TypeOK' /\ StructInv'
<1>1. TypeOK'
  BY DEF TypeOK, Acquire, Goto, disk, Steps
<1>2. LockHeld'
  BY NoneAssumption DEF TypeOK, StructInv, LockHeld, Acquire, Goto
<1>3. DiskInv'
  BY DEF StructInv, DiskInv, Acquire, disk
<1>4. \A d \in Collectors : RunInv(d)'
  BY DEF TypeOK, StructInv, DiskInv, RunInv, Acquire, Goto, disk, Complete, Chosen, Renamed
<1> QED BY <1>1, <1>2, <1>3, <1>4 DEF StructInv

LEMMA MakeStagingStruct ==
  ASSUME TypeOK, StructInv, NEW c \in Collectors, MakeStaging(c)
  PROVE  TypeOK' /\ StructInv'
<1>1. TypeOK'
  BY DEF TypeOK, MakeStaging, Fresh, Goto, Steps
<1>2. LockHeld'
  BY DEF TypeOK, StructInv, LockHeld, MakeStaging, Goto
<1>3. DiskInv'
  BY DEF TypeOK, StructInv, DiskInv, MakeStaging, Fresh
<1>4. \A d \in Collectors \ {c} : RunInv(d)'
  BY Alone DEF TypeOK, StructInv, RunInv, MakeStaging, Goto, Complete, Chosen, Renamed
<1>5. PICK i \in Ids : Fresh(i) /\ used' = used \cup {i} /\ sid' = [sid EXCEPT ![c] = i]
  BY DEF MakeStaging
<1>6. content[i] = {} /\ i \notin dirs /\ step[c] = 1 /\ base[c] \in used \cup {None}
  BY <1>5 DEF TypeOK, StructInv, DiskInv, RunInv, MakeStaging, Fresh
<1>7. ClockMayStepBack \/ base[c] = None \/ base[c] < i
  BY <1>5, <1>6 DEF Fresh
<1>8. /\ sid'[c] = i /\ pc'[c] = "write" /\ i \in used'
      /\ content'[i] = {} /\ i \notin dirs' /\ step'[c] = 1
      /\ base'[c] \in used' \cup {None}
      /\ ClockMayStepBack \/ base'[c] = None \/ base'[c] < i
  BY <1>5, <1>6, <1>7 DEF TypeOK, MakeStaging, Goto
<1>9. RunInv(c)'
  BY <1>8 DEF RunInv, Chosen, Renamed
<1> QED BY <1>1, <1>2, <1>3, <1>4, <1>9 DEF StructInv

LEMMA WriteEntryStruct ==
  ASSUME TypeOK, StructInv, NEW c \in Collectors, WriteEntry(c)
  PROVE  TypeOK' /\ StructInv'
<1> USE DEF WriteEntry, WriteUpTo
<1>0. sid[c] \in used /\ sid[c] \in Ids /\ sid[c] \notin dirs /\ step[c] \in Entries
  BY DEF TypeOK, StructInv, RunInv, Chosen
<1>1. TypeOK'
  BY <1>0, NumFilesAssumption DEF TypeOK, Goto, Steps, Entries, Manifest
<1>2. LockHeld'
  BY DEF TypeOK, StructInv, LockHeld, Goto
<1>3. DiskInv'
  BY <1>0 DEF TypeOK, StructInv, DiskInv
<1>4. \A d \in Collectors \ {c} : RunInv(d)'
  BY <1>0, Alone
  DEF TypeOK, StructInv, RunInv, Goto, Complete, Chosen, Renamed
<1>5. RunInv(c)'
  BY <1>0, NumFilesAssumption
  DEF TypeOK, StructInv, RunInv, Goto, Complete, Chosen, Renamed, Entries, Manifest
<1> QED BY <1>1, <1>2, <1>3, <1>4, <1>5 DEF StructInv

LEMMA RenameStruct ==
  ASSUME TypeOK, StructInv, NEW c \in Collectors, Rename(c)
  PROVE  TypeOK' /\ StructInv'
<1> USE DEF Rename
<1>0. sid[c] \in used /\ sid[c] \in Ids /\ sid[c] \notin dirs
  BY DEF TypeOK, StructInv, RunInv, Chosen
<1>1. TypeOK'
  BY <1>0 DEF TypeOK, Goto, Steps
<1>2. LockHeld'
  BY <1>0 DEF StructInv, LockHeld, TypeOK, Goto
<1>3. DiskInv'
  BY <1>0 DEF TypeOK, StructInv, DiskInv
<1>4. \A d \in Collectors \ {c} : RunInv(d)'
  BY <1>0, Alone DEF TypeOK, StructInv, RunInv, Goto, Complete, Chosen, Renamed
<1>5. RunInv(c)'
  BY <1>0 DEF TypeOK, StructInv, RunInv, Goto, Complete, Chosen, Renamed
<1> QED BY <1>1, <1>2, <1>3, <1>4, <1>5 DEF StructInv

LEMMA WritePointerTmpStruct ==
  ASSUME TypeOK, StructInv, NEW c \in Collectors, WritePointerTmp(c)
  PROVE  TypeOK' /\ StructInv'
<1> USE DEF WritePointerTmp
<1>0. sid[c] \in used /\ sid[c] \in Ids
  BY DEF TypeOK, StructInv, RunInv, Chosen
<1>1. TypeOK'
  BY <1>0 DEF TypeOK, Goto, Steps
<1>2. LockHeld'
  BY <1>0 DEF StructInv, LockHeld, TypeOK, Goto
<1>3. DiskInv'
  BY <1>0 DEF TypeOK, StructInv, DiskInv
<1>4. \A d \in Collectors \ {c} : RunInv(d)'
  BY <1>0, Alone DEF TypeOK, StructInv, RunInv, Goto, Complete, Chosen, Renamed
<1>5. RunInv(c)'
  BY <1>0 DEF TypeOK, StructInv, RunInv, Goto, Complete, Chosen, Renamed
<1> QED BY <1>1, <1>2, <1>3, <1>4, <1>5 DEF StructInv

LEMMA ReplacePointerStruct ==
  ASSUME TypeOK, StructInv, NEW c \in Collectors, ReplacePointer(c)
  PROVE  TypeOK' /\ StructInv'
<1> USE DEF ReplacePointer
<1>0. sid[c] \in used /\ sid[c] \in Ids
  BY DEF TypeOK, StructInv, RunInv, Chosen
<1>1. TypeOK'
  BY <1>0 DEF TypeOK, Goto, Steps
<1>2. LockHeld'
  BY <1>0 DEF StructInv, LockHeld, TypeOK, Goto
<1>3. DiskInv'
  BY <1>0 DEF TypeOK, StructInv, DiskInv
<1>4. \A d \in Collectors \ {c} : RunInv(d)'
  BY <1>0, Alone DEF TypeOK, StructInv, RunInv, Goto, Complete, Chosen, Renamed
<1>5. RunInv(c)'
  BY <1>0 DEF TypeOK, StructInv, RunInv, Goto, Complete, Chosen, Renamed
<1> QED BY <1>1, <1>2, <1>3, <1>4, <1>5 DEF StructInv

LEMMA PruneEntryStruct ==
  ASSUME TypeOK, StructInv, NEW c \in Collectors, PruneEntry(c)
  PROVE  TypeOK' /\ StructInv'
<1> USE DEF PruneEntry, procs
<1>1. TypeOK'
  BY DEF TypeOK, Goto, Steps
<1>2. LockHeld'
  BY DEF StructInv, LockHeld, TypeOK, Goto
<1>3. DiskInv'
  BY DEF TypeOK, StructInv, DiskInv
<1>4. \A d \in Collectors \ {c} : RunInv(d)'
  BY Alone DEF TypeOK, StructInv, RunInv, Goto, Complete, Chosen, Renamed
<1>5. RunInv(c)'
  BY DEF TypeOK, StructInv, RunInv, Goto, Complete, Chosen, Renamed
<1> QED BY <1>1, <1>2, <1>3, <1>4, <1>5 DEF StructInv

LEMMA PruneDirectoryStruct ==
  ASSUME TypeOK, StructInv, NEW c \in Collectors, PruneDirectory(c)
  PROVE  TypeOK' /\ StructInv'
<1> USE DEF PruneDirectory
<1>1. TypeOK'
  BY DEF TypeOK, Goto, Steps
<1>2. LockHeld'
  BY DEF StructInv, LockHeld, TypeOK, Goto
<1>3. DiskInv'
  BY DEF TypeOK, StructInv, DiskInv
<1>4. \A d \in Collectors \ {c} : RunInv(d)'
  BY Alone DEF TypeOK, StructInv, RunInv, Goto, Complete, Chosen, Renamed
<1>5. RunInv(c)'
  BY DEF TypeOK, StructInv, RunInv, Goto, Complete, Chosen, Renamed
<1> QED BY <1>1, <1>2, <1>3, <1>4, <1>5 DEF StructInv

LEMMA ListForPruneStruct ==
  ASSUME TypeOK, StructInv, NEW c \in Collectors, ListForPrune(c)
  PROVE  TypeOK' /\ StructInv'
<1> USE DEF ListForPrune
<1>1. TypeOK'
  BY DEF TypeOK, disk, Goto, Steps
<1>2. LockHeld'
  BY DEF StructInv, LockHeld, TypeOK, Goto
<1>3. DiskInv'
  BY DEF StructInv, DiskInv, disk
<1>4. \A d \in Collectors \ {c} : RunInv(d)'
  BY Alone DEF TypeOK, StructInv, RunInv, Goto, disk, Complete, Chosen, Renamed
<1>5. RunInv(c)'
  BY DEF TypeOK, StructInv, RunInv, Goto, disk, Complete, Chosen, Renamed
<1> QED BY <1>1, <1>2, <1>3, <1>4, <1>5 DEF StructInv

LEMMA MoveOnStruct ==
  ASSUME TypeOK, StructInv, NEW c \in Collectors, Collect(c) \/ SyncPointer(c)
  PROVE  TypeOK' /\ StructInv'
<1> USE DEF Collect, SyncPointer, Goto, disk
<1>1. TypeOK'
  BY DEF TypeOK, Steps
<1>2. LockHeld'
  BY DEF TypeOK, StructInv, LockHeld
<1>3. DiskInv'
  BY DEF StructInv, DiskInv
<1>4. \A d \in Collectors : RunInv(d)'
  BY DEF TypeOK, StructInv, RunInv, Complete, Chosen, Renamed
<1> QED BY <1>1, <1>2, <1>3, <1>4 DEF StructInv

\* However a run ends, it gives up the lock, touches at most its own staging
\* directory and a temporary pointer, and forgets where it was.
LEMMA ReleaseStruct ==
  ASSUME TypeOK, StructInv, NEW c \in Collectors, pc[c] # "idle", Release(c),
         UNCHANGED <<pointer, dirs, used>>,
         tmps' \subseteq used, staging' \subseteq staging,
         content' \in [Ids -> SUBSET Entries],
         \A i \in Ids : i \notin staging \/ i \notin used => content'[i] = content[i]
  PROVE  TypeOK' /\ StructInv'
<1> USE DEF Release
<1>1. TypeOK'
  BY NumFilesAssumption DEF TypeOK, Steps, Entries, Manifest
<1>2. LockHeld'
  BY Alone, NoneAssumption DEF TypeOK, StructInv, LockHeld
<1>3. DiskInv'
  BY DEF TypeOK, StructInv, DiskInv
<1>4. \A d \in Collectors : RunInv(d)'
  BY Alone DEF TypeOK, StructInv, RunInv, Chosen, Renamed
<1> QED BY <1>1, <1>2, <1>3, <1>4 DEF StructInv

LEMMA FailInsideTryStruct ==
  ASSUME TypeOK, StructInv, NEW c \in Collectors, FailInsideTry(c)
  PROVE  TypeOK' /\ StructInv'
<1>1. sid[c] \in used /\ sid[c] \in Ids
  BY DEF TypeOK, StructInv, RunInv, FailInsideTry, Chosen
<1>2. /\ pc[c] # "idle" /\ Release(c) /\ UNCHANGED <<pointer, dirs, used>>
      /\ tmps' \subseteq used /\ staging' \subseteq staging
  BY <1>1 DEF TypeOK, FailInsideTry
<1>3. content' \in [Ids -> SUBSET Entries]
  BY <1>1 DEF TypeOK, FailInsideTry
<1>4. \A i \in Ids : i \notin staging \/ i \notin used => content'[i] = content[i]
  BY <1>1 DEF TypeOK, FailInsideTry
<1> QED BY <1>2, <1>3, <1>4, ReleaseStruct

LEMMA LeaveStruct ==
  ASSUME TypeOK, StructInv, NEW c \in Collectors,
         Finish(c) \/ FailOutsideTry(c) \/ Crash(c)
  PROVE  TypeOK' /\ StructInv'
<1>1. /\ pc[c] # "idle" /\ Release(c)
      /\ UNCHANGED <<pointer, tmps, dirs, staging, content, used>>
  BY DEF Finish, FailOutsideTry, Crash, disk
<1> QED BY <1>1, ReleaseStruct DEF TypeOK

LEMMA RollbackStruct ==
  ASSUME TypeOK, StructInv, NEW i \in Ids, Rollback(i)
  PROVE  TypeOK' /\ StructInv'
<1> USE DEF Rollback, procs
<1>1. TypeOK'
  BY DEF TypeOK
<1>2. LockHeld' /\ DiskInv'
  BY DEF TypeOK, StructInv, LockHeld, DiskInv, Complete
<1>3. \A d \in Collectors : RunInv(d)'
  BY DEF StructInv, RunInv, Complete
<1> QED BY <1>1, <1>2, <1>3 DEF StructInv

LEMMA StructStep ==
  ASSUME TypeOK, StructInv, [Next]_vars
  PROVE  TypeOK' /\ StructInv'
<1>1. CASE UNCHANGED vars
  BY <1>1 DEF vars, disk, procs, TypeOK, StructInv, LockHeld, DiskInv, RunInv, Complete
<1>2. ASSUME NEW c \in Collectors, CollectorStep(c)
      PROVE  TypeOK' /\ StructInv'
  BY <1>2, AcquireStruct, MakeStagingStruct, WriteEntryStruct, RenameStruct,
     WritePointerTmpStruct, ReplacePointerStruct, ListForPruneStruct,
     PruneEntryStruct, PruneDirectoryStruct, MoveOnStruct, LeaveStruct,
     FailInsideTryStruct
  DEF CollectorStep, Progress, Fail
<1>3. ASSUME NEW i \in Ids, Rollback(i)
      PROVE  TypeOK' /\ StructInv'
  BY <1>3, RollbackStruct
<1> QED BY <1>1, <1>2, <1>3 DEF Next

\* Every variable stays in its type, for any number of collectors and of data
\* files, and even if an operator moves the pointer at any time: a run never
\* writes past the manifest, and every directory on disk is one that some run
\* created under a fresh id.
THEOREM TypeCorrect == Spec => []TypeOK
<1>1. Init => TypeOK /\ StructInv
  BY InitInvariant DEF IInv
<1>2. TypeOK /\ StructInv /\ [Next]_vars => (TypeOK /\ StructInv)'
  BY StructStep
<1> QED BY <1>1, <1>2, PTL DEF Spec

-----------------------------------------------------------------------------
(* The pointer, as long as no operator moves it during a run.              *)

LEMMA ActiveStep ==
  ASSUME IInv, NEW c \in Collectors, CollectorStep(c)
  PROVE  ActiveIntact'
<1> USE DEF IInv, StructInv, ActiveIntact, Complete
<1>1. CASE \/ Acquire(c) \/ Collect(c) \/ MakeStaging(c) \/ WritePointerTmp(c)
           \/ SyncPointer(c) \/ ListForPrune(c) \/ Finish(c) \/ FailOutsideTry(c)
           \/ Crash(c)
  BY <1>1 DEF Acquire, Collect, MakeStaging, WritePointerTmp, SyncPointer,
     ListForPrune, Finish, FailOutsideTry, Crash, disk
<1>2. CASE WriteEntry(c)
  BY <1>2 DEF TypeOK, RunInv, WriteEntry, WriteUpTo
<1>3. CASE Rename(c)
  BY <1>3 DEF Rename
<1>4. CASE ReplacePointer(c)
  BY <1>4 DEF ReplacePointer, RunInv, Renamed
<1>5. CASE PruneEntry(c) \/ PruneDirectory(c)
  <2>1. pointer = sid[c] /\ sid[c] \notin victims[c]
    BY <1>5 DEF PruneEntry, PruneDirectory, PointerInv, RunInv, Swapped
  <2> QED BY <1>5, <2>1 DEF TypeOK, PruneEntry, PruneDirectory
<1>6. CASE FailInsideTry(c)
  BY <1>6 DEF TypeOK, DiskInv, FailInsideTry
<1> QED BY <1>1, <1>2, <1>3, <1>4, <1>5, <1>6 DEF CollectorStep, Progress, Fail

LEMMA PointerStep ==
  ASSUME IInv, NEW c \in Collectors, CollectorStep(c), NEW d \in Collectors
  PROVE  PointerInv(d)'
<1> USE DEF IInv, StructInv, TypeOK, PointerInv, Swapped
<1>1. CASE Acquire(c)
  BY <1>1 DEF Acquire, Goto, disk, LockHeld
<1>2. CASE \/ Collect(c) \/ MakeStaging(c) \/ WriteEntry(c) \/ Rename(c)
           \/ WritePointerTmp(c)
  BY <1>2 DEF Collect, MakeStaging, WriteEntry, WriteUpTo, Rename, WritePointerTmp,
     Goto, disk
<1>3. CASE ReplacePointer(c)
  BY <1>3, Alone DEF ReplacePointer, Goto
<1>4. CASE SyncPointer(c) \/ ListForPrune(c) \/ PruneEntry(c) \/ PruneDirectory(c)
  BY <1>4 DEF SyncPointer, ListForPrune, PruneEntry, PruneDirectory, Goto, disk, procs
<1>5. CASE Finish(c) \/ Fail(c)
  <2>1. pc[c] # "idle" /\ Release(c) /\ UNCHANGED pointer
    BY <1>5 DEF Finish, Fail, FailOutsideTry, FailInsideTry, Crash, disk
  <2> QED BY <2>1, Alone DEF Release
<1> QED BY <1>1, <1>2, <1>3, <1>4, <1>5 DEF CollectorStep, Progress

LEMMA IInvStep ==
  ASSUME Rollbacks # "anytime", IInv, [Next]_vars
  PROVE  IInv'
<1>1. TypeOK' /\ StructInv'
  BY StructStep DEF IInv
<1>2. CASE UNCHANGED vars
  <2>1. ActiveIntact' /\ \A d \in Collectors : PointerInv(d)'
    BY <1>2 DEF vars, disk, procs, IInv, ActiveIntact, Complete, PointerInv
  <2> QED BY <1>1, <2>1 DEF IInv
<1>3. ASSUME NEW c \in Collectors, CollectorStep(c)
      PROVE  IInv'
  BY <1>1, <1>3, ActiveStep, PointerStep DEF IInv
<1>4. ASSUME NEW i \in Ids, Rollback(i)
      PROVE  IInv'
  <2>1. lock = None /\ pointer' = i /\ Complete(i) /\ UNCHANGED <<dirs, content, pc>>
    BY <1>4 DEF Rollback, procs
  <2>2. \A d \in Collectors : pc[d] = "idle"
    BY <2>1, NoneAssumption DEF IInv, StructInv, LockHeld
  <2>3. ActiveIntact' /\ \A d \in Collectors : PointerInv(d)'
    BY <2>1, <2>2 DEF ActiveIntact, Complete, PointerInv, Swapped
  <2> QED BY <1>1, <2>3 DEF IInv
<1> QED BY <1>2, <1>3, <1>4 DEF Next

LEMMA Inductive ==
  ASSUME Rollbacks # "anytime"
  PROVE  Spec => []IInv
<1>1. IInv /\ [Next]_vars => IInv'
  BY IInvStep
<1> QED BY <1>1, InitInvariant, PTL DEF Spec

\* The snapshot in force is intact, whatever failed, was killed or was pruned
\* before, with any number of collectors, ids and files, and even if the clock
\* that names snapshots goes backwards, provided that no operator moves the
\* pointer while a collector holds the lock.
THEOREM ActiveSnapshotIntact ==
  ASSUME Rollbacks # "anytime"
  PROVE  Spec => []ActiveIntact
<1>1. IInv => ActiveIntact
  BY DEF IInv
<1> QED BY <1>1, Inductive, PTL

\* The lock makes a publication exclusive: between taking and giving up the
\* lock, the pointer changes once, from the value found to the run's own id.
THEOREM ExclusivePublication ==
  ASSUME Rollbacks # "anytime"
  PROVE  Spec => []PublicationExclusive
<1>1. IInv => PublicationExclusive
  BY DEF IInv, StructInv, RunInv, PointerInv, PublicationExclusive, Swapped, Chosen
<1> QED BY <1>1, Inductive, PTL

-----------------------------------------------------------------------------
(* The directory implements the register.                                  *)

intactIds == {i \in Ids : Complete(i)}
spentIds == used \ Writing

LEMMA WritingOf ==
  ASSUME StructInv, NEW c \in Collectors, pc[c] # "idle"
  PROVE  Writing = IF pc[c] \in {"write", "rename"} THEN {sid[c]} ELSE {}
  BY Alone DEF StructInv, Writing

\* The steps of a run that a reader of the pointer cannot see.
LEMMA HiddenSteps ==
  ASSUME IInv, NEW c \in Collectors,
         \/ Acquire(c) \/ Collect(c) \/ MakeStaging(c) \/ WriteEntry(c)
         \/ WritePointerTmp(c) \/ SyncPointer(c) \/ ListForPrune(c)
         \/ PruneDirectory(c) \/ Finish(c) \/ FailOutsideTry(c)
  PROVE  UNCHANGED <<pointer, intactIds, spentIds>>
<1> USE DEF IInv, StructInv, TypeOK
<1>1. UNCHANGED pointer
  BY DEF Acquire, Collect, MakeStaging, WriteEntry, WriteUpTo, WritePointerTmp,
     SyncPointer, ListForPrune, PruneDirectory, Finish, FailOutsideTry, disk
<1>2. UNCHANGED intactIds
  <2>1. CASE WriteEntry(c)
    BY <2>1 DEF intactIds, Complete, WriteEntry, WriteUpTo, RunInv
  <2>2. CASE PruneDirectory(c)
    <3>1. Entries # {}
      BY NumFilesAssumption DEF Entries, Manifest
    <3> QED BY <2>2, <3>1 DEF intactIds, Complete, PruneDirectory
  <2>3. CASE UNCHANGED <<dirs, content>>
    BY <2>3 DEF intactIds, Complete
  <2> QED
    BY <2>1, <2>2, <2>3 DEF Acquire, Collect, MakeStaging, WritePointerTmp,
       SyncPointer, ListForPrune, Finish, FailOutsideTry, disk
<1>3. UNCHANGED spentIds
  <2>1. CASE MakeStaging(c)
    <3>1. PICK i \in Ids : Fresh(i) /\ used' = used \cup {i} /\ sid' = [sid EXCEPT ![c] = i]
      BY <2>1 DEF MakeStaging
    <3>2. Writing = {}
      BY <2>1, WritingOf DEF MakeStaging
    <3>3. Writing' = {i}
      BY <2>1, <3>1, Alone DEF MakeStaging, Goto, Writing
    <3> QED BY <3>1, <3>2, <3>3 DEF spentIds, Fresh
  <2>2. CASE WriteEntry(c)
    <3>1. Writing' = Writing
      BY <2>2 DEF WriteEntry, WriteUpTo, Goto, Writing
    <3> QED BY <2>2, <3>1 DEF WriteEntry, WriteUpTo, spentIds
  <2>3. CASE /\ UNCHANGED <<used, sid>>
             /\ pc[c] \notin {"write", "rename"}
             /\ \E s \in Steps \ {"write", "rename"} : pc' = [pc EXCEPT ![c] = s]
    <3>1. Writing' = Writing
      BY <2>3 DEF Writing
    <3> QED BY <2>3, <3>1 DEF spentIds
  <2>4. CASE PruneDirectory(c)
    BY <2>4 DEF PruneDirectory, spentIds, Writing
  <2>5. CASE Finish(c) \/ FailOutsideTry(c)
    <3>1. UNCHANGED used /\ pc[c] \notin {"idle", "write", "rename"} /\ Release(c)
      BY <2>5 DEF Finish, FailOutsideTry, disk
    <3>2. Writing = {} /\ Writing' = {}
      BY <3>1, Alone, WritingOf DEF Release, Writing
    <3> QED BY <3>1, <3>2 DEF spentIds
  <2> QED
    BY <2>1, <2>2, <2>3, <2>4, <2>5 DEF Acquire, Collect, WritePointerTmp,
       SyncPointer, ListForPrune, Goto, disk, Steps
<1> QED BY <1>1, <1>2, <1>3

LEMMA RenameAppears ==
  ASSUME IInv, NEW c \in Collectors, Rename(c)
  PROVE  sid[c] \in Ids /\ Register!Appear(sid[c])
<1> USE DEF IInv, StructInv, TypeOK, Rename
<1>1. /\ sid[c] \in used /\ sid[c] \in Ids /\ content[sid[c]] = Entries
      /\ dirs' = dirs \cup {sid[c]} /\ UNCHANGED <<pointer, content, used>>
  BY DEF RunInv, Chosen
<1>2. Writing = {sid[c]} /\ Writing' = {}
  BY Alone, WritingOf DEF Goto, Writing
<1>3. intactIds' = intactIds \cup {sid[c]}
  BY <1>1 DEF intactIds, Complete
<1>4. spentIds' = spentIds \cup {sid[c]} /\ sid[c] \notin spentIds
  BY <1>1, <1>2 DEF spentIds
<1> QED BY <1>1, <1>3, <1>4 DEF Register!Appear, intactIds, spentIds

LEMMA ReplaceActivates ==
  ASSUME IInv, NEW c \in Collectors, ReplacePointer(c)
  PROVE  sid[c] \in Ids /\ Register!Activate(sid[c])
<1> USE DEF IInv, StructInv, TypeOK, ReplacePointer
<1>1. Complete(sid[c]) /\ sid[c] \in Ids
  BY DEF RunInv, Chosen, Renamed
<1>2. UNCHANGED <<intactIds, Writing, used>>
  BY DEF intactIds, Complete, Writing, Goto
<1> QED BY <1>1, <1>2 DEF Register!Activate, intactIds

\* Taking the first entry out of a complete directory discards the snapshot.
LEMMA PruneDiscards ==
  ASSUME IInv, NEW c \in Collectors, PruneEntry(c)
  PROVE  \/ \E i \in Ids : Register!Discard(i)
         \/ UNCHANGED <<pointer, intactIds, spentIds>>
<1> USE DEF IInv, StructInv, TypeOK, PruneEntry, procs
<1>1. PICK v \in victims[c] : \E e \in content[v] :
             content' = [content EXCEPT ![v] = @ \ {e}]
  OBVIOUS
<1>2. v \in Ids /\ v # pointer
  BY DEF PointerInv, RunInv, Swapped
<1>3. UNCHANGED <<pointer, dirs, used, Writing>>
  BY DEF Writing
<1>4. intactIds' = intactIds \ {v}
  BY <1>1, <1>2, <1>3 DEF intactIds, Complete
<1>5. CASE v \in intactIds
  BY <1>2, <1>3, <1>4, <1>5 DEF Register!Discard, intactIds
<1>6. CASE v \notin intactIds
  BY <1>3, <1>4, <1>6 DEF spentIds
<1> QED BY <1>5, <1>6

\* A run that fails or is killed while it writes gives up its id.
LEMMA FailureGivesUp ==
  ASSUME IInv, NEW c \in Collectors, FailInsideTry(c) \/ Crash(c)
  PROVE  \/ \E i \in Ids : Register!GiveUp(i)
         \/ UNCHANGED <<pointer, intactIds, spentIds>>
<1> USE DEF IInv, StructInv, TypeOK
<1>1. pc[c] # "idle" /\ Release(c) /\ UNCHANGED <<pointer, dirs, used>>
  BY DEF FailInsideTry, Crash, disk
<1>2. UNCHANGED intactIds
  BY <1>1 DEF FailInsideTry, Crash, disk, intactIds, Complete, DiskInv
<1>3. Writing' = {}
  BY <1>1, Alone DEF Release, Writing
<1>4. CASE pc[c] \in {"write", "rename"}
  <2>1. Writing = {sid[c]} /\ sid[c] \in used /\ sid[c] \in Ids
    BY <1>1, <1>4, WritingOf DEF RunInv, Chosen
  <2> QED BY <1>1, <1>2, <1>3, <2>1 DEF Register!GiveUp, intactIds
<1>5. CASE pc[c] \notin {"write", "rename"}
  <2>1. Writing = {}
    BY <1>1, <1>5, WritingOf
  <2> QED BY <1>1, <1>2, <1>3, <2>1 DEF spentIds
<1> QED BY <1>4, <1>5

LEMMA RollbackActivates ==
  ASSUME NEW i \in Ids, Rollback(i)
  PROVE  Register!Activate(i)
<1>1. UNCHANGED <<intactIds, Writing, used>>
  BY DEF Rollback, procs, intactIds, Complete, Writing
<1> QED BY <1>1 DEF Rollback, Register!Activate, intactIds

\* Seen through the pointer, the collectors, their failures and crashes, their
\* pruning and the operator's rollbacks only ever do what the register of
\* ActiveSnapshot does: a snapshot appears whole, is activated while it is
\* intact, and is taken apart only when it is not in force.
THEOREM ImplementsRegister ==
  ASSUME Rollbacks # "anytime"
  PROVE  Spec => ImplementsActiveSnapshot
<1>1. Init => Register!StoreInit
  <2>1. SUFFICES ASSUME Init PROVE Register!StoreInit
    OBVIOUS
  <2>2. intactIds = {} /\ spentIds = {} /\ pointer = None
    BY <2>1 DEF Init, intactIds, Complete, spentIds
  <2> QED BY <2>2 DEF Register!StoreInit, intactIds, spentIds
<1>2. IInv /\ [Next]_vars => [\E i \in Ids : Register!StoreStep(i)]_(Register!storeVars)
  <2> SUFFICES ASSUME IInv, [Next]_vars
               PROVE  \/ \E i \in Ids : Register!StoreStep(i)
                      \/ UNCHANGED <<pointer, intactIds, spentIds>>
    BY DEF Register!storeVars, intactIds, spentIds
  <2>1. CASE UNCHANGED vars
    BY <2>1 DEF vars, disk, procs, intactIds, spentIds, Complete, Writing
  <2>2. ASSUME NEW c \in Collectors, CollectorStep(c)
        PROVE  \/ \E i \in Ids : Register!StoreStep(i)
               \/ UNCHANGED <<pointer, intactIds, spentIds>>
    BY <2>2, HiddenSteps, RenameAppears, ReplaceActivates, PruneDiscards, FailureGivesUp
    DEF CollectorStep, Progress, Fail, Register!StoreStep
  <2>3. ASSUME NEW i \in Ids, Rollback(i)
        PROVE  Register!StoreStep(i)
    BY <2>3, RollbackActivates DEF Register!StoreStep
  <2> QED BY <2>1, <2>2, <2>3 DEF Next
<1> QED BY <1>1, <1>2, Inductive, PTL DEF Spec, ImplementsActiveSnapshot, Register!StoreSpec

-----------------------------------------------------------------------------
(* What retention keeps.  The clock may go back and the operator may move  *)
(* the pointer at any time: which directories survive depends on neither.  *)

Above(i, S) == {j \in S : j > i}

LEMMA LeastExists ==
  ASSUME NEW S, S \subseteq Nat, S # {}
  PROVE  \E m \in S : \A i \in S : m <= i
<1>1. \E m \in S : \A i \in S : ~ (<<i, m>> \in OpToRel(<, Nat))
  BY NatLessThanWellFounded, WFMin
<1>2. PICK m \in S : \A i \in S : ~ (i < m)
  BY <1>1 DEF OpToRel
<1>3. \A i \in S : m <= i
  BY <1>2
<1> QED BY <1>3

\* Of the elements above which there are fewest, there is one: the greatest.
LEMMA GreatestExists ==
  ASSUME NEW S, IsFiniteSet(S), S \subseteq Nat, S # {}
  PROVE  \E m \in S : \A i \in S : i <= m
<1> DEFINE Counts == {Cardinality(Above(i, S)) : i \in S}
<1>1. \A i \in S : IsFiniteSet(Above(i, S)) /\ Cardinality(Above(i, S)) \in Nat
  BY FS_Subset, FS_CardinalityType DEF Above
<1>2. PICK m \in S : \A n \in Counts : Cardinality(Above(m, S)) <= n
  BY <1>1, LeastExists
<1>3. ASSUME NEW i \in S, i > m
      PROVE  FALSE
  <2>1. Above(i, S) \subseteq Above(m, S) /\ i \in Above(m, S) \ Above(i, S)
    <3>1. i \in Nat /\ m \in Nat /\ \A j \in S : j \in Nat
      OBVIOUS
    <3>2. ~ (i > i) /\ \A j \in S : j > i => j > m
      BY <1>3, <3>1
    <3> QED BY <1>3, <3>2 DEF Above
  <2>2. Cardinality(Above(i, S)) < Cardinality(Above(m, S))
    BY <1>1, <2>1, FS_Subset
  <2>3. Cardinality(Above(m, S)) <= Cardinality(Above(i, S))
    BY <1>2
  <2> QED BY <1>1, <2>2, <2>3
<1> QED BY <1>3

\* If enough of D lies above each of V, it does without the others of V: above
\* the greatest of V there is none of V.
LEMMA AboveWithout ==
  ASSUME NEW D, IsFiniteSet(D), D \subseteq Nat, NEW V \in SUBSET D, NEW k \in Nat,
         \A v \in V : Cardinality(Above(v, D)) >= k,
         NEW v \in V
  PROVE  Cardinality(Above(v, D \ V)) >= k
<1>1. PICK m \in V : \A i \in V : i <= m
  BY GreatestExists, FS_Subset
<1>2. Above(m, D) \subseteq Above(v, D \ V)
  <2> SUFFICES ASSUME NEW j \in D, j > m PROVE j > v /\ j \notin V
    BY DEF Above
  <2> QED BY <1>1
<1>3. IsFiniteSet(Above(v, D \ V))
  BY FS_Subset DEF Above
<1>4. /\ Cardinality(Above(m, D)) <= Cardinality(Above(v, D \ V))
      /\ Cardinality(Above(m, D)) \in Nat /\ Cardinality(Above(v, D \ V)) \in Nat
  BY <1>2, <1>3, FS_Subset, FS_CardinalityType
<1> QED BY <1>4

\* A set in which nobody has k above is one of at most k.
LEMMA FewAboveIsFew ==
  ASSUME NEW D, IsFiniteSet(D), D \subseteq Nat, NEW k \in Nat \ {0},
         \A i \in D : Cardinality(Above(i, D)) < k
  PROVE  Cardinality(D) <= k
<1>1. CASE D = {}
  BY <1>1, FS_EmptySet
<1>2. CASE D # {}
  <2>1. PICK m \in D : \A i \in D : m <= i
    BY <1>2, LeastExists
  <2>2. Above(m, D) = D \ {m}
    <3>1. m \in Nat /\ \A i \in D : i \in Nat
      OBVIOUS
    <3>2. \A i \in D : i > m <=> i # m
      BY <2>1, <3>1
    <3> QED BY <3>2 DEF Above
  <2>3. Cardinality(D \ {m}) = Cardinality(D) - 1
    BY FS_RemoveElement
  <2>4. Cardinality(D) \in Nat /\ Cardinality(Above(m, D)) < k
    BY FS_CardinalityType
  <2> QED BY <2>2, <2>3, <2>4
<1> QED BY <1>1, <1>2

\* What survives the pruning of c.
Spared(c) == dirs \ victims[c]

\* Above each victim there are as many that survive as c keeps.
VictimInv(c) ==
  pc[c] = "prune" =>
    /\ victims[c] \subseteq dirs
    /\ \A v \in victims[c] : Cardinality(Above(v, Spared(c))) >= Keep[c]

\* Where a pruning was cut short, as many are above as some collector keeps.
TornInv ==
  \A i \in dirs :
    Complete(i) \/ \E c \in Collectors : Cardinality(Above(i, dirs)) >= Keep[c]

RetainInv ==
  /\ IsFiniteSet(dirs)
  /\ \A c \in Collectors : VictimInv(c)
  /\ TornInv

\* More directories, no fewer above.
LEMMA AboveGrows ==
  ASSUME NEW S, NEW T, IsFiniteSet(T), S \subseteq T, NEW i, NEW k \in Nat,
         Cardinality(Above(i, S)) >= k
  PROVE  Cardinality(Above(i, T)) >= k
<1>1. Above(i, S) \subseteq Above(i, T) /\ IsFiniteSet(Above(i, T))
  BY FS_Subset DEF Above
<1>2. /\ Cardinality(Above(i, S)) <= Cardinality(Above(i, T))
      /\ Cardinality(Above(i, S)) \in Nat /\ Cardinality(Above(i, T)) \in Nat
  BY <1>1, FS_Subset, FS_CardinalityType
<1> QED BY <1>2

\* A step that leaves the directories and their contents alone, and whose
\* collectors prune on as they did or do not prune.
LEMMA RestKeeps ==
  ASSUME RetainInv, UNCHANGED dirs, \A i \in dirs : content'[i] = content[i],
         \A d \in Collectors :
           pc'[d] = "prune" => pc[d] = "prune" /\ victims'[d] = victims[d]
  PROVE  RetainInv'
  BY DEF RetainInv, VictimInv, TornInv, Complete, Spared

LEMMA RetainStep ==
  ASSUME TypeOK, StructInv, RetainInv, [Next]_vars
  PROVE  RetainInv'
<1> USE DEF TypeOK
<1>0. dirs \subseteq Nat /\ \A c \in Collectors : Keep[c] \in Nat \ {0}
  BY IdsAssumption, KeepAssumption
<1>1. CASE UNCHANGED vars
  BY <1>1, RestKeeps DEF vars, disk, procs
<1>2. ASSUME NEW i \in Ids, Rollback(i)
      PROVE  RetainInv'
  BY <1>2, RestKeeps DEF Rollback, procs
<1>3. ASSUME NEW c \in Collectors,
             \/ Acquire(c) \/ Collect(c) \/ MakeStaging(c) \/ WritePointerTmp(c)
             \/ ReplacePointer(c) \/ SyncPointer(c)
      PROVE  RetainInv'
  BY <1>3, RestKeeps
  DEF Acquire, Collect, MakeStaging, WritePointerTmp, ReplacePointer, SyncPointer,
      Goto, disk
<1>4. ASSUME NEW c \in Collectors, WriteEntry(c)
      PROVE  RetainInv'
  <2>1. sid[c] \in Ids /\ sid[c] \notin dirs
    BY <1>4 DEF StructInv, RunInv, Chosen, WriteEntry, WriteUpTo
  <2> QED BY <1>4, <2>1, RestKeeps DEF WriteEntry, WriteUpTo, Goto
<1>5. ASSUME NEW c \in Collectors, Finish(c) \/ Fail(c)
      PROVE  RetainInv'
  <2>1. UNCHANGED dirs /\ Release(c)
    BY <1>5 DEF Finish, Fail, FailOutsideTry, FailInsideTry, Crash, disk
  <2>2. \A i \in dirs : content'[i] = content[i]
    BY <1>5 DEF StructInv, DiskInv, Finish, Fail, FailOutsideTry, FailInsideTry, Crash, disk
  <2> QED BY <2>1, <2>2, RestKeeps DEF Release
<1>6. ASSUME NEW c \in Collectors, Rename(c)
      PROVE  RetainInv'
  <2>1. sid[c] \in used /\ content[sid[c]] = Entries
    BY <1>6 DEF StructInv, RunInv, Chosen, Rename
  <2>2. dirs' = dirs \cup {sid[c]} /\ UNCHANGED content /\ IsFiniteSet(dirs')
    BY <1>6, FS_AddElement DEF Rename, RetainInv
  <2>3. \A d \in Collectors : pc'[d] # "prune"
    BY <1>6, Alone DEF StructInv, Rename, Goto
  <2>4. TornInv'
    BY <1>0, <2>1, <2>2, AboveGrows DEF RetainInv, TornInv, Complete
  <2> QED BY <2>2, <2>3, <2>4 DEF RetainInv, VictimInv
<1>7. ASSUME NEW c \in Collectors, ListForPrune(c)
      PROVE  RetainInv'
  <2> DEFINE V == dirs \ (Newest(dirs, Keep[c]) \cup {sid[c]})
  <2>1. /\ pc[c] = "list" /\ UNCHANGED <<dirs, content>>
        /\ victims' = [victims EXCEPT ![c] = V] /\ pc' = [pc EXCEPT ![c] = "prune"]
    BY <1>7 DEF ListForPrune, Goto, disk
  <2>2. \A v \in V : Cardinality(Above(v, dirs)) >= Keep[c]
    <3> SUFFICES ASSUME NEW v \in V PROVE Cardinality(Above(v, dirs)) >= Keep[c]
      OBVIOUS
    <3>1. ~ (Cardinality(Above(v, dirs)) < Keep[c])
      BY DEF Newest, Above
    <3>2. Cardinality(Above(v, dirs)) \in Nat
      BY FS_Subset, FS_CardinalityType DEF RetainInv, Above
    <3> QED BY <1>0, <3>1, <3>2
  <2>3. \A v \in V : Cardinality(Above(v, dirs \ V)) >= Keep[c]
    BY <1>0, <2>2, AboveWithout DEF RetainInv
  <2>4. VictimInv(c)'
    BY <2>1, <2>3 DEF VictimInv, Spared
  <2>5. \A d \in Collectors \ {c} : VictimInv(d)'
    BY <2>1, Alone DEF StructInv, VictimInv
  <2>6. TornInv'
    BY <2>1 DEF RetainInv, TornInv, Complete
  <2> QED BY <2>1, <2>4, <2>5, <2>6 DEF RetainInv
<1>8. ASSUME NEW c \in Collectors, PruneEntry(c)
      PROVE  RetainInv'
  <2>1. PICK v \in victims[c] : \E e \in content[v] :
               v \in dirs /\ content' = [content EXCEPT ![v] = @ \ {e}]
    BY <1>8 DEF PruneEntry
  <2>2. pc[c] = "prune" /\ UNCHANGED <<dirs, pc, victims>>
    BY <1>8 DEF PruneEntry, procs
  <2>3. Cardinality(Above(v, dirs)) >= Keep[c]
    BY <1>0, <2>1, <2>2, AboveGrows DEF RetainInv, VictimInv, Spared
  <2>4. TornInv'
    BY <2>1, <2>2, <2>3 DEF RetainInv, TornInv, Complete
  <2> QED BY <2>2, <2>4 DEF RetainInv, VictimInv, Spared
<1>9. ASSUME NEW c \in Collectors, PruneDirectory(c)
      PROVE  RetainInv'
  <2>1. PICK v \in victims[c] :
             v \in dirs /\ dirs' = dirs \ {v} /\ victims' = [victims EXCEPT ![c] = @ \ {v}]
    BY <1>9 DEF PruneDirectory
  <2>2. pc[c] = "prune" /\ UNCHANGED <<pc, content>> /\ IsFiniteSet(dirs')
    BY <1>9, <2>1, FS_Subset DEF PruneDirectory, RetainInv
  <2>3. Spared(c)' = Spared(c) /\ Spared(c) \subseteq dirs'
    BY <2>1 DEF Spared
  <2>4. \A d \in Collectors : VictimInv(d)'
    BY <2>1, <2>2, <2>3, Alone DEF StructInv, RetainInv, VictimInv
  <2>5. ASSUME NEW i \in dirs'
        PROVE  Complete(i)' \/ \E d \in Collectors : Cardinality(Above(i, dirs')) >= Keep[d]
    <3>1. CASE i < v
      <4>1. Above(v, Spared(c)) \subseteq Above(i, dirs')
        <5>1. i \in Nat /\ v \in Nat /\ \A j \in dirs' : j \in Nat
          BY <1>0, <2>1
        <5>2. \A j \in dirs' : j > v => j > i
          BY <3>1, <5>1
        <5> QED BY <2>3, <5>2 DEF Above
      <4>2. Cardinality(Above(v, Spared(c))) >= Keep[c]
        BY <2>1, <2>2 DEF RetainInv, VictimInv
      <4>3. IsFiniteSet(Above(i, dirs'))
        BY <2>2, FS_Subset DEF Above
      <4>4. /\ Cardinality(Above(v, Spared(c))) <= Cardinality(Above(i, dirs'))
            /\ Cardinality(Above(v, Spared(c))) \in Nat
            /\ Cardinality(Above(i, dirs')) \in Nat
        BY <4>1, <4>3, FS_Subset, FS_CardinalityType
      <4> QED BY <1>0, <4>2, <4>4
    <3>2. CASE ~ (i < v)
      <4>1. Above(i, dirs') = Above(i, dirs)
        BY <1>0, <2>1, <3>2 DEF Above
      <4> QED BY <2>1, <2>2, <4>1 DEF RetainInv, TornInv, Complete
    <3> QED BY <3>1, <3>2
  <2> QED BY <2>2, <2>4, <2>5 DEF RetainInv, TornInv
<1> QED
  BY <1>1, <1>2, <1>3, <1>4, <1>5, <1>6, <1>7, <1>8, <1>9
  DEF Next, CollectorStep, Progress

\* Whatever the collectors keep, whichever pruning was cut short, the newest
\* directories are whole, and the rollback to one of them finds a snapshot.
THEOREM NewestAreWhole == Spec => []RetainedIntact
<1>1. Init => TypeOK /\ StructInv /\ RetainInv
  BY InitInvariant, FS_EmptySet DEF Init, IInv, RetainInv, VictimInv, TornInv
<1>2. TypeOK /\ StructInv /\ RetainInv /\ [Next]_vars => (TypeOK /\ StructInv /\ RetainInv)'
  BY StructStep, RetainStep
<1>3. TypeOK /\ RetainInv => RetainedIntact
  <2> SUFFICES ASSUME TypeOK, RetainInv, NEW i \in dirs,
                      \A c \in Collectors : i \in Newest(dirs, Keep[c])
               PROVE  Complete(i)
    BY DEF RetainedIntact
  <2>1. \A c \in Collectors : Cardinality(Above(i, dirs)) < Keep[c] /\ Keep[c] \in Nat
    BY KeepAssumption DEF Newest, Above
  <2>2. Cardinality(Above(i, dirs)) \in Nat
    BY FS_Subset, FS_CardinalityType DEF RetainInv, Above
  <2> QED BY <2>1, <2>2 DEF RetainInv, TornInv
<1> QED BY <1>1, <1>2, <1>3, PTL DEF Spec

\* While time goes forward, the snapshot of a run is the newest there is, and
\* what its pruning spares has fewer above than it keeps.
OrderInv(c) ==
  /\ pc[c] \in Chosen => \A j \in used : j <= sid[c]
  /\ pc[c] = "prune" =>
       \A i \in Spared(c) : Cardinality(Above(i, Spared(c))) < Keep[c]

LEMMA OrderStep ==
  ASSUME ~ ClockMayStepBack, TypeOK, StructInv, RetainInv, [Next]_vars,
         \A c \in Collectors : OrderInv(c)
  PROVE  \A c \in Collectors : OrderInv(c)'
<1> USE DEF TypeOK
<1>0. used \subseteq Nat /\ \A c \in Collectors : Keep[c] \in Nat \ {0}
  BY IdsAssumption, KeepAssumption
<1>1. CASE UNCHANGED <<used, sid, dirs, pc, victims>>
  BY <1>1 DEF OrderInv, Spared
<1>2. ASSUME NEW c \in Collectors, MakeStaging(c)
      PROVE  \A d \in Collectors : OrderInv(d)'
  <2>1. PICK i \in Ids : Fresh(i) /\ used' = used \cup {i} /\ sid' = [sid EXCEPT ![c] = i]
    BY <1>2 DEF MakeStaging
  <2>2. \A j \in used' : j <= i
    BY <1>0, <2>1, IdsAssumption DEF Fresh
  <2>3. \A d \in Collectors \ {c} : pc'[d] = "idle"
    BY <1>2, Alone DEF StructInv, MakeStaging, Goto
  <2> QED BY <1>2, <2>1, <2>2, <2>3 DEF OrderInv, Chosen, MakeStaging, Goto
<1>3. ASSUME NEW c \in Collectors, NEW s \in Chosen \ {"prune"}, pc[c] \in Chosen \/ s = "idle",
             pc' = [pc EXCEPT ![c] = s], UNCHANGED <<used, sid>>
      PROVE  \A d \in Collectors : OrderInv(d)'
  <2>1. OrderInv(c)'
    BY <1>3 DEF OrderInv, Chosen
  <2>2. \A d \in Collectors \ {c} : OrderInv(d)'
    BY <1>3, Alone DEF StructInv, OrderInv, Chosen
  <2> QED BY <2>1, <2>2
<1>4. ASSUME NEW c \in Collectors, Acquire(c) \/ Collect(c) \/ Finish(c) \/ Fail(c)
      PROVE  \A d \in Collectors : OrderInv(d)'
  <2>1. \E s \in {"idle", "collect", "stage"} : pc' = [pc EXCEPT ![c] = s]
    BY <1>4 DEF Acquire, Collect, Finish, Fail, FailOutsideTry, FailInsideTry, Crash,
       Release, Goto
  <2>2. \A d \in Collectors \ {c} : pc[d] = "idle"
    BY <1>4, Alone, NoneAssumption DEF StructInv, LockHeld, Acquire, Collect, Finish, Fail,
       FailOutsideTry, FailInsideTry, Crash
  <2>3. \A d \in Collectors : pc'[d] \notin Chosen
    BY <2>1, <2>2 DEF Chosen
  <2> QED BY <2>3 DEF OrderInv, Chosen
<1>5. ASSUME NEW c \in Collectors, ListForPrune(c)
      PROVE  \A d \in Collectors : OrderInv(d)'
  <2> DEFINE V == dirs \ (Newest(dirs, Keep[c]) \cup {sid[c]})
  <2>1. /\ pc[c] = "list" /\ UNCHANGED <<dirs, used, sid>>
        /\ victims' = [victims EXCEPT ![c] = V] /\ pc' = [pc EXCEPT ![c] = "prune"]
    BY <1>5 DEF ListForPrune, Goto, disk
  <2>2. \A j \in dirs : j <= sid[c]
    BY <2>1 DEF OrderInv, Chosen
  <2>3. ASSUME NEW i \in dirs \ V
        PROVE  Cardinality(Above(i, dirs \ V)) < Keep[c]
    <3>1. CASE i \in Newest(dirs, Keep[c])
      <4>1. Cardinality(Above(i, dirs)) < Keep[c] /\ IsFiniteSet(Above(i, dirs))
        BY <3>1, FS_Subset DEF RetainInv, Newest, Above
      <4>2. Above(i, dirs \ V) \subseteq Above(i, dirs)
        BY DEF Above
      <4>3. /\ Cardinality(Above(i, dirs \ V)) <= Cardinality(Above(i, dirs))
            /\ Cardinality(Above(i, dirs \ V)) \in Nat
            /\ Cardinality(Above(i, dirs)) \in Nat
        BY <4>1, <4>2, FS_Subset, FS_CardinalityType
      <4> QED BY <1>0, <4>1, <4>3
    <3>2. CASE i = sid[c]
      <4>1. sid[c] \in Nat /\ \A j \in dirs : j \in Nat /\ ~ (j > sid[c])
        <5>1. \A j \in dirs : j \in Nat
          BY <1>0
        <5>2. sid[c] \in Nat
          BY <3>2, <5>1
        <5> QED BY <2>2, <5>1, <5>2
      <4>2. Above(i, dirs \ V) = {}
        BY <3>2, <4>1 DEF Above
      <4>3. Cardinality({}) = 0
        BY FS_EmptySet
      <4>4. 0 < Keep[c]
        BY <1>0
      <4> HIDE DEF V
      <4> QED BY <4>2, <4>3, <4>4
    <3> QED BY <3>1, <3>2
  <2>4. OrderInv(c)'
    BY <2>1, <2>3 DEF OrderInv, Spared, Chosen
  <2>5. \A d \in Collectors \ {c} : OrderInv(d)'
    BY <2>1, Alone DEF StructInv, OrderInv, Chosen
  <2> QED BY <2>4, <2>5
<1>6. ASSUME NEW c \in Collectors, PruneDirectory(c)
      PROVE  \A d \in Collectors : OrderInv(d)'
  <2>1. /\ Spared(c)' = Spared(c) /\ UNCHANGED <<used, sid, pc>>
        /\ pc[c] = "prune" /\ \A d \in Collectors \ {c} : victims'[d] = victims[d]
    BY <1>6 DEF PruneDirectory, Spared
  <2>2. \A d \in Collectors \ {c} : pc[d] = "idle"
    BY <2>1, Alone DEF StructInv
  <2> QED BY <2>1, <2>2 DEF OrderInv, Chosen
<1>7. ASSUME NEW c \in Collectors,
             \/ WriteEntry(c) \/ Rename(c) \/ WritePointerTmp(c) \/ ReplacePointer(c)
             \/ SyncPointer(c)
      PROVE  \A d \in Collectors : OrderInv(d)'
  <2>1. /\ UNCHANGED <<used, sid>> /\ pc[c] \in Chosen
        /\ pc' = pc \/ \E s \in Chosen \ {"prune"} : pc' = [pc EXCEPT ![c] = s]
    BY <1>7 DEF WriteEntry, WriteUpTo, Rename, WritePointerTmp, ReplacePointer,
       SyncPointer, Goto, Chosen, disk
  <2>2. pc[c] # "prune" /\ \A d \in Collectors \ {c} : pc[d] = "idle"
    BY <1>7, Alone DEF StructInv, WriteEntry, WriteUpTo, Rename, WritePointerTmp,
       ReplacePointer, SyncPointer
  <2> QED BY <1>3, <2>1, <2>2 DEF OrderInv, Chosen
<1>8. ASSUME NEW c \in Collectors, PruneEntry(c)
      PROVE  \A d \in Collectors : OrderInv(d)'
  BY <1>1, <1>8 DEF PruneEntry, procs
<1>9. ASSUME NEW i \in Ids, Rollback(i)
      PROVE  \A d \in Collectors : OrderInv(d)'
  BY <1>1, <1>9 DEF Rollback, procs
<1> QED
  BY <1>1, <1>2, <1>4, <1>5, <1>6, <1>7, <1>8, <1>9
  DEF Next, CollectorStep, Progress, vars, disk, procs

\* A run that ends well leaves no more than its keep_snapshots directories,
\* however many torn or forgotten ones it found, if the clock goes forward.
THEOREM RunsPruneToKeep ==
  ASSUME ~ ClockMayStepBack
  PROVE  Spec => PrunedToKeep
<1> DEFINE Inv == TypeOK /\ StructInv /\ RetainInv /\ \A c \in Collectors : OrderInv(c)
<1>1. Init => Inv
  BY InitInvariant, FS_EmptySet
  DEF Init, IInv, RetainInv, VictimInv, TornInv, OrderInv, Chosen
<1>2. Inv /\ [Next]_vars => Inv'
  BY StructStep, RetainStep, OrderStep
<1>3. ASSUME Inv, NEW c \in Collectors, Finish(c)
      PROVE  Cardinality(dirs) <= Keep[c]
  <2>1. \A i \in dirs : Cardinality(Above(i, dirs)) < Keep[c]
    BY <1>3 DEF Finish, OrderInv, Spared
  <2>2. dirs \subseteq Nat /\ IsFiniteSet(dirs) /\ Keep[c] \in Nat \ {0}
    BY <1>3, IdsAssumption, KeepAssumption DEF TypeOK, RetainInv
  <2> QED BY <2>1, <2>2, FewAboveIsFew
<1>4. Inv => [\A c \in Collectors : Finish(c) => Cardinality(dirs) <= Keep[c]]_vars
  BY <1>3
<1> QED BY <1>1, <1>2, <1>4, PTL DEF Spec, PrunedToKeep

-----------------------------------------------------------------------------
(* The retention script.  IInv does not survive it: it may take any finished *)
(* directory apart that it did not read as active.  What survives is the     *)
(* snapshot being written, if no publication takes longer than the greatest  *)
(* age of a staging directory: it is no older than its run, and not picked.  *)

DiskOk ==
  /\ IsFiniteSet(used)
  /\ dirs \cap staging = {}
  /\ \A i \in Ids \ used : content[i] = {}

\* What holds of a run of collector c, however long it takes.
WriteOk(c) ==
  /\ pc[c] \in {"idle", "collect", "stage"} => step[c] = 1
  /\ pc[c] \in Chosen => sid[c] \in used
  /\ pc[c] \in WritingSteps => sid[c] \notin dirs
  /\ pc[c] \in Renamed => sid[c] \notin staging
  /\ pc[c] = "prune" => sid[c] \notin victims[c]

ScriptOk ==
  /\ rVictims \in Seq(used)
  /\ rpc \in {"idle", "list"} => rVictims = <<>>
  /\ rpc = "rmtree" => rVictims # <<>>

WholeInv == TypeOK /\ LockHeld /\ DiskOk /\ ScriptOk /\ \A c \in Collectors : WriteOk(c)

-----------------------------------------------------------------------------
(* The list of what is to be removed.                                      *)

LEMMA KeepsSequence ==
  ASSUME NEW S, NEW T, S \subseteq T, NEW s \in Seq(S)
  PROVE  s \in Seq(T)
<1>1. Len(s) \in Nat /\ s \in [1 .. Len(s) -> T]
  OBVIOUS
<1> QED BY <1>1

LEMMA ShorterVictims ==
  ASSUME NEW S, NEW s \in Seq(S), s # <<>>
  PROVE  Tail(s) \in Seq(S) /\ \A n \in 1 .. Len(Tail(s)) : \E m \in 1 .. Len(s) : Tail(s)[n] = s[m]
<1>1. \A n \in 1 .. Len(Tail(s)) : n + 1 \in 1 .. Len(s) /\ Tail(s)[n] = s[n + 1]
  OBVIOUS
<1> QED BY <1>1

LEMMA ListVictims ==
  ASSUME TypeOK, DiskOk, List
  PROVE  /\ rVictims' \in Seq(used) /\ rpc' = "remove" /\ rActive' = rActive
         /\ \A n \in 1 .. Len(rVictims') : rVictims'[n] \in dirs /\ rVictims'[n] # rActive
<1> DEFINE expired == dirs \ (RecentlyModified \cup {rActive})
<1>1. IsFiniteSet(expired) /\ expired \subseteq used
  BY FS_Subset DEF TypeOK, DiskOk
<1>2. PICK order \in [1 .. Cardinality(expired) -> expired] : rVictims' = order
  BY DEF List, ListBut
<1>3. Cardinality(expired) \in Nat
  BY <1>1, FS_CardinalityType
<1>4. rActive' = rActive /\ rpc' = "remove" /\ rActive \notin expired /\ expired \subseteq dirs
  BY DEF List, ListBut, RGoto
<1> HIDE DEF expired
<1>5. \A n \in 1 .. Len(order) : order[n] \in expired
  <2>1. Len(order) = Cardinality(expired)
    BY <1>2, <1>3
  <2> QED BY <1>2, <2>1
<1>6. order \in [1 .. Cardinality(expired) -> used]
  BY <1>1, <1>2
<1>7. order \in Seq(used)
  BY <1>3, <1>6
<1> QED BY <1>2, <1>4, <1>5, <1>7

-----------------------------------------------------------------------------
(* The steps of the collectors and of the operator.                        *)

LEMMA MakeStagingWhole ==
  ASSUME WholeInv, NEW c \in Collectors, MakeStaging(c), UNCHANGED retention
  PROVE  WholeInv'
<1> USE DEF WholeInv
<1>1. PICK i \in Ids : Fresh(i) /\ used' = used \cup {i} /\ staging' = staging \cup {i}
                       /\ sid' = [sid EXCEPT ![c] = i]
  BY DEF MakeStaging
<1>2. i \notin used /\ i \notin dirs /\ content[i] = {} /\ step[c] = 1
  BY <1>1 DEF TypeOK, DiskOk, WriteOk, MakeStaging, Fresh
<1>3. TypeOK'
  BY <1>1 DEF TypeOK, MakeStaging, Goto, Steps
<1>4. LockHeld'
  BY DEF TypeOK, LockHeld, MakeStaging, Goto
<1>5. DiskOk'
  BY <1>1, <1>2, FS_AddElement DEF DiskOk, MakeStaging
<1>6. \A d \in Collectors \ {c} : WriteOk(d)'
  BY Alone DEF TypeOK, WriteOk, MakeStaging, Goto, Chosen, Renamed, WritingSteps
<1>7. pc'[c] = "write" /\ sid'[c] = i /\ step'[c] = 1 /\ dirs' = dirs
  BY <1>1, <1>2 DEF TypeOK, MakeStaging, Goto
<1>8. WriteOk(c)'
  BY <1>1, <1>2, <1>7 DEF WriteOk, Chosen, Renamed
<1>9. ScriptOk'
  BY <1>1, KeepsSequence DEF ScriptOk, retention
<1> QED BY <1>3, <1>4, <1>5, <1>6, <1>8, <1>9

LEMMA WriteEntryWhole ==
  ASSUME WholeInv, NEW c \in Collectors, WriteEntry(c), UNCHANGED retention
  PROVE  WholeInv'
<1> USE DEF WholeInv, WriteEntry, WriteUpTo
<1>1. sid[c] \in used /\ sid[c] \in Ids /\ sid[c] \notin dirs /\ step[c] \in Entries
  BY DEF TypeOK, DiskOk, WriteOk, Chosen, WritingSteps
<1>2. TypeOK'
  BY <1>1, NumFilesAssumption DEF TypeOK, Goto, Steps, Entries, Manifest
<1>3. LockHeld'
  BY DEF TypeOK, LockHeld, Goto
<1>4. DiskOk'
  BY <1>1 DEF TypeOK, DiskOk
<1>5. \A d \in Collectors \ {c} : WriteOk(d)'
  BY <1>1, Alone DEF TypeOK, WriteOk, Goto, Chosen, Renamed, WritingSteps
<1>6. WriteOk(c)'
  BY <1>1 DEF TypeOK, WriteOk, Goto, Chosen, Renamed, WritingSteps
<1>7. ScriptOk'
  BY DEF ScriptOk, retention
<1> QED BY <1>2, <1>3, <1>4, <1>5, <1>6, <1>7

LEMMA RenameWhole ==
  ASSUME WholeInv, NEW c \in Collectors, Rename(c), UNCHANGED retention
  PROVE  WholeInv'
<1> USE DEF WholeInv, Rename
<1>1. sid[c] \in used /\ sid[c] \in Ids
  BY DEF TypeOK, WriteOk, Chosen
<1>2. TypeOK'
  BY <1>1 DEF TypeOK, Goto, Steps
<1>3. LockHeld'
  BY DEF TypeOK, LockHeld, Goto
<1>4. DiskOk'
  BY DEF DiskOk
<1>5. \A d \in Collectors \ {c} : WriteOk(d)'
  BY Alone DEF TypeOK, WriteOk, Goto, Chosen, Renamed, WritingSteps
<1>6. WriteOk(c)'
  BY <1>1 DEF TypeOK, WriteOk, Goto, Chosen, Renamed, WritingSteps
<1>7. ScriptOk'
  BY DEF ScriptOk, retention
<1> QED BY <1>2, <1>3, <1>4, <1>5, <1>6, <1>7

\* The steps of a run that touch neither staging nor what is in a directory, and
\* lead to no writing.
LEMMA OnwardWhole ==
  ASSUME WholeInv, NEW c \in Collectors, UNCHANGED retention,
         \/ Acquire(c) \/ Collect(c) \/ WritePointerTmp(c) \/ ReplacePointer(c)
         \/ SyncPointer(c) \/ ListForPrune(c)
  PROVE  WholeInv'
<1> USE DEF WholeInv, Acquire, Collect, WritePointerTmp, ReplacePointer, SyncPointer,
            ListForPrune, Goto, disk
<1>1. pc[c] \in Chosen => sid[c] \in used /\ sid[c] \in Ids
  BY DEF TypeOK, WriteOk
<1>2. TypeOK'
  BY <1>1 DEF TypeOK, Steps, Chosen
<1>3. LockHeld'
  BY NoneAssumption DEF TypeOK, LockHeld
<1>4. DiskOk'
  BY DEF DiskOk
<1>5. \A d \in Collectors : WriteOk(d)'
  BY DEF TypeOK, WriteOk, Chosen, Renamed, WritingSteps
<1>6. ScriptOk'
  BY DEF ScriptOk, retention
<1> QED BY <1>2, <1>3, <1>4, <1>5, <1>6

LEMMA PruneWhole ==
  ASSUME WholeInv, NEW c \in Collectors, PruneEntry(c) \/ PruneDirectory(c),
         UNCHANGED retention
  PROVE  WholeInv'
<1> USE DEF WholeInv, PruneEntry, PruneDirectory, procs
<1>1. pc[c] = "prune"
  OBVIOUS
<1>2. TypeOK'
  BY DEF TypeOK
<1>3. LockHeld'
  BY DEF LockHeld
<1>4. DiskOk'
  BY DEF TypeOK, DiskOk
<1>5. \A d \in Collectors \ {c} : WriteOk(d)'
  BY <1>1, Alone DEF TypeOK, WriteOk, Chosen, Renamed, WritingSteps
<1>6. WriteOk(c)'
  BY <1>1 DEF TypeOK, WriteOk, Chosen, Renamed, WritingSteps
<1>7. ScriptOk'
  BY DEF ScriptOk, retention
<1> QED BY <1>2, <1>3, <1>4, <1>5, <1>6, <1>7

\* A run that ends gives up its staging directory or leaves it as it is.
LEMMA EndWhole ==
  ASSUME WholeInv, NEW c \in Collectors, Finish(c) \/ Fail(c), UNCHANGED retention
  PROVE  WholeInv'
<1> USE DEF WholeInv
<1>1. pc[c] # "idle" /\ Release(c) /\ UNCHANGED <<pointer, dirs, used>>
  BY DEF Finish, Fail, FailOutsideTry, FailInsideTry, Crash, disk
<1>2. FailInsideTry(c) => sid[c] \in used /\ sid[c] \in Ids
  BY DEF TypeOK, WriteOk, FailInsideTry, Chosen
<1>3. /\ tmps' \subseteq used /\ staging' \subseteq staging
      /\ content' \in [Ids -> SUBSET Entries]
      /\ \A i \in Ids \ used : content'[i] = content[i]
  BY <1>2 DEF TypeOK, Finish, Fail, FailOutsideTry, FailInsideTry, Crash, disk
<1>4. TypeOK'
  BY <1>1, <1>3, NumFilesAssumption DEF TypeOK, Release, Steps, Entries, Manifest
<1>5. LockHeld'
  BY <1>1, Alone, NoneAssumption DEF TypeOK, LockHeld, Release
<1>6. DiskOk'
  BY <1>1, <1>3 DEF DiskOk
<1>7. \A d \in Collectors : WriteOk(d)'
  BY <1>1, Alone DEF TypeOK, WriteOk, Release, Chosen, Renamed, WritingSteps
<1>8. ScriptOk'
  BY <1>1 DEF ScriptOk, retention
<1> QED BY <1>4, <1>5, <1>6, <1>7, <1>8

LEMMA RollbackWhole ==
  ASSUME WholeInv, NEW i \in Ids, Rollback(i), UNCHANGED retention
  PROVE  WholeInv'
  BY DEF WholeInv, TypeOK, LockHeld, DiskOk, ScriptOk, WriteOk, Rollback, procs, retention

-----------------------------------------------------------------------------
(* The steps of the script.                                                *)

LEMMA ScriptWhole ==
  ASSUME WholeInv, RetentionStep
  PROVE  WholeInv'
<1> USE DEF WholeInv
<1>1. CASE \/ ReadActive \/ List \/ StartRemove \/ PassOver \/ GlobStaging \/ PickStale
           \/ Leave
  <2>1. UNCHANGED vars
    BY <1>1 DEF ReadActive, List, ListBut, StartRemove, PassOver, GlobStaging, PickStale,
       PickOlderThan, Leave
  <2>2. TypeOK' /\ LockHeld' /\ DiskOk' /\ \A c \in Collectors : WriteOk(c)'
    BY <2>1 DEF vars, disk, procs, TypeOK, LockHeld, DiskOk, WriteOk
  <2>3. used' = used
    BY <2>1 DEF vars, disk
  <2>4. CASE List
    BY <2>2, <2>3, <2>4, ListVictims DEF ScriptOk
  <2>5. CASE StartRemove \/ GlobStaging
    BY <2>2, <2>3, <2>5 DEF StartRemove, GlobStaging, RGoto, ScriptOk
  <2>6. CASE PassOver
    BY <2>2, <2>3, <2>6, ShorterVictims DEF PassOver, ScriptOk
  <2>7. CASE PickStale
    <3>1. PICK i \in staging : rVictims' = <<i>>
      BY <2>7 DEF PickStale, PickOlderThan
    <3>2. i \in used
      BY DEF TypeOK
    <3>3. <<i>> \in Seq(used) /\ <<i>> # <<>>
      BY <3>2
    <3> QED BY <2>2, <2>3, <2>7, <3>1, <3>3 DEF PickStale, PickOlderThan, ScriptOk
  <2>8. CASE ReadActive \/ Leave
    <3>1. rVictims' = <<>> /\ <<>> \in Seq(used)
      BY <2>8 DEF ReadActive, Leave, ScriptOk
    <3> QED BY <2>2, <2>3, <2>8, <3>1 DEF ReadActive, Leave, ScriptOk, RGoto
  <2> QED BY <1>1, <2>2, <2>4, <2>5, <2>6, <2>7, <2>8
<1>2. CASE RemoveEntry \/ RemoveDirectory
  <2>1. /\ UNCHANGED <<pointer, tmps, used, procs>>
        /\ dirs' \subseteq dirs /\ staging' \subseteq staging
        /\ content' \in [Ids -> SUBSET Entries]
        /\ \A i \in Ids : content'[i] \subseteq content[i]
    BY <1>2 DEF TypeOK, RemoveEntry, RemoveDirectory
  <2>2. TypeOK' /\ LockHeld'
    BY <2>1 DEF TypeOK, LockHeld, procs
  <2>3. DiskOk'
    BY <2>1 DEF TypeOK, DiskOk
  <2>4. \A d \in Collectors : WriteOk(d)'
    BY <2>1 DEF WriteOk, procs
  <2>5. ScriptOk'
    <3>1. CASE RemoveEntry
      BY <3>1 DEF RemoveEntry, ScriptOk, retention
    <3>2. CASE RemoveDirectory
      BY <3>2, ShorterVictims DEF RemoveDirectory, RGoto, ScriptOk
    <3> QED BY <1>2, <3>1, <3>2
  <2> QED BY <2>2, <2>3, <2>4, <2>5
<1> QED BY <1>1, <1>2 DEF RetentionStep

LEMMA WholeStep ==
  ASSUME WholeInv, [RNext]_allVars
  PROVE  WholeInv'
<1>1. CASE UNCHANGED <<vars, retention>>
  BY <1>1 DEF vars, disk, procs, retention, WholeInv, TypeOK, LockHeld, DiskOk, ScriptOk,
     WriteOk
<1>2. CASE StoreNext
  BY <1>2, MakeStagingWhole, WriteEntryWhole, RenameWhole, OnwardWhole, PruneWhole,
     EndWhole, RollbackWhole
  DEF StoreNext, Next, CollectorStep, Progress
<1> QED BY <1>1, <1>2, ScriptWhole DEF RNext, Tick, allVars

LEMMA InitWhole == RInit => WholeInv
<1>1. Init => TypeOK /\ LockHeld
  BY InitInvariant DEF IInv, StructInv
<1>2. Init => DiskOk /\ \A c \in Collectors : WriteOk(c)
  BY FS_EmptySet DEF Init, DiskOk, WriteOk, Chosen, Renamed, WritingSteps
<1>3. RInit => ScriptOk
  BY DEF RInit, ScriptOk
<1> QED BY <1>1, <1>2, <1>3 DEF RInit, WholeInv

-----------------------------------------------------------------------------
(* The snapshot being written.                                             *)

InTime == PublishTime <= StagingMaxAge

\* What a run is writing is there, as far as it has come, no older than the run,
\* and nothing the script is about to remove.
LiveOk(c) ==
  pc[c] \in WritingSteps =>
    /\ sid[c] \in staging
    /\ pc[c] = "write" => content[sid[c]] = 1 .. step[c] - 1
    /\ pc[c] = "rename" => content[sid[c]] = Entries
    /\ age[sid[c]] <= elapsed[c] /\ elapsed[c] <= PublishTime
    /\ \A n \in 1 .. Len(rVictims) : rVictims[n] # sid[c]

ClocksOk ==
  /\ age \in [Ids -> Nat] /\ elapsed \in [Collectors -> Nat]
  /\ \A c \in Collectors : pc[c] \notin WritingSteps => elapsed[c] = 0

LiveInv == ClocksOk /\ \A c \in Collectors : LiveOk(c)

\* No step but a tick of the clock makes anything older.
LEMMA RenewedClocks ==
  ASSUME ClocksOk, RenewMtimes
  PROVE  /\ ClocksOk'
         /\ \A i \in Ids : age'[i] <= age[i]
         /\ \A c \in Collectors : pc'[c] \in WritingSteps => elapsed'[c] = elapsed[c]
<1> DEFINE kept == staging' \ Touched
<1>1. age' = [i \in Ids |-> IF i \in kept THEN age[i] ELSE 0]
  BY DEF RenewMtimes
<1>2. elapsed' = [c \in Collectors |-> IF pc'[c] \in WritingSteps THEN elapsed[c] ELSE 0]
  BY DEF RenewMtimes
<1> HIDE DEF kept
<1> QED BY <1>1, <1>2 DEF ClocksOk

\* A run begins to write: what it made is new.
LEMMA NewClocks ==
  ASSUME ClocksOk, RenewMtimes, NEW i \in Ids, i \in used' \ used
  PROVE  age'[i] = 0
  BY DEF RenewMtimes, Touched

\* Only the holder of the lock is writing, and what it wrote is where it was.
LEMMA CollectorLive ==
  ASSUME WholeInv, LiveInv, NEW c \in Collectors, CollectorStep(c), RenewMtimes,
         UNCHANGED retention
  PROVE  LiveInv'
<1> USE DEF WholeInv, LiveInv
<1>1. /\ ClocksOk'
      /\ \A i \in Ids : age'[i] <= age[i]
      /\ \A d \in Collectors : pc'[d] \in WritingSteps => elapsed'[d] = elapsed[d]
  BY RenewedClocks
<1>2. rVictims' = rVictims
  BY DEF retention
<1>3. \A d \in Collectors \ {c} : pc'[d] = "idle"
  <2>1. \A d \in Collectors \ {c} : pc[d] = "idle"
    <3>1. CASE Acquire(c)
      BY <3>1, NoneAssumption DEF Acquire, LockHeld
    <3>2. CASE pc[c] # "idle"
      BY <3>2, Alone
    <3> QED BY <3>1, <3>2
        DEF CollectorStep, Progress, Fail, Collect, MakeStaging, WriteEntry, WriteUpTo,
            Rename, WritePointerTmp, ReplacePointer, SyncPointer, ListForPrune,
            PruneEntry, PruneDirectory, Finish, FailOutsideTry, FailInsideTry, Crash
  <2> QED
    BY <2>1 DEF TypeOK, Goto, Release, procs,
            CollectorStep, Acquire, Progress, Fail, Collect, MakeStaging, WriteEntry,
            WriteUpTo, Rename, WritePointerTmp, ReplacePointer, SyncPointer, ListForPrune,
            PruneEntry, PruneDirectory, Finish, FailOutsideTry, FailInsideTry, Crash
<1>4. LiveOk(c)'
  <2>1. CASE MakeStaging(c)
    <3>1. PICK i \in Ids : Fresh(i) /\ used' = used \cup {i} /\ staging' = staging \cup {i}
                           /\ sid' = [sid EXCEPT ![c] = i]
      BY <2>1 DEF MakeStaging
    <3>2. i \notin used /\ content[i] = {} /\ step[c] = 1 /\ sid'[c] = i /\ pc'[c] = "write"
      BY <2>1, <3>1 DEF MakeStaging, Fresh, Goto, TypeOK, DiskOk, WriteOk
    <3>3. content'[i] = 1 .. step'[c] - 1
      BY <2>1, <3>2 DEF MakeStaging
    <3>4. age'[i] = 0
      BY <3>1, <3>2, NewClocks
    <3>5. elapsed'[c] = 0
      BY <1>1, <2>1, <3>2 DEF ClocksOk, MakeStaging, WritingSteps
    <3>6. \A n \in 1 .. Len(rVictims) : rVictims[n] # i
      BY <3>2 DEF ScriptOk
    <3> QED
      BY <1>2, <3>1, <3>2, <3>3, <3>4, <3>5, <3>6, StagingAssumption DEF LiveOk
  <2>2. CASE WriteEntry(c)
    <3>1. /\ pc[c] = "write" /\ sid[c] \in Ids /\ sid'[c] = sid[c] /\ sid[c] \in staging'
          /\ step[c] \in Entries /\ content[sid[c]] = 1 .. step[c] - 1
      BY <2>2 DEF WriteEntry, WriteUpTo, TypeOK, WriteOk, Chosen, LiveOk, WritingSteps
    <3>2. content'[sid[c]] = 1 .. step[c]
      BY <2>2, <3>1 DEF WriteEntry, WriteUpTo, TypeOK, Entries
    <3>3. /\ pc'[c] = "write" => step'[c] = step[c] + 1
          /\ pc'[c] = "rename" => step[c] = Manifest
      BY <2>2, <3>1 DEF WriteEntry, WriteUpTo, Goto, TypeOK
    <3>4. \/ pc'[c] = "write" /\ content'[sid[c]] = 1 .. step'[c] - 1
          \/ pc'[c] = "rename" /\ content'[sid[c]] = Entries
      BY <2>2, <3>1, <3>2, <3>3 DEF WriteEntry, WriteUpTo, Goto, TypeOK, Entries
    <3>5. age'[sid[c]] <= age[sid[c]] /\ elapsed'[c] = elapsed[c]
      BY <1>1, <3>1, <3>4 DEF WritingSteps
    <3>6. /\ age[sid[c]] <= elapsed[c] /\ elapsed[c] <= PublishTime
          /\ \A n \in 1 .. Len(rVictims) : rVictims[n] # sid[c]
      BY <3>1 DEF LiveOk, WritingSteps
    <3>7. age'[sid[c]] <= elapsed'[c] /\ elapsed'[c] <= PublishTime
      BY <1>1, <3>1, <3>5, <3>6 DEF ClocksOk
    <3> QED BY <1>2, <3>1, <3>4, <3>6, <3>7 DEF LiveOk
  <2>3. CASE Rename(c)
    BY <2>3 DEF Rename, Goto, TypeOK, LiveOk, WritingSteps
  <2>4. CASE Acquire(c) \/ Collect(c) \/ WritePointerTmp(c) \/ ReplacePointer(c)
             \/ SyncPointer(c) \/ ListForPrune(c)
    BY <2>4 DEF Acquire, Collect, WritePointerTmp, ReplacePointer, SyncPointer,
       ListForPrune, Goto, TypeOK, LiveOk, WritingSteps
  <2>5. CASE PruneEntry(c) \/ PruneDirectory(c)
    BY <2>5 DEF PruneEntry, PruneDirectory, procs, LiveOk, WritingSteps
  <2>6. CASE Finish(c) \/ Fail(c)
    <3>1. Release(c)
      BY <2>6 DEF Finish, Fail, FailOutsideTry, FailInsideTry, Crash
    <3> QED BY <3>1 DEF Release, TypeOK, LiveOk, WritingSteps
  <2> QED BY <2>1, <2>2, <2>3, <2>4, <2>5, <2>6 DEF CollectorStep, Progress
<1>5. \A d \in Collectors \ {c} : LiveOk(d)'
  BY <1>3 DEF LiveOk, WritingSteps
<1> QED BY <1>1, <1>4, <1>5

\* A run is over before what it writes is old.
LEMMA TickLive ==
  ASSUME WholeInv, LiveInv, Tick
  PROVE  LiveInv'
<1> USE DEF WholeInv, LiveInv
<1>1. UNCHANGED <<pc, sid, step, staging, content, rVictims>>
  BY DEF Tick, vars, disk, procs, retention
<1>2. \A i \in Ids : age'[i] \in Nat /\ age'[i] <= age[i] + 1
  BY DEF Tick, ClocksOk
<1>3. \A c \in Collectors : IF pc[c] \in WritingSteps
                            THEN elapsed'[c] = elapsed[c] + 1 /\ elapsed[c] < PublishTime
                            ELSE elapsed'[c] = 0
  BY DEF Tick
<1>4. ClocksOk'
  <2>1. age' \in [Ids -> Nat]
    BY <1>2 DEF Tick
  <2>2. elapsed' \in [Collectors -> Nat]
    BY <1>3 DEF Tick, ClocksOk
  <2> QED BY <1>1, <1>3, <2>1, <2>2 DEF ClocksOk
<1>5. ASSUME NEW c \in Collectors, pc[c] \in WritingSteps
      PROVE  LiveOk(c)'
  <2>1. sid[c] \in Ids
    BY <1>5 DEF TypeOK, WriteOk, WritingSteps, Chosen
  <2>2. age[sid[c]] <= elapsed[c] /\ elapsed[c] < PublishTime
    BY <1>3, <1>5 DEF LiveOk
  <2>3. age'[sid[c]] <= elapsed'[c] /\ elapsed'[c] <= PublishTime
    BY <1>2, <1>3, <1>5, <2>1, <2>2, StagingAssumption DEF ClocksOk
  <2> QED BY <1>1, <1>5, <2>3 DEF LiveOk
<1> QED BY <1>1, <1>4, <1>5 DEF LiveOk

\* The script picks nothing that a run in time is writing.
LEMMA ScriptLive ==
  ASSUME InTime, WholeInv, LiveInv, RetentionStep
  PROVE  LiveInv'
<1> USE DEF WholeInv, LiveInv
<1>1. UNCHANGED <<pc, sid, step>>
  BY DEF RetentionStep, ReadActive, List, ListBut, StartRemove, PassOver, RemoveEntry,
     RemoveDirectory, GlobStaging, PickStale, PickOlderThan, Leave, vars, procs
<1>2. \A c \in Collectors : pc[c] \in WritingSteps => sid[c] \in Ids /\ sid[c] \notin dirs
  BY DEF TypeOK, WriteOk, WritingSteps, Chosen
<1>3. CASE \/ ReadActive \/ List \/ StartRemove \/ PassOver \/ GlobStaging \/ PickStale
           \/ Leave
  <2>1. UNCHANGED <<vars, clocks>>
    BY <1>3 DEF ReadActive, List, ListBut, StartRemove, PassOver, GlobStaging, PickStale,
       PickOlderThan, Leave
  <2>2. ClocksOk'
    BY <2>1 DEF ClocksOk, vars, clocks, procs
  <2>3. ASSUME NEW c \in Collectors, pc[c] \in WritingSteps
        PROVE  \A n \in 1 .. Len(rVictims') : rVictims'[n] # sid[c]
    <3>1. CASE List
      BY <1>2, <2>3, <3>1, ListVictims
    <3>2. CASE StartRemove \/ GlobStaging
      BY <2>3, <3>2 DEF StartRemove, GlobStaging, LiveOk
    <3>3. CASE PassOver
      BY <2>3, <3>3, ShorterVictims DEF PassOver, LiveOk
    <3>4. CASE PickStale
      <4>1. PICK i \in staging : age[i] > StagingMaxAge /\ rVictims' = <<i>>
        BY <3>4 DEF PickStale, PickOlderThan
      <4>2. age[sid[c]] <= StagingMaxAge
        BY <1>2, <2>3, StagingAssumption DEF LiveOk, ClocksOk, InTime
      <4>3. i # sid[c]
        BY <1>2, <2>3, <4>1, <4>2, StagingAssumption DEF ClocksOk, TypeOK
      <4> QED BY <4>1, <4>3
    <3>5. CASE ReadActive \/ Leave
      <4>1. rVictims' = <<>>
        BY <3>5 DEF ReadActive, Leave, ScriptOk
      <4> QED BY <4>1
    <3> QED BY <1>3, <3>1, <3>2, <3>3, <3>4, <3>5
  <2> QED BY <2>1, <2>2, <2>3 DEF LiveOk, vars, disk, procs, clocks
<1>4. CASE RemoveEntry \/ RemoveDirectory
  <2>1. rpc = "rmtree" /\ rVictims # <<>> /\ rVictims \in Seq(Ids)
    BY <1>4 DEF RemoveEntry, RemoveDirectory, ScriptOk, TypeOK
  <2>2. Head(rVictims) = rVictims[1] /\ 1 \in 1 .. Len(rVictims) /\ Head(rVictims) \in Ids
    BY <2>1
  <2>3. /\ ClocksOk'
        /\ \A i \in Ids : age'[i] <= age[i]
        /\ \A d \in Collectors : pc'[d] \in WritingSteps => elapsed'[d] = elapsed[d]
    BY <1>4, RenewedClocks DEF RemoveEntry, RemoveDirectory
  <2>4. /\ \A i \in Ids : i # Head(rVictims) => content'[i] = content[i]
        /\ staging \ {Head(rVictims)} \subseteq staging'
    BY <1>4 DEF RemoveEntry, RemoveDirectory, TypeOK
  <2>5. rVictims' = rVictims \/ rVictims' = Tail(rVictims)
    BY <1>4 DEF RemoveEntry, RemoveDirectory, retention
  <2>6. ASSUME NEW c \in Collectors, pc[c] \in WritingSteps
        PROVE  LiveOk(c)'
    <3>1. sid[c] # Head(rVictims)
      BY <2>2, <2>6 DEF LiveOk
    <3>2. \A n \in 1 .. Len(rVictims') : rVictims'[n] # sid[c]
      BY <2>1, <2>5, <2>6, ShorterVictims DEF LiveOk
    <3>3. age'[sid[c]] <= elapsed'[c] /\ elapsed'[c] <= PublishTime
      BY <1>1, <1>2, <2>3, <2>6 DEF LiveOk, ClocksOk
    <3>4. content'[sid[c]] = content[sid[c]] /\ sid[c] \in staging'
      BY <1>2, <2>4, <2>6, <3>1 DEF LiveOk
    <3> QED BY <1>1, <2>6, <3>2, <3>3, <3>4 DEF LiveOk
  <2> QED BY <1>1, <2>3, <2>6 DEF LiveOk
<1> QED BY <1>3, <1>4 DEF RetentionStep

LEMMA LiveStep ==
  ASSUME InTime, WholeInv, LiveInv, [RNext]_allVars
  PROVE  LiveInv'
<1> USE DEF LiveInv
<1>1. CASE UNCHANGED allVars
  BY <1>1 DEF allVars, vars, disk, procs, retention, clocks, ClocksOk, LiveOk
<1>2. ASSUME NEW i \in Ids, Rollback(i), RenewMtimes, UNCHANGED retention
      PROVE  LiveInv'
  <2>1. UNCHANGED <<pc, sid, step, staging, content, rVictims>>
    BY <1>2 DEF Rollback, procs, retention
  <2>2. /\ ClocksOk'
        /\ \A j \in Ids : age'[j] <= age[j]
        /\ \A d \in Collectors : pc'[d] \in WritingSteps => elapsed'[d] = elapsed[d]
    BY <1>2, RenewedClocks
  <2>3. ASSUME NEW c \in Collectors, pc[c] \in WritingSteps
        PROVE  LiveOk(c)'
    <3>1. sid[c] \in Ids
      BY <2>3 DEF WholeInv, TypeOK, WriteOk, WritingSteps, Chosen
    <3>2. age'[sid[c]] <= elapsed'[c] /\ elapsed'[c] <= PublishTime
      BY <2>1, <2>2, <2>3, <3>1 DEF LiveOk, ClocksOk
    <3> QED BY <2>1, <2>3, <3>2 DEF LiveOk
  <2> QED BY <2>1, <2>2, <2>3 DEF LiveOk
<1>3. CASE StoreNext
  BY <1>2, <1>3, CollectorLive DEF StoreNext, Next
<1> QED BY <1>1, <1>3, TickLive, ScriptLive DEF RNext

\* What a run is about to rename holds every file and the manifest, whatever the
\* script deletes beside it, if a publication takes no longer than the greatest
\* age of a staging directory.
THEOREM PublicationsAreWhole ==
  ASSUME PublishTime <= StagingMaxAge
  PROVE  RSpec => []PublishesWholeSnapshot
<1>1. RInit => LiveInv
  BY DEF RInit, Init, LiveInv, ClocksOk, LiveOk, WritingSteps
<1>2. WholeInv /\ [RNext]_allVars => WholeInv'
  BY WholeStep
<1>3. WholeInv /\ LiveInv /\ [RNext]_allVars => LiveInv'
  BY LiveStep DEF InTime
<1>4. LiveInv => PublishesWholeSnapshot
  BY DEF LiveInv, LiveOk, WritingSteps, PublishesWholeSnapshot
<1> QED BY <1>1, <1>2, <1>3, <1>4, InitWhole, PTL DEF RSpec

-----------------------------------------------------------------------------
(* The snapshot the script read as active.                                 *)

\* A run that has swapped the pointer finds its own snapshot there.  The script
\* removes nothing it read as active: neither a directory nor, since what was ever
\* in force is no longer in staging, a staging directory.
SpareInv ==
  /\ \A c \in Collectors : pc[c] \in Swapped => pointer = sid[c]
  /\ \A c \in Collectors : pc[c] \in WritingSteps => sid[c] # pointer /\ sid[c] # rActive
  /\ pointer # None => pointer \in used \ staging
  /\ rActive # None => rActive \in used \ staging
  /\ \A n \in 1 .. Len(rVictims) : rVictims[n] # rActive

LEMMA SpareScript ==
  ASSUME WholeInv, SpareInv, RetentionStep
  PROVE  SpareInv'
<1> USE DEF WholeInv, SpareInv
<1>1. UNCHANGED <<pointer, pc, sid, used>> /\ staging' \subseteq staging
  BY DEF RetentionStep, ReadActive, List, ListBut, StartRemove, PassOver, RemoveEntry,
     RemoveDirectory, GlobStaging, PickStale, PickOlderThan, Leave, vars, disk, procs
<1>2. CASE ReadActive \/ Leave
  <2>1. rVictims' = <<>> /\ rActive' \in {pointer, None}
    BY <1>2 DEF ReadActive, Leave, ScriptOk
  <2>2. \A c \in Collectors : pc[c] \in WritingSteps => sid[c] # None
    BY NoneAssumption DEF TypeOK, WriteOk, WritingSteps, Chosen
  <2> QED BY <1>1, <2>1, <2>2
<1>3. CASE ~(ReadActive \/ Leave)
  <2>1. rActive' = rActive
    BY <1>3 DEF RetentionStep, List, ListBut, StartRemove, PassOver, RemoveEntry,
       RemoveDirectory, GlobStaging, PickStale, PickOlderThan, retention
  <2>2. \A n \in 1 .. Len(rVictims') : rVictims'[n] # rActive
    <3>1. CASE List
      BY <3>1, ListVictims
    <3>2. CASE PassOver \/ RemoveDirectory
      <4>1. rVictims # <<>> /\ rVictims' = Tail(rVictims)
        BY <3>2 DEF PassOver, RemoveDirectory, ScriptOk
      <4> QED BY <4>1, ShorterVictims DEF ScriptOk
    <3>3. CASE PickStale
      <4>1. PICK i \in staging : rVictims' = <<i>>
        BY <3>3 DEF PickStale, PickOlderThan
      <4>2. i # rActive
        BY <4>1, NoneAssumption DEF TypeOK
      <4> QED BY <4>1, <4>2
    <3>4. CASE StartRemove \/ RemoveEntry \/ GlobStaging
      BY <3>4 DEF StartRemove, RemoveEntry, GlobStaging, retention
    <3> QED BY <1>3, <3>1, <3>2, <3>3, <3>4 DEF RetentionStep
  <2> QED BY <1>1, <2>1, <2>2
<1> QED BY <1>2, <1>3

LEMMA SpareCollector ==
  ASSUME WholeInv, SpareInv, NEW c \in Collectors, CollectorStep(c), UNCHANGED retention
  PROVE  SpareInv'
<1> USE DEF WholeInv, SpareInv, Swapped, WritingSteps
<1>1. CASE ReplacePointer(c)
  <2>1. sid[c] \in used \ staging /\ pointer' = sid[c] /\ UNCHANGED <<sid, staging, used>>
    BY <1>1 DEF ReplacePointer, WriteOk, Chosen, Renamed
  <2>2. \A d \in Collectors : pc'[d] = IF d = c THEN "sync" ELSE "idle"
    BY <1>1, Alone DEF ReplacePointer, Goto, TypeOK
  <2> QED BY <2>1, <2>2 DEF retention
<1>2. CASE Finish(c) \/ Fail(c)
  <2>1. pc[c] # "idle" /\ Release(c) /\ UNCHANGED <<pointer, used>> /\ staging' \subseteq staging
    BY <1>2 DEF Finish, Fail, FailOutsideTry, FailInsideTry, Crash, disk
  <2>2. \A d \in Collectors : pc'[d] = "idle"
    BY <2>1, Alone DEF Release, TypeOK
  <2> QED BY <2>1, <2>2 DEF retention
<1>3. CASE MakeStaging(c)
  <2>1. PICK i \in Ids : Fresh(i) /\ used' = used \cup {i} /\ staging' = staging \cup {i}
                         /\ sid' = [sid EXCEPT ![c] = i]
    BY <1>3 DEF MakeStaging
  <2>2. i # pointer /\ i # rActive
    BY <2>1, NoneAssumption DEF Fresh
  <2>3. \A d \in Collectors : pc'[d] = IF d = c THEN "write" ELSE "idle"
    BY <1>3, Alone DEF MakeStaging, Goto, TypeOK
  <2>4. sid'[c] = i /\ UNCHANGED <<pointer, rActive, rVictims>>
    BY <1>3, <2>1 DEF MakeStaging, TypeOK, retention
  <2>5. /\ pointer # None => pointer \in used' \ staging'
        /\ rActive # None => rActive \in used' \ staging'
    BY <2>1, <2>2
  <2> QED BY <2>2, <2>3, <2>4, <2>5
<1>4. CASE WriteEntry(c)
  BY <1>4 DEF WriteEntry, WriteUpTo, Goto, TypeOK, retention
<1>5. CASE Rename(c)
  BY <1>5 DEF Rename, Goto, TypeOK, retention
<1>6. CASE Acquire(c) \/ Collect(c) \/ WritePointerTmp(c)
  BY <1>6 DEF Acquire, Collect, WritePointerTmp, Goto, TypeOK, disk, retention
<1>7. CASE SyncPointer(c) \/ ListForPrune(c) \/ PruneEntry(c) \/ PruneDirectory(c)
  BY <1>7 DEF SyncPointer, ListForPrune, PruneEntry, PruneDirectory, Goto,
     TypeOK, disk, procs, retention
<1> QED BY <1>1, <1>2, <1>3, <1>4, <1>5, <1>6, <1>7 DEF CollectorStep, Progress

LEMMA SpareStep ==
  ASSUME Rollbacks # "anytime", WholeInv, SpareInv, [RNext]_allVars
  PROVE  SpareInv'
<1> USE DEF WholeInv, SpareInv
<1>1. CASE UNCHANGED <<vars, retention>>
  BY <1>1 DEF vars, procs, disk, retention
<1>2. ASSUME NEW i \in Ids, Rollback(i), UNCHANGED retention
      PROVE  SpareInv'
  <2>1. \A c \in Collectors : pc[c] = "idle"
    BY <1>2, NoneAssumption DEF Rollback, LockHeld
  <2>2. i \in used \ staging
    BY <1>2 DEF Rollback, Complete, TypeOK, DiskOk
  <2> QED BY <1>2, <2>1, <2>2 DEF Rollback, procs, retention, Swapped, WritingSteps
<1>3. CASE StoreNext
  BY <1>2, <1>3, SpareCollector DEF StoreNext, Next
<1> QED BY <1>1, <1>3, SpareScript DEF RNext, Tick, allVars

LEMMA SpareAction ==
  ASSUME WholeInv, SpareInv, [RNext]_allVars,
         pointer # None, pointer = rActive, Complete(pointer), pointer' = pointer
  PROVE  Complete(pointer)'
<1> USE DEF WholeInv, SpareInv, Complete
<1>1. pointer \in Ids /\ pointer \in dirs /\ pointer \notin staging
  BY DEF TypeOK, DiskOk
<1>2. CASE UNCHANGED vars
  BY <1>2 DEF vars, disk
<1>3. ASSUME NEW c \in Collectors, CollectorStep(c)
      PROVE  Complete(pointer)'
  <2>1. CASE WriteEntry(c)
    BY <1>1, <2>1 DEF TypeOK, DiskOk, WriteOk, WritingSteps, WriteEntry, WriteUpTo
  <2>2. CASE Rename(c)
    BY <2>2 DEF Rename
  <2>3. CASE PruneEntry(c) \/ PruneDirectory(c)
    <3>1. pointer \notin victims[c]
      BY <2>3 DEF PruneEntry, PruneDirectory, WriteOk, Swapped
    <3> QED BY <1>1, <2>3, <3>1 DEF PruneEntry, PruneDirectory, TypeOK
  <2>4. CASE FailInsideTry(c)
    BY <1>1, <2>4 DEF FailInsideTry, TypeOK
  <2>5. CASE UNCHANGED <<dirs, content>>
    BY <2>5
  <2> QED
    BY <1>3, <2>1, <2>2, <2>3, <2>4, <2>5
    DEF CollectorStep, Progress, Fail, Acquire, Collect, MakeStaging, WritePointerTmp,
        ReplacePointer, SyncPointer, ListForPrune, Finish, FailOutsideTry, Crash, disk
<1>4. ASSUME NEW i \in Ids, Rollback(i)
      PROVE  Complete(pointer)'
  BY <1>4 DEF Rollback
<1>5. CASE RemoveEntry \/ RemoveDirectory
  <2>1. Head(rVictims) # pointer
    <3>1. rVictims # <<>> /\ rVictims \in Seq(used)
      BY <1>5 DEF RemoveEntry, RemoveDirectory, ScriptOk
    <3>2. Head(rVictims) = rVictims[1] /\ 1 \in 1 .. Len(rVictims)
      BY <3>1
    <3> QED BY <3>2
  <2> QED BY <1>1, <1>5, <2>1 DEF RemoveEntry, RemoveDirectory, TypeOK
<1>6. CASE RetentionStep /\ ~(RemoveEntry \/ RemoveDirectory)
  BY <1>2, <1>6 DEF RetentionStep, ReadActive, List, ListBut, StartRemove, PassOver,
     GlobStaging, PickStale, PickOlderThan, Leave
<1> QED BY <1>2, <1>3, <1>4, <1>5, <1>6 DEF RNext, StoreNext, Tick, Next, allVars

\* As long as the snapshot that the script read as active is in force, neither it
\* nor a collector takes anything out of it, provided that no operator moves the
\* pointer during a run.
THEOREM ScriptSparesActive ==
  ASSUME Rollbacks # "anytime"
  PROVE  RSpec => SparesWhatItRead
<1>1. RInit => SpareInv
  BY DEF RInit, Init, SpareInv, Swapped, WritingSteps
<1>2. WholeInv /\ SpareInv /\ [RNext]_allVars => WholeInv' /\ SpareInv'
  BY WholeStep, SpareStep
<1>3. WholeInv /\ SpareInv /\ [RNext]_allVars =>
        [rpc # "idle" /\ pointer # None /\ pointer = rActive /\ Complete(pointer) =>
           pointer' # pointer \/ Complete(pointer)']_allVars
  BY SpareAction
<1> QED BY <1>1, <1>2, <1>3, InitWhole, PTL DEF RSpec, SparesWhatItRead
=============================================================================
