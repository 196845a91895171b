---------------------------- MODULE SnapshotStore ----------------------------
(***************************************************************************)
(* The snapshot directory of one FortiGate device, and the collectors that *)
(* publish into it (collectors/fortigate_collector.py).  A collector is a  *)
(* web worker serving "Sync Now" (collectors/sync_service.py) or the       *)
(* stand-alone command; every one of them runs                             *)
(*     with collector_lock(dir): collect_dataset; publish_snapshot;        *)
(*                               prune_snapshots                           *)
(* against the same directory:                                             *)
(*     current.json              the pointer                               *)
(*     .current.json.*.tmp       a pointer being written                   *)
(*     snapshots/<id>/           a finished snapshot                       *)
(*     snapshots/.staging-<id>/  a snapshot being written                  *)
(* Any file operation may fail, and a collector may be killed between any  *)
(* two of them (Gunicorn kills a worker whose request outlives its         *)
(* timeout); the kernel then drops its flock and leaves the disk as it is. *)
(***************************************************************************)
EXTENDS Naturals, FiniteSets

CONSTANTS
  Collectors,          \* processes that may collect for this device
  Ids,                 \* snapshot ids; > is the order of their names
  NumFiles,            \* data files of a snapshot (REQUIRED_DATA_FILES)
  Keep,                \* Keep[c]: the keep_snapshots collector c runs with
  ClockMayStepBack,    \* may the clock that names snapshots go backwards?
  Rollbacks,           \* when the operator moves the pointer: see RollbackTimes
  None                 \* no collector, no snapshot

ASSUME IdsAssumption == Ids \subseteq Nat
ASSUME NumFilesAssumption == NumFiles \in Nat
ASSUME KeepAssumption == Keep \in [Collectors -> Nat \ {0}]
ASSUME NoneAssumption == None \notin Ids \cup Collectors
ASSUME ClockAssumption == ClockMayStepBack \in BOOLEAN

\* Never, only while no collector holds the lock, or at any time.
RollbackTimes == {"never", "unlocked", "anytime"}
ASSUME RollbacksAssumption == Rollbacks \in RollbackTimes

VARIABLES
  pointer,   \* the id current.json names, None when there is no current.json
  tmps,      \* ids for which a temporary pointer file exists
  dirs,      \* ids with a directory snapshots/<id>
  staging,   \* ids with a directory snapshots/.staging-<id>
  content,   \* content[i]: the entries in the directory of i, whole files only
  used,      \* ids ever generated
  lock,      \* the holder of .collector.lock
  pc,        \* where each collector is
  sid,       \* snapshot_id of the collector's run
  step,      \* the next entry the collector writes
  victims,   \* directories prune_snapshots has still to remove
  base       \* history: the pointer when the collector took the lock

disk == <<pointer, tmps, dirs, staging, content, used>>
procs == <<lock, pc, sid, step, victims, base>>
vars == <<disk, procs>>

\* The entries of a snapshot in the order they are written: the data files,
\* then manifest.json.
Manifest == NumFiles + 1
Entries == 1 .. Manifest

Steps == {"idle", "collect", "stage", "write", "rename", "tmp", "replace",
          "sync", "list", "prune"}
Swapped == {"sync", "list", "prune"}   \* steps after os.replace

Complete(i) == i \in dirs /\ content[i] = Entries

Init ==
  /\ pointer = None
  /\ tmps = {} /\ dirs = {} /\ staging = {} /\ used = {}
  /\ content = [i \in Ids |-> {}]
  /\ lock = None
  /\ pc = [c \in Collectors |-> "idle"]
  /\ sid = [c \in Collectors |-> None]
  /\ step = [c \in Collectors |-> 1]
  /\ victims = [c \in Collectors |-> {}]
  /\ base = [c \in Collectors |-> None]

\* Faulty: ids without the random suffix, unique among what is on disk only.
FreshAmongDirs(i) == i \notin dirs \cup staging

Fresh(i) == i \notin used /\ (ClockMayStepBack \/ \A j \in used : j < i)

Goto(c, s) == pc' = [pc EXCEPT ![c] = s]

\* Leaving the with-block, normally or by an exception, unlocks the file.
Release(c) ==
  /\ lock' = None
  /\ pc' = [pc EXCEPT ![c] = "idle"]
  /\ sid' = [sid EXCEPT ![c] = None]
  /\ step' = [step EXCEPT ![c] = 1]
  /\ victims' = [victims EXCEPT ![c] = {}]
  /\ base' = [base EXCEPT ![c] = None]

(***************************************************************************)
(* One run                                                                 *)
(***************************************************************************)

\* Faulty: a collector that does not care who holds the lock.
AcquireIgnoringLock(c) ==
  /\ pc[c] = "idle"
  /\ lock' = c
  /\ Goto(c, "collect")
  /\ base' = [base EXCEPT ![c] = pointer]
  /\ UNCHANGED <<disk, sid, step, victims>>

\* flock(LOCK_EX | LOCK_NB) succeeds.  A run that finds the lock taken raises
\* and changes nothing here.
Acquire(c) ==
  /\ pc[c] = "idle" /\ lock = None
  /\ lock' = c
  /\ Goto(c, "collect")
  /\ base' = [base EXCEPT ![c] = pointer]
  /\ UNCHANGED <<disk, sid, step, victims>>

\* collect_dataset returns: every resource is in memory.
Collect(c) ==
  /\ pc[c] = "collect"
  /\ Goto(c, "stage")
  /\ UNCHANGED <<disk, lock, sid, step, victims, base>>

\* When every id of a finite Ids is used up, a run can only fail here.
MakeStaging(c) ==
  /\ pc[c] = "stage"
  /\ \E i \in Ids :
       /\ Fresh(i)
       /\ used' = used \cup {i}
       /\ staging' = staging \cup {i}
       /\ sid' = [sid EXCEPT ![c] = i]
  /\ Goto(c, "write")
  /\ UNCHANGED <<pointer, tmps, dirs, content, lock, step, victims, base>>

\* _write_bytes_durable: creates the parent if it is gone, writes, fsyncs.
WriteUpTo(c, last) ==
  /\ pc[c] = "write"
  /\ staging' = staging \cup {sid[c]}
  /\ content' = [content EXCEPT ![sid[c]] = @ \cup {step[c]}]
  /\ IF step[c] = last
       THEN Goto(c, "rename") /\ UNCHANGED step
       ELSE step' = [step EXCEPT ![c] = @ + 1] /\ UNCHANGED pc
  /\ UNCHANGED <<pointer, tmps, dirs, used, lock, sid, victims, base>>

\* Faulty: the manifest is forgotten.
WriteNoManifest(c) == WriteUpTo(c, NumFiles)

WriteEntry(c) == WriteUpTo(c, Manifest)

Rename(c) ==
  /\ pc[c] = "rename" /\ sid[c] \in staging
  /\ staging' = staging \ {sid[c]}
  /\ dirs' = dirs \cup {sid[c]}
  /\ Goto(c, "tmp")
  /\ UNCHANGED <<pointer, tmps, content, used, lock, sid, step, victims, base>>

WritePointerTmp(c) ==
  /\ pc[c] = "tmp"
  /\ tmps' = tmps \cup {sid[c]}
  /\ Goto(c, "replace")
  /\ UNCHANGED <<pointer, dirs, staging, content, used, lock, sid, step, victims, base>>

ReplacePointer(c) ==
  /\ pc[c] = "replace"
  /\ pointer' = sid[c]
  /\ tmps' = tmps \ {sid[c]}
  /\ Goto(c, "sync")
  /\ UNCHANGED <<dirs, staging, content, used, lock, sid, step, victims, base>>

\* _fsync_directory(output_dir) and the return of publish_snapshot.
SyncPointer(c) ==
  /\ pc[c] = "sync"
  /\ Goto(c, "list")
  /\ UNCHANGED <<disk, lock, sid, step, victims, base>>

\* Faulty: one directory too many.
NewestAndOneMore(S, k) == {i \in S : Cardinality({j \in S : j > i}) <= k}

\* The k directories with the greatest names.
Newest(S, k) == {i \in S : Cardinality({j \in S : j > i}) < k}

\* Faulty: the listing sorted in ascending order.
ListAscending(c) ==
  /\ pc[c] = "list"
  /\ LET oldest == {i \in dirs : Cardinality({j \in dirs : j < i}) < Keep[c]}
     IN  victims' = [victims EXCEPT ![c] = dirs \ (oldest \cup {sid[c]})]
  /\ Goto(c, "prune")
  /\ UNCHANGED <<disk, lock, sid, step, base>>

ListForPrune(c) ==
  /\ pc[c] = "list"
  /\ victims' = [victims EXCEPT ![c] = dirs \ (Newest(dirs, Keep[c]) \cup {sid[c]})]
  /\ Goto(c, "prune")
  /\ UNCHANGED <<disk, lock, sid, step, base>>

\* shutil.rmtree of the first victim left, an entry at a time in an order the
\* file system chooses, the directory last.
IsNextVictim(c, v) == v \in victims[c] /\ \A w \in victims[c] : w <= v

PruneEntry(c) ==
  /\ pc[c] = "prune"
  /\ \E v \in victims[c] : \E e \in content[v] :
       /\ IsNextVictim(c, v) /\ v \in dirs
       /\ content' = [content EXCEPT ![v] = @ \ {e}]
  /\ UNCHANGED <<pointer, tmps, dirs, staging, used, procs>>

PruneDirectory(c) ==
  /\ pc[c] = "prune"
  /\ \E v \in victims[c] :
       /\ IsNextVictim(c, v) /\ v \in dirs /\ content[v] = {}
       /\ dirs' = dirs \ {v}
       /\ victims' = [victims EXCEPT ![c] = @ \ {v}]
  /\ UNCHANGED <<pointer, tmps, staging, content, used, lock, pc, sid, step, base>>

Finish(c) ==
  /\ pc[c] = "prune" /\ victims[c] = {}
  /\ Release(c)
  /\ UNCHANGED disk

(***************************************************************************)
(* Failure, crash, and the operator                                        *)
(***************************************************************************)

\* An exception outside publish_snapshot's try block: in the collection, in
\* staging_dir.mkdir, in the listing, or in an rmtree of the pruning.
FailOutsideTry(c) ==
  /\ pc[c] \in {"collect", "stage", "list", "prune"}
  /\ Release(c)
  /\ UNCHANGED disk

\* Faulty: the handler tries the publication again, as often as it takes.
FailAndRetry(c) ==
  /\ pc[c] \in {"write", "rename", "tmp", "replace", "sync"}
  /\ sid[c] \in staging
  /\ step' = [step EXCEPT ![c] = 1]
  /\ Goto(c, "write")
  /\ UNCHANGED <<disk, lock, sid, victims, base>>

\* An exception inside the try block: rmtree(staging_dir, ignore_errors=True)
\* and re-raise.  rmtree may itself be refused some entries.  A pointer write
\* that fails leaves its temporary file, and what was renamed stays.
FailInsideTry(c) ==
  /\ pc[c] \in {"write", "rename", "tmp", "replace", "sync"}
  /\ \/ /\ sid[c] \in staging
        /\ staging' = staging \ {sid[c]}
        /\ content' = [content EXCEPT ![sid[c]] = {}]
     \/ /\ sid[c] \in staging
        /\ \E left \in SUBSET content[sid[c]] :
             content' = [content EXCEPT ![sid[c]] = left]
        /\ UNCHANGED staging
     \/ sid[c] \notin staging /\ UNCHANGED <<staging, content>>
  /\ IF pc[c] = "tmp" THEN tmps' \in {tmps, tmps \cup {sid[c]}} ELSE UNCHANGED tmps
  /\ Release(c)
  /\ UNCHANGED <<pointer, dirs, used>>

Crash(c) ==
  /\ pc[c] # "idle"
  /\ Release(c)
  /\ UNCHANGED disk

\* The documented rollback: move current.json to a snapshot that is intact.
Rollback(i) ==
  /\ Complete(i) /\ i # pointer /\ pointer # None
  /\ Rollbacks = "anytime" \/ (Rollbacks = "unlocked" /\ lock = None)
  /\ pointer' = i
  /\ UNCHANGED <<tmps, dirs, staging, content, used, procs>>

Progress(c) ==
  \/ Collect(c) \/ MakeStaging(c) \/ WriteEntry(c) \/ Rename(c)
  \/ WritePointerTmp(c) \/ ReplacePointer(c) \/ SyncPointer(c)
  \/ ListForPrune(c) \/ PruneEntry(c) \/ PruneDirectory(c) \/ Finish(c)

Fail(c) == FailOutsideTry(c) \/ FailInsideTry(c) \/ Crash(c)

CollectorStep(c) == Acquire(c) \/ Progress(c) \/ Fail(c)

Next ==
  \/ \E c \in Collectors : CollectorStep(c)
  \/ \E i \in Ids : Rollback(i)

Spec == Init /\ [][Next]_vars

\* A collector that holds the lock keeps running: every call it makes returns
\* or raises (HTTP calls and retries are bounded by timeouts).
Fairness == \A c \in Collectors : WF_vars(Progress(c) \/ Fail(c))
FairSpec == Spec /\ Fairness

(***************************************************************************)
(* Properties                                                              *)
(***************************************************************************)

TypeOK ==
  /\ pointer \in Ids \cup {None}
  /\ tmps \subseteq used /\ dirs \subseteq used /\ staging \subseteq used
  /\ used \subseteq Ids
  /\ content \in [Ids -> SUBSET Entries]
  /\ lock \in Collectors \cup {None}
  /\ pc \in [Collectors -> Steps]
  /\ sid \in [Collectors -> Ids \cup {None}]
  /\ step \in [Collectors -> Entries]
  /\ victims \in [Collectors -> SUBSET Ids]
  /\ base \in [Collectors -> Ids \cup {None}]

\* The pointer names a directory that holds every data file and the manifest,
\* whatever failed, crashed or was pruned before (snapshot_store.py rejects
\* anything less, and the device is then without an evaluator).
ActiveIntact == pointer # None => Complete(pointer)

\* The lock makes publication exclusive: until a run swaps the pointer, the
\* pointer is the one it found when it took the lock; afterwards it is its
\* own, newer snapshot, until the lock is released.
PublicationExclusive ==
  \A c \in Collectors :
    /\ pc[c] \notin {"idle"} \cup Swapped => pointer = base[c]
    /\ pc[c] \in Swapped =>
         /\ pointer = sid[c]
         /\ ClockMayStepBack \/ base[c] = None \/ base[c] < sid[c]

\* The newest directories, those every collector's retention keeps, are
\* intact: a pruning that was cut short leaves no torn directory among the
\* snapshots an operator may roll back to.
RetainedIntact ==
  \A i \in dirs : (\A c \in Collectors : i \in Newest(dirs, Keep[c])) => Complete(i)

\* A run that succeeds leaves at most keep_snapshots directories, the orphans
\* of earlier failed runs and torn directories included.  (Needs a clock that does
\* not step back: the run spares its own snapshot, be it the oldest by name.)
PrunedToKeep ==
  [][\A c \in Collectors : Finish(c) => Cardinality(dirs) <= Keep[c]]_vars

\* A collector that takes the lock gives it back, on every path out of the
\* run: the next "Sync Now" is not refused for ever.
LockReleased == \A c \in Collectors : lock = c ~> lock # c

\* The directory implements the register of ActiveSnapshot: seen through its
\* pointer, its complete directories, and the ids that no run is still writing.
Writing == {sid[c] : c \in {d \in Collectors : pc[d] \in {"write", "rename"}}}

Register == INSTANCE ActiveSnapshot WITH
  active <- pointer,
  intact <- {i \in Ids : Complete(i)},
  spent  <- used \ Writing

ImplementsActiveSnapshot == Register!StoreSpec

=============================================================================
