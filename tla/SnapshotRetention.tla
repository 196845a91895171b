-------------------------- MODULE SnapshotRetention --------------------------
(***************************************************************************)
(* The collectors and the operator of SnapshotStore, joined by             *)
(* scripts/storage-retention.py --apply, a scheduled process that prunes   *)
(* the same directory and takes no lock.  It orders directories by their   *)
(* modification time, which every entry created in or removed from a       *)
(* directory renews.                                                       *)
(***************************************************************************)
EXTENDS SnapshotStore, SequencesExt

CONSTANTS
  RetentionKeep,   \* max(1, FORTIGATE_KEEP_SNAPSHOTS)
  StagingMaxAge,   \* FORTIGATE_STAGING_MAX_AGE_HOURS, in ticks of the clock
  PublishTime,     \* the longest a run takes from mkdir to rename, in ticks
  ReadsMayFail     \* whether reading current.json may raise an OSError
ASSUME RetentionKeepAssumption == RetentionKeep \in Nat \ {0}
ASSUME StagingAssumption == StagingMaxAge \in Nat /\ PublishTime \in Nat
ASSUME ReadsAssumption == ReadsMayFail \in BOOLEAN

VARIABLES
  byMtime,    \* the ids used, the directory modified last at the end
  age,        \* the time since a staging directory was modified, as far as it matters
  elapsed,    \* the time since a collector made the directory it is writing
  rpc,        \* where the script is
  rActive,    \* the active id it read
  rStaging,   \* whether it is past the snapshots and at the staging directories
  rVictims    \* the directories it has still to remove, in order

clocks == <<byMtime, age, elapsed>>
retention == <<rpc, rActive, rStaging, rVictims>>
allVars == <<vars, clocks, retention>>

RInit ==
  /\ Init
  /\ byMtime = <<>>
  /\ age = [i \in Ids |-> 0] /\ elapsed = [c \in Collectors |-> 0]
  /\ rpc = "idle" /\ rActive = None /\ rStaging = FALSE /\ rVictims = <<>>

WritingSteps == {"write", "rename"}

\* The modification times after a step: what the step touched comes last.
Touched == {i \in Ids : content'[i] # content[i]} \cup (used' \ used)
RenewMtimes ==
  /\ byMtime' = SelectSeq(byMtime, LAMBDA i : i \notin Touched) \o SetToSeq(Touched)
  /\ age' = [i \in Ids |-> IF i \in staging' \ Touched THEN age[i] ELSE 0]
  /\ elapsed' = [c \in Collectors |-> IF pc'[c] \in WritingSteps THEN elapsed[c] ELSE 0]

\* The collectors and the operator know nothing of the script.
StoreNext == Next /\ RenewMtimes /\ UNCHANGED retention

\* Time passes.  A run has everything in memory when it makes its directory, and
\* what is left, the writing of a few local files, takes at most PublishTime.
Tick ==
  /\ \A c \in Collectors : pc[c] \in WritingSteps => elapsed[c] < PublishTime
  /\ age' = [i \in Ids |-> IF i \notin staging THEN 0
                           ELSE IF age[i] > StagingMaxAge THEN age[i] ELSE age[i] + 1]
  /\ elapsed' = [c \in Collectors |-> IF pc[c] \in WritingSteps THEN elapsed[c] + 1 ELSE 0]
  /\ UNCHANGED <<vars, byMtime, retention>>

RGoto(s) == rpc' = s

\* _prune_one_snapshot_dir: the pointer is read once, before the listing.  An
\* OSError is caught: no id is active then, and the script goes on.
ReadActive ==
  /\ rpc = "idle" /\ used # {}
  /\ rActive' = pointer \/ (ReadsMayFail /\ rActive' = None)
  /\ RGoto("list")
  /\ UNCHANGED <<vars, clocks, rStaging, rVictims>>

\* The directories modified after that of i.
ModifiedAfter(i) ==
  {j \in dirs : \E m, n \in DOMAIN byMtime : m < n /\ byMtime[m] = i /\ byMtime[n] = j}

\* All but the protected directories, the one modified last first.
ListBut(protected) ==
  /\ rpc = "list"
  /\ LET expired == dirs \ protected
     IN  \E order \in [1 .. Cardinality(expired) -> expired] :
           /\ \A m, n \in DOMAIN order : m < n => order[m] \in ModifiedAfter(order[n])
           /\ rVictims' = order
  /\ RGoto("remove")
  /\ UNCHANGED <<vars, clocks, rActive, rStaging>>

RecentlyModified == {i \in dirs : Cardinality(ModifiedAfter(i)) < RetentionKeep}

\* Faulty: the snapshot in force is protected by its modification time alone.
ListByMtimeOnly == ListBut(RecentlyModified)

List == ListBut(RecentlyModified \cup {rActive})

\* Where the path of the victim leads: a staging directory that a run renamed
\* meanwhile is gone from it.
Place == IF rStaging THEN staging ELSE dirs

\* remove(): shutil.rmtree of a directory that is there ...
StartRemove ==
  /\ rpc = "remove" /\ rVictims # <<>> /\ Head(rVictims) \in Place
  /\ RGoto("rmtree")
  /\ UNCHANGED <<vars, clocks, rActive, rStaging, rVictims>>

\* ... and unlink(missing_ok=True) of one that has vanished: no error.
PassOver ==
  /\ rpc = "remove" /\ rVictims # <<>> /\ Head(rVictims) \notin Place
  /\ rVictims' = Tail(rVictims)
  /\ UNCHANGED <<vars, clocks, rpc, rActive, rStaging>>

\* rmtree goes on in the directory it opened, wherever that is renamed to.
RemoveEntry ==
  /\ rpc = "rmtree"
  /\ \E e \in content[Head(rVictims)] :
       content' = [content EXCEPT ![Head(rVictims)] = @ \ {e}]
  /\ UNCHANGED <<pointer, tmps, dirs, staging, used, procs, retention>>
  /\ RenewMtimes

RemoveDirectory ==
  /\ rpc = "rmtree" /\ Head(rVictims) \in Place /\ content[Head(rVictims)] = {}
  /\ dirs' = dirs \ {Head(rVictims)} /\ staging' = staging \ {Head(rVictims)}
  /\ rVictims' = Tail(rVictims)
  /\ RGoto("remove")
  /\ UNCHANGED <<pointer, tmps, content, used, procs, rActive, rStaging>>
  /\ RenewMtimes

\* The snapshots are done: the staging directories are next.
GlobStaging ==
  /\ rpc = "remove" /\ rVictims = <<>> /\ ~rStaging
  /\ rStaging' = TRUE
  /\ UNCHANGED <<vars, clocks, rpc, rActive, rVictims>>

PickOlderThan(limit) ==
  /\ rpc = "remove" /\ rVictims = <<>> /\ rStaging
  /\ \E i \in staging : age[i] > limit /\ rVictims' = <<i>>
  /\ UNCHANGED <<vars, clocks, rpc, rActive, rStaging>>

\* Faulty: >= in place of >.
PickFromMaxAge == PickOlderThan(StagingMaxAge - 1)

\* A staging directory is stale by its age alone: the script sees no process.
PickStale == PickOlderThan(StagingMaxAge)

\* The script ends, or dies of an OSError (a directory or an entry vanishes
\* under rmtree, or from under the stat of a listing), or is killed.
Leave ==
  /\ rpc # "idle"
  /\ RGoto("idle") /\ rActive' = None /\ rStaging' = FALSE /\ rVictims' = <<>>
  /\ UNCHANGED <<vars, clocks>>

RetentionStep ==
  \/ ReadActive \/ List \/ StartRemove \/ PassOver \/ RemoveEntry \/ RemoveDirectory
  \/ GlobStaging \/ PickStale \/ Leave

RNext == StoreNext \/ Tick \/ RetentionStep
RSpec == RInit /\ [][RNext]_allVars

(***************************************************************************)
(* Properties                                                              *)
(***************************************************************************)

\* From reading the pointer to its end the script takes nothing out of the
\* snapshot it read, as long as that is in force; and neither do the
\* collectors, whatever fails or is killed beside it.
SparesWhatItRead ==
  [][rpc # "idle" /\ pointer # None /\ pointer = rActive /\ Complete(pointer) =>
       pointer' # pointer \/ Complete(pointer)']_allVars

\* Although it knows staging directories by their age alone, the script never
\* reaches into a snapshot that is being written: what a run is about to rename
\* holds every entry.  Holds as long as no publication takes longer than
\* FORTIGATE_STAGING_MAX_AGE_HOURS, which a maximum age of 0 hours does not grant.
PublishesWholeSnapshot ==
  \A c \in Collectors : pc[c] = "rename" => sid[c] \in staging /\ content[sid[c]] = Entries

\* "Always protected": ActiveIntact of SnapshotStore, with the script at work.
ActiveAlwaysProtected == ActiveIntact
=============================================================================
