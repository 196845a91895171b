------------------------------ MODULE DeviceSync ------------------------------
(***************************************************************************)
(* "Sync Now" for one device: device_sync in admin/routes.py around        *)
(* run_device_sync in collectors/sync_service.py.  A request loads the     *)
(* device row, collects and publishes under the lock of the snapshot       *)
(* directory, sets the last_sync_* attributes and commits; other requests  *)
(* edit or delete the row meanwhile, the command-line collector takes the  *)
(* same lock and knows nothing of the row, and the operator may roll       *)
(* current.json back.  The publication is one step here; SnapshotStore     *)
(* shows what it stands for.                                               *)
(*                                                                         *)
(* The commit writes the attributes whose value differs from the one the   *)
(* request loaded (SQLAlchemy's unit of work), not the whole row.          *)
(***************************************************************************)
EXTENDS Naturals

CONSTANTS
  Workers,    \* web worker processes
  Hosts,      \* values of Device.api_host
  MaxTime,    \* bound: moments at which something is published or decided
  Null

ASSUME SyncAssumption ==
  /\ MaxTime \in Nat /\ "cli" \notin Workers
  /\ Null \notin Workers \cup {"cli", "success", "failure"}

VARIABLES
  row,       \* the devices row, Null once it is deleted
  active,    \* the snapshot in force: its id and the host it was read from
  collectorLock,  \* the holder of .collector.lock
  cli,       \* is the command-line collector running?
  clock,     \* moments so far; they number snapshots and outcomes
  where,     \* where each worker is
  loaded,    \* the row as the worker's request loaded it
  outcome,   \* the last_sync_* attributes the worker has set
  decided,   \* history: decided[t], the outcome of moment t
  published, \* history: published[t], who published at moment t, and from which host
  overtaken, \* history: has another run been committed since the worker loaded the row?
  mixed,     \* history: had the run that was committed last been overtaken?
  moved      \* history: has the operator moved the pointer since the last publication?

histories == <<decided, published, overtaken, mixed, moved>>
syncVars == <<row, active, collectorLock, cli, clock, where, loaded, outcome, histories>>

Moments == 1 .. MaxTime
Statuses == {"success", "failure"}
Outcomes == [at: Moments, status: Statuses, snapshot: 0 .. MaxTime]

\* at and snapshot are 0, status Null, when they are NULL.
Devices == [host: Hosts, isActive: BOOLEAN, at: 0 .. MaxTime,
            status: Statuses \cup {Null}, snapshot: 0 .. MaxTime]
Snapshots == [id: Moments, host: Hosts]
Publications == [by: {"sync", "cli"}, host: Hosts]

ASSUME NullAssumption == Null \notin Devices \cup Outcomes \cup Snapshots \cup Publications

SyncInit ==
  /\ row \in [host: Hosts, isActive: {TRUE}, at: {0}, status: {Null}, snapshot: {0}]
  /\ active = Null /\ collectorLock = Null /\ cli = FALSE /\ clock = 0
  /\ where = [w \in Workers |-> "idle"]
  /\ loaded = [w \in Workers |-> Null]
  /\ outcome = [w \in Workers |-> Null]
  /\ decided = [t \in Moments |-> Null]
  /\ published = [t \in Moments |-> Null]
  /\ overtaken = [w \in Workers |-> FALSE] /\ mixed = FALSE /\ moved = FALSE

Enter(w, s) == where' = [where EXCEPT ![w] = s]

(***************************************************************************)
(* device_sync                                                             *)
(***************************************************************************)

\* Device.query.get_or_404.  A device that is not active, or gone, is refused.
Load(w) ==
  /\ where[w] = "idle" /\ row # Null /\ row.isActive
  /\ loaded' = [loaded EXCEPT ![w] = row]
  /\ overtaken' = [overtaken EXCEPT ![w] = FALSE]
  /\ Enter(w, "args")
  /\ UNCHANGED <<cli, row, active, collectorLock, clock, outcome, decided, published, mixed, moved>>

\* run_device_sync sets last_sync_at and last_sync_status, and on success
\* last_snapshot_id.
DecideAs(w, new, set) ==
  /\ clock < MaxTime
  /\ clock' = clock + 1
  /\ outcome' = [outcome EXCEPT ![w] = set]
  /\ decided' = [decided EXCEPT ![clock + 1] = new]
  /\ Enter(w, "commit")
  /\ UNCHANGED <<published, overtaken, mixed, moved>>

Now(status, snapshot) == [at |-> clock + 1, status |-> status, snapshot |-> snapshot]

\* Faulty: the status is set the first time only.
DecideStatusOnce(w, status, snapshot) ==
  DecideAs(w, Now(status, snapshot),
           Now(IF loaded[w].status = Null THEN status ELSE loaded[w].status, snapshot))

Decide(w, status, snapshot) ==
  DecideAs(w, Now(status, snapshot), Now(status, snapshot))

DecideFailure(w) == Decide(w, "failure", loaded[w].snapshot)

\* build_collector_args raises, or the lock is taken.
RefuseArgs(w) ==
  /\ where[w] = "args"
  /\ DecideFailure(w)
  /\ UNCHANGED <<cli, row, active, collectorLock, loaded>>

LockBusy(w) ==
  /\ where[w] = "args" /\ collectorLock # Null
  /\ DecideFailure(w)
  /\ UNCHANGED <<cli, row, active, collectorLock, loaded>>

\* Faulty: a collector that does not care who holds the lock.
AcquireAnyway(w) ==
  /\ where[w] = "args"
  /\ collectorLock' = w
  /\ Enter(w, "collect")
  /\ UNCHANGED <<cli, row, active, clock, loaded, outcome, histories>>

AcquireLock(w) ==
  /\ where[w] = "args" /\ collectorLock = Null
  /\ collectorLock' = w
  /\ Enter(w, "collect")
  /\ UNCHANGED <<cli, row, active, clock, loaded, outcome, histories>>

\* collect_dataset from the host that was loaded, publish_snapshot: the
\* pointer is swapped.
Publish(w) ==
  /\ where[w] = "collect" /\ clock < MaxTime
  /\ clock' = clock + 1
  /\ active' = [id |-> clock + 1, host |-> loaded[w].host]
  /\ published' = [published EXCEPT ![clock + 1] = [by |-> "sync", host |-> loaded[w].host]]
  /\ outcome' = [outcome EXCEPT ![w] = Now("success", clock + 1)]
  /\ moved' = FALSE
  /\ Enter(w, "published")
  /\ UNCHANGED <<cli, row, collectorLock, loaded, decided, overtaken, mixed>>

\* The collection or the publication fails before the swap; or the directory
\* is not flushed, or pruning fails, after it.
SyncFails(w) ==
  /\ where[w] \in {"collect", "published"}
  /\ collectorLock' = Null
  /\ DecideFailure(w)
  /\ UNCHANGED <<cli, row, active, loaded>>

\* Faulty: the id is generated a second time.
SucceedWithNewId(w) ==
  /\ where[w] = "published"
  /\ collectorLock' = Null
  /\ Decide(w, "success", clock + 1)
  /\ UNCHANGED <<cli, row, active, loaded>>

\* The run succeeds: the lock is released, then the outcome is set.
Succeed(w) ==
  /\ where[w] = "published"
  /\ collectorLock' = Null
  /\ Decide(w, "success", outcome[w].snapshot)
  /\ UNCHANGED <<cli, row, active, loaded>>

EndRequest(w) ==
  /\ Enter(w, "idle")
  /\ loaded' = [loaded EXCEPT ![w] = Null]
  /\ outcome' = [outcome EXCEPT ![w] = Null]

\* Faulty: the outcome replaces the row.
OutcomeOnly(w) == outcome[w]

\* The UPDATE: the attributes that differ from what was loaded.
Changed(old, new, current) == IF new = old THEN current ELSE new
Written(w) ==
  [row EXCEPT !.at       = Changed(loaded[w].at, outcome[w].at, @),
              !.status   = Changed(loaded[w].status, outcome[w].status, @),
              !.snapshot = Changed(loaded[w].snapshot, outcome[w].snapshot, @)]

Commit(w) ==
  /\ where[w] = "commit" /\ row # Null
  /\ row' = Written(w)
  /\ overtaken' = [v \in Workers |-> v # w]
  /\ mixed' = overtaken[w]
  /\ EndRequest(w)
  /\ UNCHANGED <<cli, active, collectorLock, clock, decided, published, moved>>

\* The row is gone (the UPDATE matches none), or the database fails: rollback.
CommitFails(w) ==
  /\ where[w] = "commit"
  /\ EndRequest(w)
  /\ UNCHANGED <<cli, row, active, collectorLock, clock, histories>>

\* Gunicorn kills the worker at its timeout; the kernel drops its lock.
Kill(w) ==
  /\ where[w] # "idle"
  /\ collectorLock' = IF collectorLock = w THEN Null ELSE collectorLock
  /\ EndRequest(w)
  /\ UNCHANGED <<cli, row, active, clock, histories>>

(***************************************************************************)
(* The others                                                              *)
(***************************************************************************)

\* A worker serves one request at a time.
SomeWorkerFree == \E w \in Workers : where[w] = "idle"

\* device_edit and device_delete.
Edit ==
  /\ row # Null /\ SomeWorkerFree
  /\ \E h \in Hosts, b \in BOOLEAN : row' = [row EXCEPT !.host = h, !.isActive = b]
  /\ UNCHANGED <<active, collectorLock, cli, clock, where, loaded, outcome, histories>>

Delete ==
  /\ row # Null /\ SomeWorkerFree
  /\ row' = Null
  /\ UNCHANGED <<active, collectorLock, cli, clock, where, loaded, outcome, histories>>

CliAcquire ==
  /\ ~ cli /\ collectorLock = Null
  /\ cli' = TRUE /\ collectorLock' = "cli"
  /\ UNCHANGED <<row, active, clock, where, loaded, outcome, histories>>

\* It publishes from a host of its own configuration, or not, and ends.
CliEnd ==
  /\ cli /\ cli' = FALSE
  /\ collectorLock' = IF collectorLock = "cli" THEN Null ELSE collectorLock
  /\ \/ /\ clock < MaxTime /\ clock' = clock + 1 /\ moved' = FALSE
        /\ \E h \in Hosts :
             /\ active' = [id |-> clock + 1, host |-> h]
             /\ published' = [published EXCEPT ![clock + 1] = [by |-> "cli", host |-> h]]
     \/ UNCHANGED <<clock, active, published, moved>>
  /\ UNCHANGED <<row, where, loaded, outcome, decided, overtaken, mixed>>

\* The documented rollback: current.json is moved to an earlier snapshot, without
\* the lock.  (To any that was published; SnapshotStore has the pruning.)
RollBack ==
  /\ active # Null
  /\ \E t \in Moments \ {active.id} :
       /\ published[t] # Null
       /\ active' = [id |-> t, host |-> published[t].host]
  /\ moved' = TRUE
  /\ UNCHANGED <<row, collectorLock, cli, clock, where, loaded, outcome>>
  /\ UNCHANGED <<decided, published, overtaken, mixed>>

Sync(w) ==
  \/ RefuseArgs(w) \/ LockBusy(w) \/ AcquireLock(w) \/ Publish(w) \/ SyncFails(w)
  \/ Succeed(w) \/ Commit(w) \/ CommitFails(w) \/ Kill(w)

SyncNext ==
  \/ \E w \in Workers : Load(w) \/ Sync(w)
  \/ Edit \/ Delete \/ CliAcquire \/ CliEnd \/ RollBack

SyncSpec == SyncInit /\ [][SyncNext]_syncVars

(***************************************************************************)
(* Properties                                                              *)
(***************************************************************************)

SyncTypeOK ==
  /\ row \in Devices \cup {Null}
  /\ active \in Snapshots \cup {Null}
  /\ collectorLock \in Workers \cup {"cli", Null} /\ cli \in BOOLEAN
  /\ clock \in 0 .. MaxTime
  /\ where \in [Workers -> {"idle", "args", "collect", "published", "commit"}]
  /\ loaded \in [Workers -> Devices \cup {Null}]
  /\ outcome \in [Workers -> Outcomes \cup {Null}]
  /\ decided \in [Moments -> Outcomes \cup {Null}]
  /\ published \in [Moments -> Publications \cup {Null}]
  /\ overtaken \in [Workers -> BOOLEAN] /\ mixed \in BOOLEAN /\ moved \in BOOLEAN

\* The last_sync_* fields of the row tell of one run, the one that ended at
\* last_sync_at: its status, and after a success its snapshot, whatever other runs,
\* edits, publications and rollbacks came between its load and its commit.  The
\* exception is a run that was overtaken by the commit of another: each writes only
\* what differs from the row it loaded, so that a failure which loaded a failure
\* leaves the success of the other beside its own time.
RowTellsOneRun ==
  row # Null /\ row.at # 0 /\ ~ mixed =>
    /\ row.status = decided[row.at].status
    /\ row.status = "success" => row.snapshot = decided[row.at].snapshot

\* Overtaken or not, the row only ever names a snapshot that a sync published and
\* then reported as its success: not one of the command line, not one of a run that
\* failed after the swap; and it may be newer than the one in force, after a
\* rollback.  A row that says success names one.
RecordedIsPublished ==
  row # Null =>
    /\ row.status = "success" => row.snapshot # 0
    /\ row.snapshot # 0 =>
         /\ published[row.snapshot] # Null /\ published[row.snapshot].by = "sync"
         /\ \E t \in Moments :
              /\ decided[t] # Null
              /\ decided[t].status = "success" /\ decided[t].snapshot = row.snapshot

\* From the swap to the end of its run, the snapshot in force is the one the run
\* published, read from the host it loaded, unless the operator has moved the pointer
\* since: neither another worker, nor the command line, nor an edit of the device
\* comes between.
Publisher == {w \in Workers : where[w] = "published"}
OwnSnapshotInForce ==
  \A w \in Publisher :
    /\ collectorLock = w
    /\ ~ moved => active.id = outcome[w].snapshot /\ active.host = loaded[w].host
=============================================================================
