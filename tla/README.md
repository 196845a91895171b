# A verification of Hirkanet

Hirkanet is a Flask application that collects FortiGate configuration into
versioned snapshots and ranks firewall policies against access requests. This
directory holds TLA+ models of the parts of it where order, failure and
concurrency decide whether it is right, the TLC configurations that check them,
and proofs about eleven of them.

Check a model with `tlc -config <Name>.cfg MC<Module>`; check the proofs with
`tlapm <Name>Proofs.tla`: `StorageProofs` (`SnapshotStore`, `SnapshotRetention`),
`PortalProofs` (`PortalAccess`, `PolicyPages`, `DashboardLayout`), `PolicyProofs`
(`PolicyEvaluation`, `PolicyScores`), `BackupStoreProofs`, `EngineCacheProofs`,
`LoginRateLimitProofs`, `DeviceSyncProofs` (each the module it is named after), and
`OrderingProofs`, the lemmas about lists in order that others rest on.

## 1. The system

| Part | State | Operations | Meets |
|---|---|---|---|
| Snapshot publication (`collectors/fortigate_collector.py`) | a device's directory: `current.json`, `snapshots/<id>/`, `.staging-<id>/`, `.collector.lock` | lock, collect, stage, write, rename, swap, prune | device sync, command line, evaluator, retention, operator |
| Device sync (`collectors/sync_service.py`, `admin/routes.py`) | the row of a device, its `last_sync_*` columns | load, run, decide, commit; edit, delete | snapshot publication, Gunicorn |
| Storage retention (`scripts/storage-retention.py`) | none; deletes snapshots, staging, backups | read pointer, list, delete | publication, without its lock |
| Engine cache (`client/routes.py`, `engine/snapshot_store.py`) | one evaluator per device and worker | read pointer, compare, load, answer | publication, pruning |
| Evaluator (`engine/`, `validation/evaluation.py`) | a snapshot, read only | validate, expand, score, rank | engine cache |
| Login rate limiting (`auth/rate_limit.py`, `api/app.py`) | a row per user and per address | check, record, clear, clean up | PostgreSQL row locks, other workers |
| Accounts and access (`admin/routes.py`, `client/access.py`) | users, services, devices, subscriptions, assignments | create, edit, delete, replace; check | PostgreSQL, other workers |
| Risk assessor (`engine/risk_assessor.py`), DoS auditor (`engine/dos_policy_auditor.py`) | none | score a policy in four or five dimensions, weigh, round, band | evaluator's snapshot |
| Policy search and result pages (`services/`, `templates/client/`) | the page, filter and order in the browser | filter, sort, slice; ask, show | evaluator's snapshot, the firewall |
| Dashboard (`client/dashboard_widgets.py`, `client/routes.py`, `dashboard.html`) | a stored list of cards, and the cards in each tab | resolve, change, post, sanitize, commit | subscriptions |
| Backups (`scripts/postgres-*.sh`) | dumps with checksums and metadata, the production database | dump, checksum, test, mark, prune; drop and restore | retention, storage monitor |

Workers are processes; they share the database and the snapshot directories and
nothing else. Gunicorn's default is one synchronous worker with a 30 second
timeout (docs/architecture.md:410), and the documentation recommends to raise it
(docs/architecture.md:456) and promises limits that hold across workers, so the
models use two unless this page says otherwise.

What is hard: a crash or an error between two file operations; readers that take
no lock while a pointer moves and directories vanish; row locks and counters that
two workers update; requests that read, wait and write; counts and checks that are
old when used; scripts that any command may end; answers and posts that overtake
each other; address groups that contain each other; scores that are added up.
`PROJECT.json` lists each such place with the properties that watch it.

## 2. The modules

**ActiveSnapshot** is the abstract promise: a register that holds nothing or one
complete snapshot, set in one step by a publication or a rollback.

**SnapshotStore** is the store itself. Variables are the directory (`pointer`,
`tmps`, `dirs`, `staging`, `content`, `used`) and the collectors (`lock`, `pc`,
`sid`, `step`, `victims`, `base`); there is one action per file operation of
`collector_lock`, `collect_dataset`, `publish_snapshot` and `prune_snapshots`, one
for a failure inside the `try` and one outside it, and one for a killed process,
which loses its lock and leaves the disk. `Rollbacks` says when the operator moves
the pointer: never, while nobody holds the lock, or at any time.

**SnapshotRetention** adds the retention script, step by step, to `SnapshotStore`.
The script sees no process: it knows a staging directory by its `age`, which every
step that touches the directory renews and `Tick` raises, and compares it with
`StagingMaxAge`, a setting. That it spares what is being written is therefore a
matter of time: `Tick` holds a collector to at most `PublishTime` from `mkdir` to
`rename`, and the property needs `PublishTime <= StagingMaxAge`. A victim that has
vanished is passed over (`PassOver`); a `current.json` that cannot be read protects
nothing, and the script goes on (`ReadActive`, if `ReadsMayFail`).

**BackupStore** is a run of `postgres-backup.sh` with its restore test, the pruning
of backup sets by it and by the retention script, `backup_checks` of the storage
monitor, and the replacement of production by `postgres-restore.sh` in the order
docs/POSTGRES-BACKUP-RESTORE.md:82 gives. Each command is a step, and `Die` may
follow any. A dump is the revision of the data in it: 0 is a database without
tables, and from `NoBlog` on migration 0008 has dropped the blog's. `pg_restore`
creates the tables, then fills them, and not in one transaction: a restore that
stops between (`RestoreFails`) leaves `Torn(r)`, the tables of revision r without
all their rows. The operator starts over with some dump, while scheduled backups
dump what there is; the restore test counts tables, so a torn dump passes. Publication
numbers stand for modification times. A replacement is over before the backup it
took expires (`Midnight`), and the monitor's critical age is at most
`RETENTION_DAYS` (`BackupAssumption`; by default 48 hours and 14 days).

**EngineCache** is `ensure_engine` on every worker: the pointer is read, its
directory checked, the cached id compared, and a load reads the pointer again.
Publication and pruning run between any two of these.

**LoginRateLimit** is the login of each worker: check, wait for the user's row,
count, wait for the address's row, count, commit. Row locks are PostgreSQL's
(`SELECT ... FOR UPDATE`; SQLite, used for development, has none). Of two workers
that insert the same row the second is refused (`Lose`), and its failure is recorded
nowhere; `missed` counts these. The cleanup is one DELETE that takes its rows one
after the other, in any order, and waits for each that a login holds (`SweepLook`,
`SweepWaited`); a login may then wait for a row the cleanup has taken, until
PostgreSQL breaks the deadlock (`BreakDeadlock`). `MaxDelay` bounds how long a
request may run after it read the clock: Gunicorn kills it.

**DeviceSync** is `device_sync` with `run_device_sync` on each worker: the row is
loaded at the start and only changed columns are written at the end; meanwhile
another worker syncs, the device is edited or deleted, the command line collector
publishes, the operator rolls back (without the lock, as documented), the worker is
killed. `overtaken`, `mixed` and `moved` are history: whether another run was
committed since a worker loaded the row, whether the run committed last had been
overtaken so, and whether the operator moved the pointer since the last
publication. `last_sync_message` is left out.

**Ordering** has what Python's `sorted` and a filtered list are in the models that
sort or filter: `InOrder(P, R)` lists the members of a finite set in the order `R`
(the member with k - 1 others before it is the k-th), `At(list, places)` keeps the
entries at some places.

**PolicyEvaluation** is the evaluator. A snapshot is a map of addresses (ranges and
groups), of services, a table of routes and the policies in order. Addresses are
small integers: the low bits of IPv4 addresses. `RequestNetworks`,
`ServiceMatches`, `SelectInterface`, `SideScore`, `IsCandidate` and `Ranked` follow
the methods of `SecureTrackLite` they are named after, and `Evaluate` is
`evaluate`. `_expand_address_names` calls itself for the members of a group and
shares one set of names seen; `ExpandNames` does the same with one list of what all
levels have still to do, the innermost first, one name at a time (`ExpandOne`).
`Steps` bounds how many steps that takes, since no group is entered twice: the
length of the longest group for each group, and the names given. The walk is a
recursive function, so that it can be reasoned about.

**PolicyScores** is the risk of a firewall policy (`AddressScope`, `LoggingRisk`,
`ConfigRisk`, `Staleness`, `RiskScore`, `Remedies`) and the audit of a DoS policy
(`CoverageScore` to `ActionScore`, `AuditScore`). Its variable `subject` is the
policy, whose settings the firewall's administrator changes one at a time; the
scores are operators, so an action property compares the scores of two policies
that differ in one setting. A list of addresses is three numbers, how many names
are ANY, broad and neither, which is all the score sees of it. Weights are
hundredths and rounding is Python's; the one sum whose floating point value misses
its tie (0.35 * 90) is rounded down as the program does. Bands and findings of the
audit, which follow from its score, are left out.

**PolicyPages** is a client who searches and turns pages. `script` says whether the
browser runs the script of the policy catalogue, which the risk assessment shares,
or that of the DoS policies; requests and answers are sets, so any may be late, and
each request is answered from the policies as they are then (`Serve`) or fails.
Matching, the stable sort and the slice are operators. One filter, the status,
stands for all. `table` keeps the offset and the form of the search the rows in view
come from. `walk` is history: the rows shown by Next after Next; `single` too: the
last request was made with none on its way, and nothing was typed since.

**DashboardLayout** is the script of the dashboard in several tabs, the posts on
their way, and `dashboard_layout`, which reads the user and the services and
commits later; an assignment of the value that was read writes nothing. The server
may refuse a post or roll it back (`Refuse`); the browser may lose the connection
(`Lose`), load the page again and leave behind a post that is still handled, and
commits later. `calm` is history: when the page was loaded no request was at work,
and every change since followed the answer to the one before, in no other tab; none
was lost from sight, and no service was added. The browser's keys are distinct, so
the code's removal of duplicates has nothing to do.

**MCStorage** explores `SnapshotRetention`, `BackupStore` and `DeviceSync` in one
run, **MCPortal** `PortalAccess`, `PolicyPages` and `DashboardLayout`: modules that
share no state take turns, one moves and the others rest. In **MCStorage** backups
go through three kinds of behaviour: production is not replaced, and there are days
enough for both rules of age; it is replaced beside scheduled backups; it is replaced
beside the retention script. Syncs go through two: one firewall, or two in fewer
moments. What these leave out, such as a replacement beside the script and scheduled
backups at once, is covered by the theorems, which know no such bounds.

**MCPolicyEvaluation** explores `PolicyEvaluation` and `PolicyScores` in one run:
both are functions of a snapshot that share no state, so the scores are explored
beside one sample snapshot and not beside each.

**PortalAccess** is administration and the client's checks. `status` holds a user's
role or a thing's "on"/"off" while its row exists, `grants` both subscriptions
(user, service) and assignments (user, device): `user_subscriptions` and
`device_assignments` are the same steps over different rows. A request is its
first reads (`Open...`), its later reads (`CountAdmins`, `FindMissing`,
`CheckSubscription`) and its commit, which foreign keys and unique constraints may
refuse as a whole; each sees what is committed by then (READ COMMITTED). Rows the
application creates are active and have no end date. `touched` and `had` are
history, for the properties.

## 3. The runs

| Run | Bounds | What it shows |
|---|---|---|
| `SnapshotStore` | 2 collectors keeping 2 and 3, 4 ids, 1 data file and the manifest, rollbacks outside the lock | the active snapshot is whole after every failure; one publication at a time; the newest snapshots survive, and no more than `Keep` after an undisturbed run; the lock is freed; the directory implements `ActiveSnapshot` |
| `Storage` | 1 collector, 3 ids, 2 published, a publication and the age of staging of 1 tick; 1 backup run at a time, the retention script, 2 dumps, retention of 2 days and 1 dump, 2 revisions, whole or torn, days 0 to 3, or 0 to 2 with replacements of production; 2 workers, the command line, 1 host and 4 moments or 2 hosts and 3 | the script never takes a snapshot being written nor the one it read as active; no pruning takes a young dump or one of the newest; "passed" and a silent monitor mean a dump that restores; what a replacement dropped is in a dump; the row of a device tells of one run unless that was overtaken, and names only what a sync published and reported; the snapshot in force is of the run that holds the lock, but for rollbacks |
| `RetentionRollback` | the snapshots of `Storage` | **violated**: the active snapshot is not always protected |
| `BackupTest` | the backups of `Storage`, days 0 to 2 | **violated**: the restore test refuses a whole database |
| `EngineCache` | 2 workers, 3 publications, `Keep` 1, 1 restart | a request no publication interrupts is answered from the active snapshot; answers never go back; every request ends |
| `EngineStale` | the same | **violated**: an answer from a snapshot that was not active at any moment of the request |
| `LoginRateLimit` | 2 workers, 2 users, 1 address, limits 2 and 1, window and block 2 ticks, 3 ticks | no increment is overwritten, and fewer failures are missed than there are workers; the excess over a limit is bounded; a block in its window is not shortened; every request ends |
| `LoginBlock` | the same | **violated**: a block ends early |
| `PolicyEvaluation` | 3 policies, 6 addresses with two groups (cyclic, self-containing, with unknown members), 4 services, 3 route tables, 48 requests on each of 432 snapshots; 6 address lists, 3 tuned anomalies, 2 scopes | expansion is the closure; "already covered" is covered; a covering policy is offered; least privilege comes first; the order of routes is irrelevant; hardening never raises a risk; a risk has a remedy; protection never lowers an audit score; no protection scores worst |
| `EvaluationRanking` | the same | **violated**: a near miss outranks a covering policy |
| `Portal` | 2 workers, 2 users, 1 service, 1 device; 5 policies or 1, pages of 2, 2 requests at a time; 2 cards, 1 tab and 2 posts, but for 2 tabs, 3 cards or 3 posts | no grant outlives its ends; an undisturbed save is exact; nobody is served on a grant taken back before; the last administrator is lost only to a race; an undisturbed walk shows each policy once; Next follows the rows in view, of the same listing after a single search; after changes made one at a time a reload shows what the tab shows |
| `LastAdmin` | the users of `Portal` | **violated**: the last administrator is removed |

The bounds are the smallest in which the cases meet: two collectors that keep
different numbers have something to prune and something to disagree about with
four ids; a user's and an address's row with two users of one address give every
order of locks; two administrators are the least a race for the last one needs;
two groups give every kind of cycle; two dumps, of which one is kept by number,
are one that expires and one that does not; a retention of two days lets one pass
while production is replaced, and four days let the dump of the first expire by the
rule of the backup too, which is a day slower than the script's; two syncs that overlap on two workers can
overtake each other, and four moments hold their publications and outcomes; five policies on pages of two end in a
page that is not full, and without the disabled one in one that is; two posts can
overtake each other, a third is the change made after a reload while one is still
under way. With 2 workers of TLC `LoginRateLimit` (250,000 states, with
liveness) takes about three minutes, `Storage` (2 million) and `Portal` (1.2 million)
two, the others less. No run uses a state constraint; bounds are constants in guards (`Ids`,
`MaxTime`, `MaxRestarts`, `MaxDumps`, `MaxDay`, `OutageDay`, `MoveTime`, `MaxRev`, `MaxRequests`, `MaxPage`,
`MaxPosts`) or, for a dashboard, conjuncts of `MCPortalNext`. `Portal`, which has only
safety properties, is symmetric in its workers and cards. Deadlock is checked except
where the system may stop: `Portal` when all users are gone, `PolicyEvaluation`, where
one request stands for all because an evaluation changes nothing in the engine.

Disagreements found:

- **Retention** (docs/STORAGE-MONITORING.md:72): the pointer is read once, before
  listing and deleting, without the lock; a rollback in between loses the snapshot.
- **Engine reload** (docs/FORTIGATE-SNAPSHOTS.md:78): a pointer whose snapshot
  vanished before the check reads as "no snapshot", which keeps the cached engine.
- **Restore test** (docs/POSTGRES-BACKUP-RESTORE.md:58): it counts six tables, two
  of which migration 0008 drops. On an up-to-date database every backup fails its
  test; its metadata stay "pending", its run does not prune, and the documented
  replacement, whose third step is that test, cannot be followed. The model lets
  the operator restore a backup found good by hand.
- **Login block** (docs/LOGIN-RATE-LIMITING-CHANGES.md:31): a failure recorded late
  restarts the window and clears the block.
- **Ranking** (engine/evaluator.py:9): proximity scores up to 50, coverage 40.
- **Last administrator** (docs/architecture.md:351): counted before the write,
  without a lock. The model also shows a variant in which nothing is counted: the
  user was a client when loaded and has been promoted since.

One more is proved instead of run (`CrowdFavoursAll`, section 5). The penalty for
extra addresses is the length of the policy's list less the number of networks it
covers, capped above and not below (engine/evaluator.py:312), so an address that
covers many networks earns a point for each but the first, where
docs/architecture.md:224 says "Penalties apply for unmatched extra objects (capped
at 10 per side and 5 for services)". Of n networks a broad policy scores at most
41n - 16 for its sources and a narrow one at least 40n - 10: up to five the narrow
one comes first whatever it lists beside, which `LeastPrivilegeFirst` states; from 32
on, "all" alone scores more than the list of exactly the hosts asked for.

What the properties exclude is what the code does not give, and no document
promises it:

- `WalkShowsEachOnce`: on the page of DoS policies Next counts a page before its
  answer is there, and again when pressed twice or after a failure, so rows are
  skipped; a filter applied there on a later page is asked for at that page's offset
  and may show "no policies" although some match.
- `NextFollowsTable`: Next sends the filters as they are now. After the late answer
  of an older search, or a filter typed and not submitted, it asks for a page of
  another listing at the offset of the one in view; only the offset is then right.
- `CalmSaveIsShown`: of two changes of a dashboard the older post may be committed
  last; a post whose answer the browser lost may be committed after the page was
  loaded again, and replaces the layout shown.
- `RowTellsOneRun`: of two syncs that overlap each writes only what differs from the
  row it loaded, so a failure that loaded a failure leaves the other's success beside
  its own time.
- `MissesFewFailures`: when two workers insert the row of a user or an address at
  once, one failure is recorded nowhere.
- `PassedIsRestorable`: "passed" speaks of tables. A dump of a half restored database
  passes, and so does its restore.
- `PublishesWholeSnapshot`: with `FORTIGATE_STAGING_MAX_AGE_HOURS=0`, which the script
  accepts, it may empty a directory that is being written.

## 4. Fairness

`SnapshotStore` assumes that a collector that holds the lock goes on (weak
fairness of its steps, the failing ones included): its calls have timeouts and the
kernel frees the lock of a dead process. Nothing makes a collector start.
`EngineCache` assumes that a worker that handles a request goes on (weak fairness).
`LoginRateLimit` assumes strong fairness of each worker's steps: PostgreSQL hands a
row to those that wait for it in turn, so a worker that finds the row free again and
again gets it. That its holder lets it go is not assumed, it is what `RequestsEnd`
shows. The cleanup goes on in the same way (strong fairness of `Sweep`), and
PostgreSQL breaks a deadlock between it and a login (weak fairness of
`BreakDeadlock`; `deadlock_timeout`); without that a request might wait forever. No
fairness is assumed of publications, rollbacks, deletions, kills or the clock. The other modules have safety properties only.

## 5. What is proved

Every theorem holds for all values of the constants under the assumptions its
module names (`...Assumption`); where it needs more, the hypothesis is in its
statement and said here, with the reason. Each proof finds an invariant that every
action keeps, with one step per action, and reads the property off it. "None" and
"Null" being no id, worker or row is assumed throughout.

### SnapshotStore (StorageProofs)

- `TypeCorrect`: the type invariant;
- `ActiveSnapshotIntact`: `current.json` names a complete snapshot, always;
- `ExclusivePublication`: one collector at a time is past the lock;
- `ImplementsRegister`: every behaviour implements `ActiveSnapshot`;
- `NewestAreWhole`: the newest snapshots, as many as every collector keeps, are whole;
- `RunsPruneToKeep`: a run that ends well leaves at most the number it keeps.

`ActiveIntact` is not inductive: that `os.replace` installs a complete snapshot
depends on what was written before it, and that pruning spares it depends on who
moves the pointer meanwhile. The inductive invariant `IInv` adds `LockHeld` (only
the holder of the lock is away from "idle", so the step of one collector meets all
others idle), `DiskInv` (staging and finished directories are apart, an unused id
has no content), `RunInv(c)` (what the disk holds of the snapshot being published
at each step) and `PointerInv(c)` (the pointer is the one read under the lock until
the swap, and the new snapshot after it).

The first four but `TypeCorrect` assume `Rollbacks # "anytime"`: a rollback during
pruning, which docs/FORTIGATE-SNAPSHOTS.md:82 allows since it takes no lock, can
name a directory already chosen for deletion. `NewestAreWhole` needs neither that
nor a clock that goes forward. Its invariant `RetainInv` counts: above each victim
as many snapshots survive as the run keeps (`VictimInv`; for the greatest victim
because of how the list is cut, for the others because they are below it), so a
pruning cut short tears only what is that deep (`TornInv`), and later publications
only push it deeper. `RunsPruneToKeep` assumes `~ ClockMayStepBack`: a run never
deletes its own snapshot, which after a step back may be the oldest by name and is
then one too many. `OrderInv` says that it is the newest, and that what a pruning
spares is not deep.

### SnapshotRetention (StorageProofs)

- `PublicationsAreWhole`: the script never reaches into a snapshot being written;
- `ScriptSparesActive`: while the snapshot the script read as active is in force,
  nothing is taken out of it.

`PublicationsAreWhole` assumes `PublishTime <= StagingMaxAge`, and needs it. `IInv` of
the store does not survive a script that takes no lock: it may delete a directory
while a collector lists it. What survives is the part about the snapshot being
written (`WholeInv`). `LiveInv` keeps time: the directory a collector writes is no
older than the run (`age <= elapsed <= PublishTime`), so the age of what the script
picks (`PickStale`) is that of no such directory, and what it has in hand is none of
them. `SpareInv` adds that what the script has in hand is not what it read as active,
and that a run past the swap finds its own snapshot in the pointer; the latter needs
`Rollbacks # "anytime"`. A script that could read no pointer has read nothing as
active, and the property promises nothing of it.

### BackupStore

- `TypeCorrect`: the type invariant;
- `RetentionKeepsItsPromise`: no pruning takes a young dump or one of the newest;
- `PassedRestores`: a dump marked "passed" restores;
- `SilenceIsHealth`: a silent monitor means a recent dump that restores;
- `DroppedIsSafe`: what a replacement dropped is in a dump that restores.

Any number of backup runs and the retention script may overlap. The invariant
`IInv` says which dump a run has published (`OwnOk`, `OwnApart`), that what a
pruning has in hand is beyond the newest, whatever was published since it listed,
and has expired once it is being removed (`PruneOk`; both only become truer with
time), what a run has found out about its dump as long as that is there (`RunOk`: a
good checksum, then a test database with the content of the dump), and the dates
(`DatesInv`, `DatesOk`), by which a dump the monitor calls recent is young.
`OutageInv` follows a replacement: the backup the operator took after stopping
writes holds what production held (`Saved(Held)`), however often a restore is cut
short and whatever is dumped meanwhile, and is too young to be pruned before the
replacement is over. That is why `DroppedIsSafe` assumes `RetentionDays # 0`: with a retention of
no days a fresh dump beyond the minimum is deleted at once.

### EngineCache

- `UndisturbedAnswers`: a request that no publication disturbs is answered from the
  active snapshot;
- `AnswersForward`: no worker goes back to an older one.

The active snapshot is whole (`StoreOk`); a request that has seen one value of the
pointer has read that value (`SeenOk`); a worker's engine is no newer than the
pointer, nor than what the request has read in order to load (`CacheOk`), so a load
never replaces an engine by an older one.

### LoginRateLimit

- `FewFailuresMissed`: no increment is overwritten, and a counter misses less than
  one failure of each worker;
- `BlocksStand`: a block in its window is not shortened;
- `ExcessIsBounded`: a counter exceeds its limit by less than two rounds of workers.

`IInv` says that what a request is about to write is one failure more than the
committed row while it holds the row (`WorkerOk`), that a row counts the failures
committed, and how far ahead a block may end (`RowOk`). For `FewFailuresMissed`, which
assumes finitely many workers, `MissedOk` counts those that have found no row and are
still to be refused (`Late`): once there is a row nobody joins them, and whoever
inserted it is none of them. `BlocksStand` assumes
`Block + MaxDelay <= Retention + 1`: otherwise the cleanup deletes a row whose block
still stands, because a row is dated by a request that may be that late. By default
900 s and 30 s stand against 86400 s, but the retention may be set down to 3600 s
and the block to more. `ExcessIsBounded` assumes finitely many workers,
`Block >= Window` and `MaxDelay < Block`, as the defaults have it: whoever is
admitted after the end of a block must find a new window. `ExcessOk` counts the
requests that are past the check and still to come. The first round passed the
check before the limit was reached; a failure that is recorded late dates the block
back, so that it ends before the window, and admits a second round; the block set
by that round ends after the window, and there is no third.

### DeviceSync

- `TypeCorrect`: the type invariant;
- `RowNamesWhatWasPublished`: the row of a device names only snapshots that a sync
  published and reported as its success;
- `SwapStands`: from the swap to the end of a run its snapshot is in force, unless
  the operator moves the pointer;
- `RunsNotOvertakenAreTold`: the columns of a row tell of one run, unless that was
  overtaken by the commit of another.

Workers, hosts and moments are any. `LockOk` says who holds the collector's lock,
`RunOk` that what a request loaded and what it is about to write were published and
reported, and that no run takes a snapshot out of the row it found; `HistoryOk` that
a moment is used once. The last theorem's exception is needed: only columns that
differ from what was loaded are written, so of two requests that overlap each may
write some. `OneOk` says that a run that was not overtaken finds the columns as it
loaded them, whatever else was edited.

### PortalAccess (PortalProofs)

- `TypeCorrect`: the type invariant;
- `GrantsNeverDangle`: no subscription or assignment outlives its ends;
- `ServedOnlyEntitled`: a client is served only on grants in force during its request;
- `OneWorkerKeepsAnAdmin`: with one worker an administrator always remains;
- `LastAdminOnlyRaced`: with any number, the last is lost only to a race;
- `SavesAreExact`: a save nothing disturbed leaves exactly what was chosen.

The users are finitely many. The first three share an invariant `IInv`: the type,
`NoDanglingGrant`, and what each worker's request knows (`Knows`: the object it is
about and a value that fits; for a client's request, that every grant now in force
is among those it has seen in force). `CommittedRows` is the heart: it goes over the
kinds of request and shows that the rows a commit leaves still have both ends,
because deleting an object cascades and because a save is refused when an end is
gone. `SeenByOthers` is what the requests of the other workers keep over that
commit. The one-worker theorem adds `Current`: what a request read is still so at
its commit, hence the count of administrators is. Its hypothesis is what
`LastAdmin` shows to be needed. `SaveInv` adds what a request has read: whoever
takes an administrator away has counted more than one (`Counted`), and an
undisturbed save has selected rows whose ends exist, and is about to remove and add
just the difference (`Exact`).

### PolicyPages (PortalProofs)

- `ListingIsSorted`: a listing holds every policy that passes the filter exactly
  once, in the order asked for;
- `WalksShowEachOnce`: an undisturbed walk shows every matching policy once, in
  order, and offers Next as long as one is missing;
- `NextPageFollowsTable`: the catalogue's Next asks for the offset after the rows in
  view, and after a single search for their listing.

Lists of policies, page sizes and numbers of requests are any. `Before` is a strict
total order of the places of a list, because equal keys are told apart by place, so
`InOrder` lists each once (`OrderingProofs`). `PagesInv` adds to the types that
every request is for a page (`RequestOk`) and every answer one that some version
gives to such a request, or a failure (`AnswerOk`); that where the catalogue offers
Next the rows of the current page are in view (`TableInv`), which no late answer
spoils because Next goes with every fetch and comes back with every answer; that
after a single search all that is on its way or in view is of the form as it is
(`SingleInv`); and, for
a walk that is on (`WalkInv`), that `walk.rows` is a beginning of the listing and
either all is answered and the pages up to the current one have been shown
(`Rested`), or just the next page is under way (`Fetching`).

### DashboardLayout (PortalProofs)

- `CalmSavesAreShown`: after changes made one at a time, what is stored is what the
  tab shows.

Any number of tabs, services and posts. `LayoutInv` says of a calm tab (`CalmTab`)
that either nothing is under way and a reload would show what it shows (`Agrees`), or
its own post is the only one (`PostOk`): sent, it carries what the tab shows;
handled, it is about to store that without the cards that are gone; saved, that is
what is stored. A page that is loaded again is calm only if no request is at work
then, so a post left behind by `Lose` disturbs no calm tab. A service that is taken away disturbs nothing, since both sides lose
its card (`Kept` of `Kept` is `Kept` of both sets), and a post that writes nothing,
because what it would store is what the handler read, leaves the same list.

### PolicyEvaluation (PolicyProofs)

- `ExpansionTakesAllOnce`: the expansion of a policy's addresses ends and gives
  every address under them exactly once;
- `CoveredIsCovered`: a result with nothing missing holds every single address asked
  for, on both sides;
- `CoveringPoliciesOffered`: a policy that does what was asked is among the results
  with nothing missing;
- `LeastPrivilegeRanks`: up to five networks, the narrow policy comes first;
- `CrowdFavoursAll`: from 32 networks on, the list of "all" alone scores above a
  list of as many narrow addresses;
- `RouteOrderIsIrrelevant`: reversing a table of routes of different lengths changes
  no answer.

Snapshots have any finite number of names, groups of any shape, any services, routes
and policies; requests have any items. What is assumed of them
(`SnapshotsAssumption`, `RequestsAssumption`) is their form: a range begins no later
than it ends, a name is no port entry, a list is a list. The invariant of the
service, `EvalInv`, is that the results are those of the request over the snapshot;
what has to be proved is about the operators.

The heart is the expansion. A step keeps `WalkOk`: what was met, or is still to do,
is in every set that holds the names and is closed under membership, the names and
the members of a group that was met are met or still to do, and the addresses given
are the ones met, each once. `Left`, the number of groups not entered times the length
of the longest and the length of what is to do, falls with each step (`LeftFalls`),
so nothing is to do after `Steps` steps (`WalkExists`, `ExpansionIs`): then what was
met is closed, hence the least closed set. The induction is over the numbers
(`AllNumbers`, as a set of numbers that holds 0 and successors), and the same lemma
gives that a function defined by recursion over the numbers exists
(`RecursionExists`).

`NetworksAre` says what the networks of a request are, `RankedIs` that ranking
permutes and never puts a lower score first, `EvaluateIs` that every result is a
scored policy and every scored candidate a result. `CoveringPoliciesOffered` further
needs that a covered side has a match for each network (`HoldingCovers`) and that an
open port is matched, by entry or by range (`OpenMatches`). `LeastPrivilegeRanks` is
arithmetic: with both sides covered the scores of two such policies differ by what
they pay for their sources (`AlikeRest`), a narrow one at most 10, a broad one at
least 15 less what its addresses win (`NarrowPays`).

### PolicyScores (PolicyProofs)

- `HardeningIsSafe`: hardening a firewall policy never raises its risk score;
- `EveryRiskHasRemedy`: a policy above "info" has a remediation;
- `ProtectionPays`: turning on a well set check of a DoS policy, or setting one
  better, never lowers its audit score;
- `NoProtectionIsWorst`: a DoS policy without checks scores less than any with one.

Address lists have any length, and any set of anomalies may be set one by one; the
invariant is the type. Each dimension of the risk is monotone (`DimensionsMonotone`,
from `SideRiskMonotone`: an ANY, worth 40, outweighs what broad networks may add,
25), then the rounded sum (`RoundMonotone`). The sum that is rounded down although
it is a tie is a case of its own: a policy no better than it scores at most 31 as
well. A policy with nothing to remedy can only score sprawl (10 of address scope),
UTM logging without UTM (20) and a schedule (5), which weigh 10 points and less than
20 in any case. The audit goes the same way: an improvement (`ImprovedSettings`)
enables more and sets nothing worse, so fewer of the 6 critical and 17 other
recommended anomalies are missing, no more thresholds are off nor critical checks
without blocking, and the share that is logged does not fall. Without any check a
policy scores coverage (42 of 100) and scope; one check that is enabled is logged
for 70 at least, which weighs 14 points.

### Only model-checked

Liveness (`LockReleased`, `RequestsEnd`) is out of the prover's reach; every other
property of a passing run is stated by a theorem. (`TypesOK` of `Storage` is the
conjunction of the type invariants of `DeviceSync` and `BackupStore`, each a
theorem of its module.) The runs in which modules take turns share no state
between these, so nothing is to be proved of the composition.

## 6. Not modelled

HTTP requests to the firewall, parsing and checks of text fields, batch files,
cryptography, logging, migrations and pages hold no state the properties speak of.
The contents of files are "complete" or not; checksums are assumed to tell. SQLite's
transactions and the expiry of a subscription by its end date are left out. Of the
scripts, partial dumps and disposable databases that a killed run leaves, the dry
run of the retention script, and the monitor's sizes and counts are left out; of
the pages, every filter but one, the dropdowns and the detail of one policy; of the
dashboard, stored values that are not a list of strings.

Two places were met and not followed further: `seed-defaults` registers the legacy
device again whenever none is left (models.py:368), which `PortalAccess` takes for
a creation, and neither a group of addresses nor a range ever counts as broad in
the risk score (engine/risk_assessor.py:136), as `PolicyScores` has it. The first
row of a batch file is dropped as a header when any of its cells contains one of
eight words, "port" and "service" among them (client/routes.py, has_header): a
conversion of text.

## 7. Plan

1. Done: the modules of section 2, the runs of section 3, the proofs of section 5.
2. Next: compose `EngineCache` with `SnapshotStore`, and `PortalAccess` with
   `DashboardLayout`, so that subscriptions come and go by the steps of saves; state
   of that composition what `CalmSaveIsShown` says of each part.
3. A requested group whose members are all unknown resolves to no network, which
   leaves its side of the request without constraint (engine/evaluator.py:98); what
   the code should answer has to be settled before a property can say it.
