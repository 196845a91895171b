--------------------------- MODULE DeviceSyncProofs ---------------------------
(***************************************************************************)
(* What is proved of DeviceSync, for every number of workers, hosts and    *)
(* moments.                                                                *)
(***************************************************************************)
EXTENDS DeviceSync, TLAPS

\* The lock is held by the run that collects, or by the command line.
LockOk ==
  /\ \A w \in Workers : where[w] \in {"collect", "published"} => collectorLock = w
  /\ cli => collectorLock = "cli"

\* A number in last_snapshot_id: of a snapshot that a sync published and told of.
BySync(n) == published[n] # Null /\ published[n].by = "sync"
Told(n) ==
  \E t \in Moments : /\ decided[t] # Null
                     /\ decided[t].status = "success" /\ decided[t].snapshot = n
Recorded(n) == n # 0 => BySync(n) /\ Told(n)

\* Nothing is published or decided at a moment to come: a moment is used once.
HistoryOk == \A t \in Moments : published[t] # Null \/ decided[t] # Null => t <= clock

\* What a request has loaded and what it has set may be recorded; what it has
\* published is in force, or the operator has moved the pointer.  No run takes a snapshot out of the row.
RunOk(w) ==
  /\ where[w] # "idle" => loaded[w] \in Devices /\ Recorded(loaded[w].snapshot)
  /\ where[w] # "idle" /\ row # Null /\ loaded[w].snapshot # 0 => row.snapshot # 0
  /\ where[w] = "published" =>
       /\ outcome[w] \in Outcomes
       /\ ~ moved => active.id = outcome[w].snapshot /\ active.host = loaded[w].host
       /\ outcome[w].snapshot # 0 /\ BySync(outcome[w].snapshot)
  /\ where[w] = "commit" =>
       /\ outcome[w] \in Outcomes /\ Recorded(outcome[w].snapshot)
       /\ outcome[w].snapshot = 0 => outcome[w].status = "failure" /\ loaded[w].snapshot = 0

IInv ==
  /\ SyncTypeOK /\ LockOk
  /\ HistoryOk
  /\ \A w \in Workers : RunOk(w)
  /\ RecordedIsPublished

\* The columns a sync writes.
SameRun(r, s) == r.at = s.at /\ r.status = s.status /\ r.snapshot = s.snapshot

\* A run that was not overtaken finds the columns as it loaded them, and what it
\* has set is the outcome it tells of.
OneOk(w) ==
  /\ where[w] # "idle" /\ row # Null /\ ~ overtaken[w] => SameRun(loaded[w], row)
  /\ where[w] = "commit" => outcome[w].at <= clock /\ decided[outcome[w].at] = outcome[w]

OneInv ==
  /\ \A w \in Workers : OneOk(w)
  /\ row # Null => row.at <= clock
  /\ RowTellsOneRun

-----------------------------------------------------------------------------
(* Types.                                                                  *)

\* What a run decides now is an outcome.
LEMMA NowIsOutcome ==
  ASSUME SyncTypeOK, clock < MaxTime, NEW status \in Statuses, NEW snapshot \in 0 .. MaxTime
  PROVE  /\ Now(status, snapshot) \in Outcomes /\ clock + 1 \in Moments
         /\ Now(status, snapshot).at = clock + 1 /\ Now(status, snapshot).status = status
         /\ Now(status, snapshot).snapshot = snapshot
  BY SyncAssumption DEF SyncTypeOK, Now, Outcomes, Moments

LEMMA DecideTypes ==
  ASSUME SyncTypeOK, NEW w \in Workers, NEW status \in Statuses, NEW snapshot \in 0 .. MaxTime,
         Decide(w, status, snapshot)
  PROVE  /\ clock' = clock + 1 /\ clock' \in 0 .. MaxTime /\ clock + 1 \in Moments
         /\ outcome' \in [Workers -> Outcomes \cup {Null}]
         /\ decided' \in [Moments -> Outcomes \cup {Null}]
         /\ where' \in [Workers -> {"idle", "args", "collect", "published", "commit"}]
         /\ where'[w] = "commit" /\ outcome'[w] = Now(status, snapshot)
         /\ decided'[clock + 1] = Now(status, snapshot)
         /\ \A t \in Moments : t # clock + 1 => decided'[t] = decided[t]
         /\ \A v \in Workers \ {w} : where'[v] = where[v] /\ outcome'[v] = outcome[v]
         /\ UNCHANGED <<published, overtaken, mixed, moved>>
<1>1. clock < MaxTime
  BY DEF Decide, DecideAs
<1>2. Now(status, snapshot) \in Outcomes /\ clock + 1 \in Moments
  BY <1>1, NowIsOutcome
<1> QED  BY <1>1, <1>2, SyncAssumption DEF Decide, DecideAs, Enter, SyncTypeOK

\* Every run that ends decides something.
LEMMA Decisions ==
  ASSUME IInv, NEW w \in Workers, RefuseArgs(w) \/ LockBusy(w) \/ SyncFails(w) \/ Succeed(w)
  PROVE  \E status \in Statuses, snapshot \in 0 .. MaxTime :
           /\ Decide(w, status, snapshot) /\ UNCHANGED <<cli, row, active, loaded>>
           /\ where[w] # "idle"
           /\ \/ status = "failure" /\ snapshot = loaded[w].snapshot
              \/ status = "success" /\ snapshot = outcome[w].snapshot /\ where[w] = "published"
           /\ \/ collectorLock' = collectorLock /\ where[w] = "args"
              \/ collectorLock' = Null /\ where[w] \in {"collect", "published"}
<1>1. where[w] # "idle" => loaded[w].snapshot \in 0 .. MaxTime
  BY DEF IInv, RunOk, Devices
<1>2. where[w] = "published" => outcome[w].snapshot \in 0 .. MaxTime
  BY DEF IInv, RunOk, Outcomes
<1>3. CASE Succeed(w)
  BY <1>2, <1>3 DEF Succeed, Statuses
<1>4. CASE RefuseArgs(w) \/ LockBusy(w) \/ SyncFails(w)
  BY <1>1, <1>4 DEF RefuseArgs, LockBusy, SyncFails, DecideFailure, Statuses
<1> QED  BY <1>3, <1>4

LEMMA WrittenIsDevice ==
  ASSUME IInv, NEW w \in Workers, Commit(w)
  PROVE  /\ Written(w) \in Devices
         /\ Written(w).at = Changed(loaded[w].at, outcome[w].at, row.at)
         /\ Written(w).status = Changed(loaded[w].status, outcome[w].status, row.status)
         /\ Written(w).snapshot = Changed(loaded[w].snapshot, outcome[w].snapshot, row.snapshot)
<1>1. row \in Devices /\ loaded[w] \in Devices /\ outcome[w] \in Outcomes
  BY DEF Commit, IInv, SyncTypeOK, RunOk
<1> DEFINE a == Changed(loaded[w].at, outcome[w].at, row.at)
           s == Changed(loaded[w].status, outcome[w].status, row.status)
           n == Changed(loaded[w].snapshot, outcome[w].snapshot, row.snapshot)
<1>2. Written(w) = [row EXCEPT !.at = a, !.status = s, !.snapshot = n]
  BY DEF Written
<1>3. a \in 0 .. MaxTime
  BY <1>1, SyncAssumption DEF Changed, Devices, Outcomes, Moments
<1>4. s \in Statuses \cup {Null}
  BY <1>1 DEF Changed, Devices, Outcomes
<1>5. n \in 0 .. MaxTime
  BY <1>1, SyncAssumption DEF Changed, Devices, Outcomes, Moments
<1> HIDE DEF a, s, n
<1>6. Written(w) \in Devices
  BY <1>1, <1>2, <1>3, <1>4, <1>5 DEF Devices
<1>7. Written(w).at = a /\ Written(w).status = s /\ Written(w).snapshot = n
  BY <1>1, <1>2 DEF Devices
<1> QED  BY <1>6, <1>7 DEF a, s, n

LEMMA InitInductive == SyncInit => IInv /\ OneInv
<1> SUFFICES ASSUME SyncInit PROVE IInv /\ OneInv
  OBVIOUS
<1>1. row \in Devices /\ row # Null /\ row.at = 0 /\ row.snapshot = 0
  <2>1. PICK h \in Hosts : row = [host |-> h, isActive |-> TRUE, at |-> 0, status |-> Null, snapshot |-> 0]
    BY DEF SyncInit
  <2>2. 0 \in 0 .. MaxTime
    BY SyncAssumption
  <2>3. row \in Devices
    BY <2>1, <2>2 DEF Devices
  <2> QED  BY <2>1, <2>3, NullAssumption
<1>2. SyncTypeOK
  <2>1. clock \in 0 .. MaxTime
    BY SyncAssumption DEF SyncInit
  <2> QED  BY <1>1, <2>1 DEF SyncInit, SyncTypeOK
<1>3. LockOk /\ \A w \in Workers : RunOk(w) /\ OneOk(w)
  BY DEF SyncInit, LockOk, RunOk, OneOk
<1>4. clock = 0 /\ HistoryOk
  BY DEF SyncInit, HistoryOk
<1>5. row.status # "success"
  BY SyncAssumption DEF SyncInit
<1> QED  BY <1>1, <1>2, <1>3, <1>4, <1>5 DEF IInv, OneInv, RecordedIsPublished, RowTellsOneRun

LEMMA TypeStep ==
  ASSUME IInv, [SyncNext]_syncVars
  PROVE  SyncTypeOK'
<1> USE DEF SyncTypeOK
<1>0. SyncTypeOK
  BY DEF IInv
<1>1. ASSUME NEW w \in Workers, Load(w) \/ AcquireLock(w)
      PROVE  SyncTypeOK'
  <2>1. CASE Load(w)
    BY <1>0, <2>1 DEF Load, Enter
  <2>2. CASE AcquireLock(w)
    BY <1>0, <2>2 DEF AcquireLock, Enter, histories
  <2> QED  BY <1>1, <2>1, <2>2
<1>2. ASSUME NEW w \in Workers, RefuseArgs(w) \/ LockBusy(w) \/ SyncFails(w) \/ Succeed(w)
      PROVE  SyncTypeOK'
  BY <1>0, <1>2, Decisions, DecideTypes
<1>3. ASSUME NEW w \in Workers, Publish(w)
      PROVE  SyncTypeOK'
  <2>1. clock + 1 \in Moments /\ clock + 1 \in 0 .. MaxTime /\ Now("success", clock + 1) \in Outcomes
    BY <1>0, <1>3, SyncAssumption DEF Publish, Now, Outcomes, Moments, Statuses
  <2>2. [id |-> clock + 1, host |-> loaded[w].host] \in Snapshots
    BY <1>3, <2>1 DEF Publish, IInv, RunOk, Devices, Snapshots
  <2>3. [by |-> "sync", host |-> loaded[w].host] \in Publications
    BY <1>3 DEF Publish, IInv, RunOk, Devices, Publications
  <2>4. published' \in [Moments -> Publications \cup {Null}]
    BY <1>0, <1>3, <2>3 DEF Publish
  <2> QED  BY <1>0, <1>3, <2>1, <2>2, <2>4 DEF Publish, Enter
<1>4. ASSUME NEW w \in Workers, Commit(w)
      PROVE  SyncTypeOK'
  BY <1>0, <1>4, WrittenIsDevice DEF Commit, EndRequest, Enter
<1>5. ASSUME NEW w \in Workers, CommitFails(w) \/ Kill(w)
      PROVE  SyncTypeOK'
  BY <1>0, <1>5 DEF CommitFails, Kill, EndRequest, Enter, histories
<1>6. CASE Edit \/ Delete
  <2>1. row' \in Devices \cup {Null}
    BY <1>0, <1>6 DEF Edit, Delete, Devices
  <2> QED  BY <1>0, <1>6, <2>1 DEF Edit, Delete, histories
<1>7. CASE CliAcquire
  BY <1>0, <1>7 DEF CliAcquire, histories
<1>8. CASE CliEnd
  <2>1. CASE UNCHANGED <<clock, active, published>>
    BY <1>0, <1>8, <2>1 DEF CliEnd
  <2>2. ASSUME clock < MaxTime, clock' = clock + 1, NEW h \in Hosts,
               active' = [id |-> clock + 1, host |-> h],
               published' = [published EXCEPT ![clock + 1] = [by |-> "cli", host |-> h]]
        PROVE  SyncTypeOK'
    <3>1. clock' \in 0 .. MaxTime /\ active' \in Snapshots
      BY <1>0, <2>2, SyncAssumption DEF Snapshots, Moments
    <3>2. [by |-> "cli", host |-> h] \in Publications
      BY DEF Publications
    <3>3. published' \in [Moments -> Publications \cup {Null}]
      BY <1>0, <2>2, <3>2
    <3> QED  BY <1>0, <1>8, <3>1, <3>3 DEF CliEnd
  <2> QED  BY <1>8, <2>1, <2>2 DEF CliEnd
<1>9. CASE RollBack
  <2>1. PICK t \in Moments : published[t] # Null /\ active' = [id |-> t, host |-> published[t].host]
    BY <1>9 DEF RollBack
  <2>2. active' \in Snapshots
    BY <1>0, <2>1 DEF Publications, Snapshots
  <2> QED  BY <1>0, <1>9, <2>2 DEF RollBack, histories
<1>10. CASE UNCHANGED syncVars
  BY <1>0, <1>10 DEF syncVars, histories
<1> QED  BY <1>1, <1>2, <1>3, <1>4, <1>5, <1>6, <1>7, <1>8, <1>9, <1>10 DEF SyncNext, Sync

-----------------------------------------------------------------------------
(* The lock and the snapshot in force.                                     *)

Act(w) == Load(w) \/ Sync(w)

\* A run touches its own place and what it holds, and the lock only to take it
\* when it is free or to give it up when it has it.
LEMMA OthersFrame ==
  ASSUME IInv, NEW w \in Workers, Act(w)
  PROVE  /\ cli' = cli
         /\ \A v \in Workers \ {w} :
              where'[v] = where[v] /\ loaded'[v] = loaded[v] /\ outcome'[v] = outcome[v]
         /\ collectorLock' # collectorLock => collectorLock \in {Null, w}
         /\ where'[w] \in {"collect", "published"} => collectorLock' = w
         /\ active' # active \/ moved' # moved => collectorLock = w
<1> USE DEF SyncTypeOK
<1>0. SyncTypeOK /\ LockOk
  BY DEF IInv
<1>1. CASE Load(w) \/ AcquireLock(w)
  BY <1>0, <1>1 DEF Load, AcquireLock, Enter, histories
<1>2. CASE RefuseArgs(w) \/ LockBusy(w) \/ SyncFails(w) \/ Succeed(w)
  BY <1>0, <1>2, Decisions, DecideTypes DEF LockOk
<1>3. CASE Publish(w)
  BY <1>0, <1>3 DEF Publish, Enter, LockOk
<1>4. CASE Commit(w) \/ CommitFails(w) \/ Kill(w)
  BY <1>0, <1>4 DEF Commit, CommitFails, Kill, EndRequest, Enter, histories
<1> QED  BY <1>1, <1>2, <1>3, <1>4 DEF Act, Sync

LEMMA LockStep ==
  ASSUME IInv, [SyncNext]_syncVars
  PROVE  LockOk'
<1>0. SyncTypeOK /\ LockOk /\ "cli" \notin Workers /\ Null \notin Workers \cup {"cli"}
  BY SyncAssumption DEF IInv
<1>1. ASSUME NEW w \in Workers, Act(w)
      PROVE  LockOk'
  <2>1. cli' => collectorLock' = "cli"
    BY <1>0, <1>1, OthersFrame DEF LockOk
  <2>2. ASSUME NEW v \in Workers, where'[v] \in {"collect", "published"}
        PROVE  collectorLock' = v
    BY <1>0, <1>1, <2>2, OthersFrame DEF LockOk
  <2> QED  BY <2>1, <2>2 DEF LockOk
<1>2. CASE Edit \/ Delete \/ RollBack \/ UNCHANGED syncVars
  <2>1. UNCHANGED <<where, collectorLock, cli>>
    BY <1>2 DEF Edit, Delete, RollBack, syncVars
  <2> QED  BY <1>0, <2>1 DEF LockOk
<1>3. CASE CliAcquire
  BY <1>0, <1>3 DEF CliAcquire, LockOk
<1>4. CASE CliEnd
  BY <1>0, <1>4 DEF CliEnd, LockOk
<1> QED  BY <1>1, <1>2, <1>3, <1>4 DEF SyncNext, Act

\* Moments pass one by one, and what is published or decided is so at a new one:
\* the history stays as it is.
LEMMA HistoryStep ==
  ASSUME IInv, [SyncNext]_syncVars
  PROVE  /\ clock' \in Nat /\ clock' >= clock /\ HistoryOk'
         /\ \A t \in Moments : /\ published[t] # Null => published'[t] = published[t]
                               /\ decided[t] # Null => decided'[t] = decided[t]
                               /\ t <= clock => decided'[t] = decided[t]
<1>0. SyncTypeOK /\ clock \in Nat /\ HistoryOk /\ \A t \in Moments : t \in Nat
  BY SyncAssumption DEF IInv, SyncTypeOK, Moments
<1>1. ASSUME clock' = clock /\ UNCHANGED <<published, decided>>
      PROVE  /\ clock' \in Nat /\ clock' >= clock /\ HistoryOk'
             /\ \A t \in Moments : /\ published[t] # Null => published'[t] = published[t]
                                   /\ decided[t] # Null => decided'[t] = decided[t]
                                   /\ t <= clock => decided'[t] = decided[t]
  BY <1>0, <1>1 DEF HistoryOk
<1>2. ASSUME clock' = clock + 1,
             \A t \in Moments : t # clock + 1 => published'[t] = published[t] /\ decided'[t] = decided[t]
      PROVE  /\ clock' \in Nat /\ clock' >= clock /\ HistoryOk'
             /\ \A t \in Moments : /\ published[t] # Null => published'[t] = published[t]
                                   /\ decided[t] # Null => decided'[t] = decided[t]
                                   /\ t <= clock => decided'[t] = decided[t]
  BY <1>0, <1>2 DEF HistoryOk
<1>3. ASSUME NEW w \in Workers, Publish(w)
      PROVE  /\ clock' = clock + 1
             /\ \A t \in Moments : t # clock + 1 => published'[t] = published[t] /\ decided'[t] = decided[t]
  BY <1>0, <1>3 DEF Publish, SyncTypeOK
<1>4. ASSUME NEW w \in Workers, RefuseArgs(w) \/ LockBusy(w) \/ SyncFails(w) \/ Succeed(w)
      PROVE  /\ clock' = clock + 1
             /\ \A t \in Moments : t # clock + 1 => published'[t] = published[t] /\ decided'[t] = decided[t]
  BY <1>0, <1>4, Decisions, DecideTypes
<1>5. ASSUME NEW w \in Workers, Load(w) \/ AcquireLock(w) \/ Commit(w) \/ CommitFails(w) \/ Kill(w)
      PROVE  clock' = clock /\ UNCHANGED <<published, decided>>
  BY <1>5 DEF Load, AcquireLock, Commit, CommitFails, Kill, histories
<1>6. CASE Edit \/ Delete \/ CliAcquire \/ RollBack \/ UNCHANGED syncVars
  BY <1>1, <1>6 DEF Edit, Delete, CliAcquire, RollBack, syncVars, histories
<1>7. CASE CliEnd
  <2>1. \/ clock' = clock /\ UNCHANGED <<published, decided>>
        \/ /\ clock' = clock + 1
           /\ \A t \in Moments : t # clock + 1 => published'[t] = published[t] /\ decided'[t] = decided[t]
    BY <1>0, <1>7 DEF CliEnd, SyncTypeOK
  <2> QED  BY <1>1, <1>2, <2>1
<1> QED  BY <1>1, <1>2, <1>3, <1>4, <1>5, <1>6, <1>7 DEF SyncNext, Sync

\* What may be recorded may be recorded ever after.
LEMMA RecordedStands ==
  ASSUME IInv, [SyncNext]_syncVars
  PROVE  \A n \in 0 .. MaxTime : /\ n # 0 /\ BySync(n) => BySync(n)'
                                 /\ Recorded(n) => Recorded(n)'
<1> SUFFICES ASSUME NEW n \in 0 .. MaxTime
             PROVE  (n # 0 /\ BySync(n) => BySync(n)') /\ (Recorded(n) => Recorded(n)')
  OBVIOUS
<1>1. n # 0 => n \in Moments
  BY SyncAssumption DEF Moments
<1>2. n # 0 /\ BySync(n) => BySync(n)'
  BY <1>1, HistoryStep DEF BySync
<1>3. Told(n) => Told(n)'
  BY HistoryStep DEF Told
<1> QED  BY <1>2, <1>3 DEF Recorded

\* The row keeps to numbers that may be recorded, and none is taken out again.
LEMMA RowStep ==
  ASSUME IInv, [SyncNext]_syncVars
  PROVE  /\ RecordedIsPublished'
         /\ row' # Null => row # Null /\ (row.snapshot # 0 => row'.snapshot # 0)
<1>0. /\ SyncTypeOK /\ (row # Null => row \in Devices /\ row.snapshot \in 0 .. MaxTime)
      /\ (row # Null => Recorded(row.snapshot) /\ (row.status = "success" => row.snapshot # 0))
  BY DEF IInv, SyncTypeOK, RecordedIsPublished, Recorded, BySync, Told, Devices
<1>1. ASSUME NEW n \in 0 .. MaxTime, Recorded(n), row # Null, row.snapshot # 0 => n # 0,
             row' # Null => row'.snapshot = n /\ (row'.status = "success" => n # 0)
      PROVE  /\ RecordedIsPublished'
             /\ row' # Null => row # Null /\ (row.snapshot # 0 => row'.snapshot # 0)
  <2>1. Recorded(n)'
    BY <1>1, RecordedStands
  <2> QED  BY <1>1, <2>1 DEF RecordedIsPublished, Recorded, BySync, Told
<1>2. ASSUME NEW w \in Workers, Commit(w)
      PROVE  /\ RecordedIsPublished'
             /\ row' # Null => row # Null /\ (row.snapshot # 0 => row'.snapshot # 0)
  <2>1. /\ row # Null /\ where[w] = "commit" /\ row' = Written(w) /\ RunOk(w)
        /\ loaded[w] \in Devices /\ outcome[w] \in Outcomes
    BY <1>2 DEF Commit, IInv, RunOk
  <2>2. /\ row'.status = Changed(loaded[w].status, outcome[w].status, row.status)
        /\ row'.snapshot = Changed(loaded[w].snapshot, outcome[w].snapshot, row.snapshot)
    BY <1>2, <2>1, WrittenIsDevice
  <2>3. /\ Recorded(outcome[w].snapshot) /\ outcome[w].snapshot \in 0 .. MaxTime
        /\ (outcome[w].snapshot = 0 => outcome[w].status = "failure" /\ loaded[w].snapshot = 0)
        /\ (loaded[w].snapshot # 0 => row.snapshot # 0)
    BY <2>1, SyncAssumption DEF RunOk, Outcomes
  <2>4. CASE outcome[w].snapshot # loaded[w].snapshot
    <3>1. outcome[w].snapshot # 0 /\ row'.snapshot = outcome[w].snapshot
      BY <2>2, <2>3, <2>4 DEF Changed
    <3> QED  BY <1>1, <2>1, <2>3, <3>1
  <2>5. CASE outcome[w].snapshot = loaded[w].snapshot
    <3>1. row'.snapshot = row.snapshot
      BY <2>2, <2>5 DEF Changed
    <3>2. row'.status = "success" => row.snapshot # 0
      BY <1>0, <2>1, <2>2, <2>3, <2>5 DEF Changed
    <3> QED  BY <1>0, <1>1, <2>1, <3>1, <3>2
  <2> QED  BY <2>4, <2>5
<1>3. CASE row' = Null \/ row' = row
  <2>1. CASE row' = Null
    BY <2>1 DEF RecordedIsPublished
  <2>2. CASE row' = row /\ row # Null
    BY <1>0, <1>1, <2>2
  <2> QED  BY <1>3, <2>1, <2>2
<1>4. CASE Edit
  <2>1. row # Null /\ row \in Devices /\ row'.snapshot = row.snapshot /\ row'.status = row.status
    BY <1>0, <1>4 DEF Edit, Devices
  <2> QED  BY <1>0, <1>1, <2>1
<1>5. ASSUME NEW w \in Workers, Act(w), ~ Commit(w)
      PROVE  row' = row
  BY <1>5, Decisions DEF Act, Sync, Load, AcquireLock, Publish, CommitFails, Kill
<1>6. CASE Delete \/ CliAcquire \/ CliEnd \/ RollBack \/ UNCHANGED syncVars
  BY <1>3, <1>6 DEF Delete, CliAcquire, CliEnd, RollBack, syncVars
<1> QED  BY <1>2, <1>3, <1>4, <1>5, <1>6 DEF SyncNext, Act

\* A step that leaves a run alone keeps what the run has.
LEMMA RestingRunOk ==
  ASSUME IInv, [SyncNext]_syncVars, NEW v \in Workers,
         where'[v] = where[v], loaded'[v] = loaded[v], outcome'[v] = outcome[v],
         where[v] = "published" /\ ~ moved' => UNCHANGED <<active, moved>>
  PROVE  RunOk(v)'
<1>0. RunOk(v) /\ (row' # Null => row # Null /\ (row.snapshot # 0 => row'.snapshot # 0))
  BY RowStep DEF IInv
<1>1. ASSUME where[v] # "idle"
      PROVE  loaded'[v] \in Devices /\ Recorded(loaded[v].snapshot)'
  <2>1. loaded[v].snapshot \in 0 .. MaxTime /\ Recorded(loaded[v].snapshot)
    BY <1>0, <1>1 DEF RunOk, Devices
  <2> QED  BY <1>0, <1>1, <2>1, RecordedStands DEF RunOk, Recorded, BySync, Told
<1>2. ASSUME where[v] = "published"
      PROVE  /\ outcome'[v] \in Outcomes
             /\ ~ moved' => active'.id = outcome'[v].snapshot /\ active'.host = loaded'[v].host
             /\ outcome'[v].snapshot # 0 /\ BySync(outcome[v].snapshot)'
  <2>1. outcome[v].snapshot \in 0 .. MaxTime
    BY <1>0, <1>2, SyncAssumption DEF RunOk, Outcomes
  <2> QED  BY <1>0, <1>2, <2>1, RecordedStands DEF RunOk, BySync
<1>3. ASSUME where[v] = "commit"
      PROVE  outcome'[v] \in Outcomes /\ Recorded(outcome[v].snapshot)'
  <2>1. outcome[v].snapshot \in 0 .. MaxTime
    BY <1>0, <1>3, SyncAssumption DEF RunOk, Outcomes
  <2> QED  BY <1>0, <1>3, <2>1, RecordedStands DEF RunOk, Recorded, BySync, Told
<1>4. where[v] # "idle" /\ row' # Null /\ loaded[v].snapshot # 0 => row'.snapshot # 0
  BY <1>0 DEF RunOk
<1>5. where[v] = "commit" /\ outcome[v].snapshot = 0 => outcome[v].status = "failure" /\ loaded[v].snapshot = 0
  BY <1>0 DEF RunOk
<1> QED  BY <1>1, <1>2, <1>3, <1>4, <1>5 DEF RunOk

LEMMA OwnRunOk ==
  ASSUME IInv, [SyncNext]_syncVars, NEW w \in Workers, Act(w)
  PROVE  RunOk(w)'
<1>0. /\ SyncTypeOK /\ RunOk(w) /\ RecordedIsPublished
      /\ Null \notin Devices \cup Outcomes \cup Snapshots \cup Publications
  BY NullAssumption DEF IInv
<1>1. CASE Load(w)
  <2>1. /\ where'[w] = "args" /\ loaded'[w] = row /\ row # Null /\ row \in Devices
        /\ UNCHANGED <<row, published, decided>>
    BY <1>0, <1>1 DEF Load, Enter, SyncTypeOK
  <2> QED  BY <1>0, <2>1 DEF RunOk, RecordedIsPublished, Recorded, BySync, Told
<1>2. CASE AcquireLock(w)
  <2>1. /\ where[w] = "args" /\ where'[w] = "collect"
        /\ UNCHANGED <<row, loaded, published, decided>>
    BY <1>0, <1>2 DEF AcquireLock, Enter, SyncTypeOK, histories
  <2> QED  BY <1>0, <2>1 DEF RunOk, Recorded, BySync, Told
<1>3. CASE RefuseArgs(w) \/ LockBusy(w) \/ SyncFails(w) \/ Succeed(w)
  <2>1. PICK status \in Statuses, snapshot \in 0 .. MaxTime :
          /\ Decide(w, status, snapshot) /\ UNCHANGED <<cli, row, active, loaded>>
          /\ where[w] # "idle"
          /\ \/ status = "failure" /\ snapshot = loaded[w].snapshot
             \/ status = "success" /\ snapshot = outcome[w].snapshot /\ where[w] = "published"
    BY <1>3, Decisions
  <2>2. /\ where'[w] = "commit" /\ outcome'[w] = Now(status, snapshot) /\ clock < MaxTime
        /\ decided'[clock + 1] = Now(status, snapshot) /\ clock + 1 \in Moments
    BY <1>0, <2>1, DecideTypes DEF Decide, DecideAs
  <2>3. outcome'[w] \in Outcomes /\ outcome'[w].snapshot = snapshot /\ outcome'[w].status = status
    BY <1>0, <2>2, NowIsOutcome
  <2>4. loaded' = loaded /\ loaded[w] \in Devices /\ loaded[w].snapshot \in 0 .. MaxTime
        /\ Recorded(loaded[w].snapshot)
    BY <1>0, <2>1 DEF RunOk, Devices
  <2>5. Recorded(loaded[w].snapshot)'
    BY <2>4, RecordedStands DEF Recorded, BySync, Told
  <2>6. Recorded(snapshot)'
    <3>1. CASE snapshot = loaded[w].snapshot
      BY <2>4, <3>1, RecordedStands DEF Recorded, BySync, Told
    <3>2. CASE status = "success" /\ snapshot = outcome[w].snapshot /\ where[w] = "published"
      <4>1. BySync(snapshot)'
        BY <1>0, <3>2, RecordedStands DEF RunOk, BySync
      <4>2. Told(snapshot)'
        BY <1>0, <2>2, <2>3, <3>2 DEF Told
      <4> QED  BY <4>1, <4>2 DEF Recorded
    <3> QED  BY <2>1, <3>1, <3>2 DEF Statuses
  <2>7. snapshot = 0 => status = "failure" /\ loaded[w].snapshot = 0
    BY <1>0, <2>1 DEF RunOk
  <2>8. row' = row /\ (row # Null /\ loaded[w].snapshot # 0 => row.snapshot # 0)
    BY <1>0, <2>1 DEF RunOk
  <2>9. Recorded(loaded[w].snapshot)' /\ Recorded(outcome[w].snapshot)'
    BY <2>3, <2>5, <2>6 DEF Recorded, BySync, Told
  <2> QED  BY <2>2, <2>3, <2>4, <2>7, <2>8, <2>9 DEF RunOk
<1>4. CASE Publish(w)
  <2>1. /\ where[w] = "collect" /\ where'[w] = "published" /\ clock < MaxTime
        /\ UNCHANGED <<loaded, row>>
        /\ active' = [id |-> clock + 1, host |-> loaded[w].host]
        /\ outcome'[w] = Now("success", clock + 1)
        /\ published'[clock + 1] = [by |-> "sync", host |-> loaded[w].host]
        /\ loaded[w] \in Devices /\ clock + 1 \in Moments /\ clock \in Nat
    BY <1>0, <1>4, SyncAssumption DEF Publish, Enter, SyncTypeOK, RunOk, Moments
  <2>2. outcome'[w] \in Outcomes /\ outcome'[w].snapshot = clock + 1
    BY <1>0, <2>1, NowIsOutcome, SyncAssumption DEF Statuses, Moments
  <2>3. active' \in Snapshots /\ active' # Null /\ active'.id = clock + 1 /\ active'.host = loaded[w].host
    BY <1>0, <2>1 DEF Snapshots, Devices
  <2>4. published'[clock + 1] \in Publications /\ published'[clock + 1].by = "sync"
    BY <2>1 DEF Publications, Devices
  <2>5. clock + 1 # 0 /\ BySync(outcome[w].snapshot)'
    BY <1>0, <2>1, <2>2, <2>4 DEF BySync
  <2>6. Recorded(loaded[w].snapshot)' /\ (row # Null /\ loaded[w].snapshot # 0 => row.snapshot # 0)
    <3>1. loaded[w].snapshot \in 0 .. MaxTime /\ Recorded(loaded[w].snapshot)
      BY <1>0, <2>1 DEF RunOk, Devices
    <3>2. Recorded(loaded[w].snapshot)'
      BY <2>1, <3>1, RecordedStands DEF Recorded, BySync, Told
    <3> QED  BY <1>0, <2>1, <3>2 DEF RunOk
  <2> QED  BY <2>1, <2>2, <2>3, <2>5, <2>6 DEF RunOk
<1>5. CASE Commit(w) \/ CommitFails(w) \/ Kill(w)
  <2>1. where'[w] = "idle"
    BY <1>0, <1>5 DEF Commit, CommitFails, Kill, EndRequest, Enter, SyncTypeOK
  <2> QED  BY <2>1 DEF RunOk
<1> QED  BY <1>1, <1>2, <1>3, <1>4, <1>5 DEF Act, Sync

LEMMA RunOkStep ==
  ASSUME IInv, [SyncNext]_syncVars, NEW v \in Workers
  PROVE  RunOk(v)'
<1>0. SyncTypeOK /\ LockOk /\ "cli" \notin Workers /\ Null \notin Workers
  BY SyncAssumption DEF IInv
<1>1. ASSUME NEW w \in Workers, Act(w), v # w
      PROVE  RunOk(v)'
  <2>1. where[v] = "published" => UNCHANGED <<active, moved>>
    BY <1>0, <1>1, OthersFrame DEF LockOk
  <2> QED  BY <1>1, <2>1, OthersFrame, RestingRunOk
<1>2. CASE CliEnd
  <2>1. where[v] # "published"
    BY <1>0, <1>2 DEF CliEnd, LockOk
  <2> QED  BY <1>2, <2>1, RestingRunOk DEF CliEnd
<1>3. CASE Edit \/ Delete \/ CliAcquire \/ RollBack \/ UNCHANGED syncVars
  BY <1>3, RestingRunOk DEF Edit, Delete, CliAcquire, RollBack, syncVars, histories
<1> QED  BY <1>1, <1>2, <1>3, OwnRunOk DEF SyncNext, Act

LEMMA InductiveStep == IInv /\ [SyncNext]_syncVars => IInv'
<1> SUFFICES ASSUME IInv, [SyncNext]_syncVars PROVE IInv'
  OBVIOUS
<1>1. SyncTypeOK' /\ LockOk' /\ RecordedIsPublished'
  BY TypeStep, LockStep, RowStep
<1>2. HistoryOk'
  BY HistoryStep
<1>3. \A w \in Workers : RunOk(w)'
  BY RunOkStep
<1> QED  BY <1>1, <1>2, <1>3 DEF IInv

\* The inductive invariant.
THEOREM Inductive == SyncSpec => []IInv
<1>1. SyncInit => IInv
  BY InitInductive
<1> QED  BY <1>1, InductiveStep, PTL DEF SyncSpec

\* The type invariant: the row of the device, what each request holds and what was
\* decided are of their types.
THEOREM TypeCorrect == SyncSpec => []SyncTypeOK
<1>1. IInv => SyncTypeOK
  BY DEF IInv
<1> QED  BY <1>1, Inductive, PTL

\* Whoever publishes, edits, deletes or rolls back, and however commits overlap, the
\* row names only snapshots that a sync published and reported as its success.
THEOREM RowNamesWhatWasPublished == SyncSpec => []RecordedIsPublished
<1>1. IInv => RecordedIsPublished
  BY DEF IInv
<1> QED  BY <1>1, Inductive, PTL

\* Nobody publishes between the swap of a run and its end, whenever the operator
\* rolls back.
THEOREM SwapStands == SyncSpec => []OwnSnapshotInForce
<1>1. IInv => OwnSnapshotInForce
  BY DEF IInv, LockOk, RunOk, OwnSnapshotInForce, Publisher
<1> QED  BY <1>1, Inductive, PTL

-----------------------------------------------------------------------------
(* What the row tells, for any number of workers.                          *)

LEMMA OneStep ==
  ASSUME IInv, OneInv, [SyncNext]_syncVars
  PROVE  OneInv'
<1>0. /\ SyncTypeOK /\ Null \notin Devices \cup Outcomes /\ clock \in Nat
      /\ (row # Null => row \in Devices /\ row.at \in 0 .. MaxTime /\ row.at <= clock)
      /\ clock' \in Nat /\ clock' >= clock
      /\ \A t \in Moments : t \in Nat /\ (t <= clock => decided'[t] = decided[t])
  BY SyncAssumption, NullAssumption, HistoryStep DEF IInv, OneInv, SyncTypeOK, Devices, Moments
<1>1. ASSUME NEW v \in Workers, where'[v] = where[v], loaded'[v] = loaded[v], outcome'[v] = outcome[v],
             \/ overtaken'[v]
             \/ overtaken'[v] = overtaken[v] /\ (row' # Null => row # Null /\ SameRun(row', row))
      PROVE  OneOk(v)'
  <2>1. OneOk(v) /\ (where[v] = "commit" => outcome[v].at \in Moments)
    BY DEF OneInv, IInv, RunOk, Outcomes
  <2>2. where[v] # "idle" /\ row' # Null /\ ~ overtaken'[v] => SameRun(loaded[v], row')
    BY <1>0, <1>1, <2>1 DEF OneOk, SameRun, SyncTypeOK
  <2>3. where[v] = "commit" => outcome[v].at <= clock' /\ decided'[outcome[v].at] = outcome[v]
    BY <1>0, <2>1 DEF OneOk
  <2> QED  BY <1>1, <2>2, <2>3 DEF OneOk, SameRun
<1>2. ASSUME row' # Null => row # Null /\ SameRun(row', row), mixed' = mixed
      PROVE  RowTellsOneRun' /\ (row' # Null => row'.at <= clock')
  <2>1. row # Null /\ row.at # 0 => decided'[row.at] = decided[row.at]
    BY <1>0, SyncAssumption DEF Moments
  <2> QED  BY <1>0, <1>2, <2>1 DEF OneInv, RowTellsOneRun, SameRun
<1>3. ASSUME NEW w \in Workers, Act(w), ~ Commit(w)
      PROVE  OneInv'
  <2>1. /\ row' = row /\ mixed' = mixed
        /\ \A v \in Workers \ {w} : overtaken'[v] = overtaken[v]
    <3>1. CASE Load(w)
      BY <1>0, <3>1 DEF Load, SyncTypeOK
    <3>2. CASE RefuseArgs(w) \/ LockBusy(w) \/ SyncFails(w) \/ Succeed(w)
      BY <1>0, <3>2, Decisions, DecideTypes
    <3>3. CASE AcquireLock(w) \/ Publish(w) \/ CommitFails(w) \/ Kill(w)
      BY <3>3 DEF AcquireLock, Publish, CommitFails, Kill, histories
    <3> QED  BY <1>3, <3>1, <3>2, <3>3 DEF Act, Sync
  <2>2. \A v \in Workers \ {w} : OneOk(v)'
    BY <1>1, <1>3, <2>1, OthersFrame DEF SameRun
  <2>3. OneOk(w)'
    <3>1. CASE Load(w)
      <4>1. where'[w] = "args" /\ loaded'[w] = row
        BY <1>0, <3>1 DEF Load, Enter, SyncTypeOK
      <4> QED  BY <2>1, <4>1 DEF OneOk, SameRun
    <3>2. CASE RefuseArgs(w) \/ LockBusy(w) \/ SyncFails(w) \/ Succeed(w)
      <4>1. PICK status \in Statuses, snapshot \in 0 .. MaxTime :
              Decide(w, status, snapshot) /\ loaded' = loaded /\ where[w] # "idle"
        BY <3>2, Decisions
      <4>2. /\ outcome'[w] = Now(status, snapshot) /\ clock' = clock + 1 /\ clock < MaxTime
            /\ decided'[clock + 1] = Now(status, snapshot) /\ overtaken' = overtaken
        BY <1>0, <4>1, DecideTypes DEF Decide, DecideAs
      <4>3. outcome'[w].at = clock + 1
        BY <1>0, <4>2, NowIsOutcome
      <4>4. outcome'[w].at <= clock' /\ decided'[outcome'[w].at] = outcome'[w]
        BY <1>0, <4>2, <4>3
      <4> QED  BY <2>1, <4>1, <4>2, <4>4 DEF OneInv, OneOk, SameRun
    <3>3. CASE AcquireLock(w) \/ Publish(w) \/ CommitFails(w) \/ Kill(w)
      <4>1. \/ where'[w] = "idle"
            \/ /\ where[w] # "idle" /\ where'[w] \in {"collect", "published"}
               /\ loaded' = loaded /\ overtaken' = overtaken
        BY <1>0, <3>3 DEF AcquireLock, Publish, CommitFails, Kill, EndRequest, Enter, SyncTypeOK, histories
      <4> QED  BY <2>1, <4>1 DEF OneInv, OneOk, SameRun
    <3> QED  BY <1>3, <3>1, <3>2, <3>3 DEF Act, Sync
  <2>4. RowTellsOneRun' /\ (row' # Null => row'.at <= clock')
    BY <1>2, <2>1 DEF SameRun
  <2> QED  BY <2>2, <2>3, <2>4 DEF OneInv
<1>4. ASSUME NEW w \in Workers, Commit(w)
      PROVE  OneInv'
  <2>1. /\ row # Null /\ where[w] = "commit" /\ row' = Written(w) /\ UNCHANGED <<clock, decided>>
        /\ where'[w] = "idle" /\ outcome[w] \in Outcomes /\ mixed' = overtaken[w]
        /\ \A v \in Workers \ {w} : overtaken'[v]
    BY <1>0, <1>4 DEF Commit, EndRequest, Enter, SyncTypeOK, IInv, RunOk
  <2>2. /\ outcome[w].at <= clock /\ decided[outcome[w].at] = outcome[w]
        /\ (~ overtaken[w] => SameRun(loaded[w], row))
    BY <2>1 DEF OneInv, OneOk
  <2>3. ~ overtaken[w] => SameRun(row', outcome[w])
    BY <1>4, <2>1, <2>2, WrittenIsDevice DEF SameRun, Changed
  <2>4. ASSUME NEW v \in Workers
        PROVE  OneOk(v)'
    <3>1. CASE v = w
      BY <2>1, <3>1 DEF OneOk
    <3>2. CASE v # w
      BY <1>1, <1>4, <2>1, <3>2, OthersFrame DEF Act, Sync
    <3> QED  BY <3>1, <3>2
  <2>5. row'.at <= clock'
    BY <1>0, <1>4, <2>1, <2>2, WrittenIsDevice DEF Changed
  <2>6. RowTellsOneRun'
    BY <2>1, <2>2, <2>3 DEF RowTellsOneRun, SameRun
  <2> QED  BY <2>4, <2>5, <2>6 DEF OneInv
<1>5. CASE Edit \/ Delete \/ CliAcquire \/ CliEnd \/ RollBack \/ UNCHANGED syncVars
  <2>1. UNCHANGED <<where, loaded, outcome, overtaken, mixed>>
    BY <1>5 DEF Edit, Delete, CliAcquire, CliEnd, RollBack, syncVars, histories
  <2>2. row' # Null => row # Null /\ SameRun(row', row)
    <3>1. CASE Edit
      BY <1>0, <3>1 DEF Edit, Devices, SameRun
    <3>2. CASE row' \in {row, Null}
      BY <3>2 DEF SameRun
    <3> QED  BY <1>5, <3>1, <3>2 DEF Delete, CliAcquire, CliEnd, RollBack, syncVars
  <2>3. \A v \in Workers : OneOk(v)'
    BY <1>1, <2>1, <2>2
  <2> QED  BY <1>2, <2>1, <2>2, <2>3 DEF OneInv
<1> QED  BY <1>3, <1>4, <1>5 DEF SyncNext, Act

\* However many workers, whatever edits, deletions, publications and rollbacks come
\* between its load and its commit: a run that no other commit overtook leaves a row
\* that tells of it alone.
THEOREM RunsNotOvertakenAreTold == SyncSpec => []RowTellsOneRun
<1>1. SyncInit => OneInv
  BY InitInductive
<1>2. IInv /\ OneInv /\ [SyncNext]_syncVars => OneInv'
  BY OneStep
<1>3. OneInv => RowTellsOneRun
  BY DEF OneInv
<1> QED  BY <1>1, <1>2, <1>3, Inductive, PTL DEF SyncSpec
=============================================================================
