--------------------------- MODULE LoginRateLimit ---------------------------
(***************************************************************************)
(* The failed-login counters shared by the web workers (auth/rate_limit.py *)
(* and login() in api/app.py), on PostgreSQL.  A login request             *)
(*     reads both counters and refuses when either is blocked;             *)
(*     verifies the password;                                              *)
(*     on success deletes the username counter;                            *)
(*     on failure locks or inserts the username row, then the row of the   *)
(*     source address, and commits both.                                   *)
(* Between the check and the record other workers run.  The database gives *)
(* row locks (SELECT ... FOR UPDATE waits for the holder and then sees the *)
(* committed row) and a unique constraint on the key (an INSERT waits for  *)
(* an uncommitted INSERT of the same key, and fails if that commits).  A   *)
(* maintenance command deletes stale rows in one statement, which locks    *)
(* them one after the other in the order of its scan, and not in the order *)
(* of the logins.                                                          *)
(***************************************************************************)
EXTENDS Integers, FiniteSets

CONSTANTS
  Workers,
  Users, Sources,   \* normalised usernames; source addresses
  UserAttempts, SourceAttempts, Window, Block,
  Retention,        \* max(LOGIN_RATE_LIMIT_RETENTION_SECONDS, 3600)
  MaxDelay,         \* how long a request can lag behind the clock: the worker's timeout
  MaxTime,          \* bound of the clock
  Cleaner,          \* the transaction of the maintenance command
  None

ASSUME UserAttemptsAssumption == UserAttempts \in Nat \ {0}
ASSUME SourceAttemptsAssumption == SourceAttempts \in Nat \ {0}
ASSUME WindowAssumption == Window \in Nat \ {0}
ASSUME BlockAssumption == Block \in Nat \ {0}
ASSUME RetentionAssumption == Retention \in Nat \ {0}
ASSUME MaxDelayAssumption == MaxDelay \in Nat
ASSUME KeysAssumption ==
  /\ Users \cap Sources = {} /\ None \notin Users \cup Sources \cup Workers \cup {Cleaner}
  /\ Cleaner \notin Workers
  /\ None \notin [start : Nat, failed : Nat, until : Nat, updated : Nat]

VARIABLES
  now,
  rows,     \* rows[k]: the committed row of a username or an address, or None
  owner,    \* the worker, or the cleaner, whose open transaction has locked or inserted k
  tally,    \* history: failures committed in the present window of k
  missed,   \* history: failures rolled back because k's row had been inserted meanwhile
  cutoff, todo, at,  \* the cleaner: its limit of age, 0 when it does not run; the rows it
                     \* has yet to look at; the row it looks at, or None
  pc,
  req,      \* the worker's request: username and source
  time,     \* the worker's current_time
  copy      \* copy[w][k]: the row as w's session has it, None before it is read

keysOf == <<rows, owner, tally, missed>>
sweep == <<cutoff, todo, at>>
workersOf == <<pc, req, time, copy>>
vars == <<now, keysOf, sweep, workersOf>>

Keys == Users \cup Sources
Max2(a, b) == IF a > b THEN a ELSE b
MaximumAttempts(k) == IF k \in Users THEN UserAttempts ELSE SourceAttempts

NoCopies == [k \in Keys |-> None]

Init ==
  /\ now = 0
  /\ rows = [k \in Keys |-> None]
  /\ owner = [k \in Keys |-> None]
  /\ tally = [k \in Keys |-> 0]
  /\ missed = [k \in Keys |-> 0]
  /\ cutoff = 0 /\ todo = {} /\ at = None
  /\ pc = [w \in Workers |-> "idle"]
  /\ req = [w \in Workers |-> None]
  /\ time = [w \in Workers |-> 0]
  /\ copy = [w \in Workers |-> NoCopies]

Goto(w, s) == pc' = [pc EXCEPT ![w] = s]

\* The request ends: the session is removed, its transaction is over.
Unlocked(w) == [k \in Keys |-> IF owner[k] = w THEN None ELSE owner[k]]
End(w) ==
  /\ Goto(w, "idle")
  /\ req' = [req EXCEPT ![w] = None]
  /\ time' = [time EXCEPT ![w] = 0]
  /\ copy' = [copy EXCEPT ![w] = NoCopies]
  /\ owner' = Unlocked(w)

(***************************************************************************)
(* check_login_allowed, verify_password                                    *)
(***************************************************************************)

\* Faulty: the comparison the other way round.
BlockedReversed(k, t) == rows[k] # None /\ rows[k].until < t

Blocked(k, t) == rows[k] # None /\ rows[k].until > t

\* The account is blocked: the answer is 429 and nothing changes.
RefuseUser(w) ==
  /\ pc[w] = "idle" /\ \E u \in Users : Blocked(u, now)
  /\ UNCHANGED vars

Begin(w) ==
  /\ pc[w] = "idle"
  /\ \E u \in Users, a \in Sources :
       /\ ~ Blocked(u, now)
       /\ req' = [req EXCEPT ![w] = [user |-> u, source |-> a]]
  /\ Goto(w, "source")
  /\ time' = [time EXCEPT ![w] = now]
  /\ UNCHANGED <<now, keysOf, sweep, copy>>

CheckSource(w) ==
  /\ pc[w] = "source" /\ ~ Blocked(req[w].source, time[w])
  /\ Goto(w, "verify")
  /\ UNCHANGED <<now, keysOf, sweep, req, time, copy>>

\* The address is blocked.
RefuseSource(w) ==
  /\ pc[w] = "source" /\ Blocked(req[w].source, time[w])
  /\ End(w)
  /\ UNCHANGED <<now, rows, tally, missed, sweep>>

\* The answer depends on the password; record_login_failure reads the clock.
Verify(w) ==
  /\ pc[w] = "verify"
  /\ \/ Goto(w, "clear") /\ UNCHANGED time
     \/ Goto(w, "lockUser") /\ time' = [time EXCEPT ![w] = now]
  /\ UNCHANGED <<now, keysOf, sweep, req, copy>>

\* clear_login_failures: SELECT ... FOR UPDATE, DELETE, COMMIT.
Clear(w) ==
  /\ pc[w] = "clear"
  /\ rows[req[w].user] # None => owner[req[w].user] = None
  /\ rows' = [rows EXCEPT ![req[w].user] = None]
  /\ tally' = [tally EXCEPT ![req[w].user] = 0]
  /\ missed' = [missed EXCEPT ![req[w].user] = 0]
  /\ End(w)
  /\ UNCHANGED <<now, sweep>>

(***************************************************************************)
(* record_login_failure                                                    *)
(***************************************************************************)

\* Faulty: the present block is overwritten.
CountedOverwriting(row, k, t) ==
  LET new == [start |-> t, failed |-> 0, until |-> 0, updated |-> t]
      old == IF row = None \/ t - row.start >= Window THEN new ELSE row
      failed == old.failed + 1
  IN  [start |-> old.start, failed |-> failed, updated |-> t,
       until |-> IF failed >= MaximumAttempts(k) THEN t + Block ELSE old.until]

\* One failure more in a row, at time t.
Counted(row, k, t) ==
  LET new == [start |-> t, failed |-> 0, until |-> 0, updated |-> t]
      old == IF row = None \/ t - row.start >= Window THEN new ELSE row
      failed == old.failed + 1
  IN  [start |-> old.start, failed |-> failed, updated |-> t,
       until |-> IF failed >= MaximumAttempts(k) THEN Max2(old.until, t + Block)
                 ELSE old.until]

\* Faulty: SELECT without FOR UPDATE.
ReadUnlocked(w, k, next) ==
  /\ copy' = [copy EXCEPT ![w][k] = Counted(rows[k], k, time[w])]
  /\ owner' = [owner EXCEPT ![k] = IF rows[k] = None \/ @ # None THEN @ ELSE w]
  /\ Goto(w, next)

\* SELECT ... FOR UPDATE.  It waits for an open transaction that has locked
\* the row; a row that is being inserted is not yet there for it.
ReadForUpdate(w, k, next) ==
  /\ rows[k] # None => owner[k] = None
  /\ copy' = [copy EXCEPT ![w][k] = Counted(rows[k], k, time[w])]
  /\ owner' = [owner EXCEPT ![k] = IF rows[k] = None THEN @ ELSE w]
  /\ Goto(w, next)

LockUser(w) ==
  /\ pc[w] = "lockUser"
  /\ ReadForUpdate(w, req[w].user, "flushUser")
  /\ UNCHANGED <<now, rows, tally, missed, sweep, req, time>>

\* Writing k out: an UPDATE of the row that w holds, or an INSERT.
MayWrite(w, k) == owner[k] = w \/ (owner[k] = None /\ rows[k] = None)
Conflict(w, k) == owner[k] = None /\ rows[k] # None

\* The second _get_row first flushes the username row.
FlushUser(w) ==
  /\ pc[w] = "flushUser" /\ MayWrite(w, req[w].user)
  /\ owner' = [owner EXCEPT ![req[w].user] = w]
  /\ Goto(w, "lockSource")
  /\ UNCHANGED <<now, rows, tally, missed, sweep, req, time, copy>>

LockSource(w) ==
  /\ pc[w] = "lockSource"
  /\ ReadForUpdate(w, req[w].source, "commit")
  /\ UNCHANGED <<now, rows, tally, missed, sweep, req, time>>

Tallied(w, k) ==
  IF rows[k] # None /\ rows[k].start = copy[w][k].start THEN tally[k] + 1 ELSE 1

\* commit_transaction: the source row is flushed, both rows become visible.
Commit(w) ==
  /\ pc[w] = "commit" /\ MayWrite(w, req[w].source)
  /\ LET written == {req[w].user, req[w].source}
     IN  /\ rows' = [k \in Keys |-> IF k \in written THEN copy[w][k] ELSE rows[k]]
         /\ tally' = [k \in Keys |-> IF k \in written THEN Tallied(w, k) ELSE tally[k]]
  /\ End(w)
  /\ UNCHANGED <<now, missed, sweep>>

\* The row whose writing the unique constraint may refuse.
Contested(w) == IF pc[w] = "flushUser" THEN req[w].user ELSE req[w].source

\* Faulty: the session is used on without a rollback.
LoseWithoutRollback(w) ==
  /\ pc[w] \in {"flushUser", "commit"} /\ Conflict(w, Contested(w))
  /\ missed' = [missed EXCEPT ![Contested(w)] = @ + 1]
  /\ Goto(w, "idle")
  /\ req' = [req EXCEPT ![w] = None]
  /\ time' = [time EXCEPT ![w] = 0]
  /\ copy' = [copy EXCEPT ![w] = NoCopies]
  /\ UNCHANGED <<now, rows, tally, owner, sweep>>

\* The unique constraint: another worker inserted the row first.  The transaction
\* is rolled back, the request answered with an error: its failure is recorded
\* nowhere, neither at this row nor at the other.
Lose(w) ==
  /\ pc[w] \in {"flushUser", "commit"} /\ Conflict(w, Contested(w))
  /\ missed' = [missed EXCEPT ![Contested(w)] = @ + 1]
  /\ End(w)
  /\ UNCHANGED <<now, rows, tally, sweep>>

(***************************************************************************)
(* cleanup_expired_login_limits, run by a maintenance command              *)
(***************************************************************************)

Stale(k, limit) == rows[k] # None /\ rows[k].updated < limit

\* The DELETE begins, and sees the rows committed by then.
SweepStart ==
  /\ cutoff = 0 /\ \E k \in Keys : Stale(k, now - Retention)
  /\ cutoff' = now - Retention
  /\ todo' = {k \in Keys : Stale(k, now - Retention)}
  /\ UNCHANGED <<now, keysOf, at, workersOf>>

\* A row is taken if it is still there and still stale.
Take(k) == owner' = [owner EXCEPT ![k] = IF Stale(k, cutoff) THEN Cleaner ELSE @]

\* It comes to the next row of its scan, and has to wait if a worker has locked it.
SweepLook ==
  /\ at = None
  /\ \E k \in todo :
       /\ todo' = todo \ {k}
       /\ \/ rows[k] # None /\ owner[k] # None /\ at' = k /\ UNCHANGED owner
          \/ (rows[k] = None \/ owner[k] = None) /\ Take(k) /\ UNCHANGED at
  /\ UNCHANGED <<now, rows, tally, missed, cutoff, workersOf>>

SweepWaited ==
  /\ at # None /\ (rows[at] = None \/ owner[at] = None)
  /\ Take(at)
  /\ at' = None
  /\ UNCHANGED <<now, rows, tally, missed, cutoff, todo, workersOf>>

SweepOver(gone) ==
  /\ rows' = [k \in Keys |-> IF k \in gone THEN None ELSE rows[k]]
  /\ tally' = [k \in Keys |-> IF k \in gone THEN 0 ELSE tally[k]]
  /\ missed' = [k \in Keys |-> IF k \in gone THEN 0 ELSE missed[k]]
  /\ owner' = Unlocked(Cleaner)
  /\ cutoff' = 0 /\ todo' = {} /\ at' = None
  /\ UNCHANGED <<now, workersOf>>

\* commit_transaction: the rows it took are gone.
SweepCommit ==
  /\ cutoff # 0 /\ todo = {} /\ at = None
  /\ SweepOver({k \in Keys : owner[k] = Cleaner})

\* The command is killed: the database rolls its transaction back.
SweepKilled == cutoff # 0 /\ SweepOver({})

Sweep == SweepLook \/ SweepWaited \/ SweepCommit

\* A login holds the row the cleaner waits for, and waits for one it has taken.
Deadlocked(w) ==
  /\ at # None /\ owner[at] = w
  /\ pc[w] \in {"lockSource", "commit"} /\ owner[req[w].source] = Cleaner

\* The database finds the deadlock and rolls one of the two back: the request is
\* answered with an error, or the command ends with one.
BreakDeadlock(w) ==
  /\ Deadlocked(w)
  /\ \/ End(w) /\ UNCHANGED <<now, rows, tally, missed, sweep>>
     \/ SweepOver({})

(***************************************************************************)
(* The rest of the world                                                   *)
(***************************************************************************)

\* The worker is killed: the database rolls its transaction back.
Kill(w) ==
  /\ pc[w] # "idle"
  /\ End(w)
  /\ UNCHANGED <<now, rows, tally, missed, sweep>>

\* A worker whose request outlives its timeout is killed.
Tick ==
  /\ now < MaxTime
  /\ \A w \in Workers : pc[w] # "idle" => now - time[w] < MaxDelay
  /\ now' = now + 1
  /\ UNCHANGED <<keysOf, sweep, workersOf>>

Proceed(w) ==
  \/ CheckSource(w) \/ RefuseSource(w) \/ Verify(w) \/ Clear(w)
  \/ LockUser(w) \/ FlushUser(w) \/ LockSource(w) \/ Commit(w) \/ Lose(w)

Next ==
  \/ \E w \in Workers : RefuseUser(w) \/ Begin(w) \/ Proceed(w) \/ Kill(w) \/ BreakDeadlock(w)
  \/ SweepStart \/ Sweep \/ SweepKilled \/ Tick

Spec == Init /\ [][Next]_vars

\* A worker carries its request on, and the cleaner its statement; the database
\* grants a lock to those that wait for it in the order in which they came, and
\* breaks a deadlock.
Fairness ==
  /\ SF_vars(Sweep)
  /\ \A w \in Workers : SF_vars(Proceed(w))
  /\ WF_vars(\E w \in Workers : BreakDeadlock(w))
FairSpec == Spec /\ Fairness

(***************************************************************************)
(* Properties                                                              *)
(***************************************************************************)

\* A counter is the number of failures committed in its window: no increment is
\* overwritten by a worker that read the row before.  What a counter does miss, for
\* as long as its row lives, is a failure of each other worker that found no row
\* before this one was inserted: the database refuses their rows, and their requests
\* end in an error.  (Charged to the row that was refused; the increment of the
\* request's other row is rolled back with it.  Requests that are killed, or that
\* the database ends in a deadlock with the cleaner, are not counted.)
MissesFewFailures ==
  \A k \in Keys :
    rows[k] # None => rows[k].failed = tally[k] /\ missed[k] < Cardinality(Workers)

\* While a counter's window runs, its block is never shortened, whatever order
\* the failures are recorded in; only a successful login or its expiry removes
\* the row.  (Rows must be kept for longer than a block and the delay of a request
\* together: the update of a row is dated by a request that may be that late.)
BlockNeverShortened ==
  [][\A k \in Keys :
       Blocked(k, now) /\ now - rows[k].start < Window =>
         \/ Blocked(k, now)' /\ rows'[k].until >= rows[k].until
         \/ k \in Users /\ rows'[k] = None
         \/ now' >= rows[k].until]_vars

\* Requests that passed the check before a block was set are recorded after it:
\* at most one of each other worker.  A failure recorded late may end its block
\* before the window ends, which admits one more round of them (Block >= Window
\* and MaxDelay < Block).
ExcessBounded ==
  \A k \in Keys :
    rows[k] # None => rows[k].failed < MaximumAttempts(k) + 2 * Cardinality(Workers)

\* Every request ends.  The logins lock their rows in one order and never wait for
\* each other in a circle; with the cleaner, whose order is another, one may, and
\* goes on because the database breaks the deadlock.
RequestsEnd == \A w \in Workers : pc[w] # "idle" ~> pc[w] = "idle"

\* What the documentation says of a block of an address: it lasts Block from
\* the failure that set it.
SourceBlockLasts ==
  [][\A a \in Sources :
       Blocked(a, now) => \/ rows'[a] # None /\ rows'[a].until >= rows[a].until
                          \/ now' >= rows[a].until]_vars
=============================================================================
