------------------------- MODULE LoginRateLimitProofs -------------------------
(***************************************************************************)
(* What is proved of LoginRateLimit, for every number of workers, accounts *)
(* and addresses, every limit, window and block.                           *)
(***************************************************************************)
EXTENDS LoginRateLimit, TLAPS, FiniteSetTheorems

Row == [start : Nat, failed : Nat, until : Nat, updated : Nat]
Requests == [user : Users, source : Sources]

TypeInv ==
  /\ now \in Nat
  /\ rows \in [Keys -> Row \cup {None}]
  /\ owner \in [Keys -> Workers \cup {Cleaner, None}]
  /\ tally \in [Keys -> Nat] /\ missed \in [Keys -> Nat]
  /\ cutoff \in Int /\ todo \subseteq Keys /\ at \in Keys \cup {None}
  /\ pc \in [Workers -> {"idle", "source", "verify", "clear", "lockUser", "flushUser",
                         "lockSource", "commit"}]
  /\ req \in [Workers -> Requests \cup {None}]
  /\ time \in [Workers -> Nat]
  /\ copy \in [Workers -> [Keys -> Row \cup {None}]]

\* What w is about to write for k is one failure more than the committed row if
\* w holds the row; if it does not, it found none.
Read(w, k) == copy[w][k] = Counted(IF owner[k] = w THEN rows[k] ELSE None, k, time[w])

WorkerOk(w) ==
  /\ pc[w] # "idle" => req[w] \in Requests /\ time[w] <= now /\ now <= time[w] + MaxDelay
  /\ pc[w] \in {"flushUser", "lockSource", "commit"} => Read(w, req[w].user)
  /\ pc[w] \in {"lockSource", "commit"} => owner[req[w].user] = w
  /\ pc[w] = "commit" => Read(w, req[w].source)

\* A block ends at most Block after the last failure that any request has
\* brought, and a request brings its time at most MaxDelay late.
RowOk(k) ==
  rows[k] # None =>
    /\ rows[k].failed = tally[k]
    /\ rows[k].until <= now + Block
    /\ rows[k].until <= rows[k].updated + Block + MaxDelay

\* The cleaner takes only rows older than its limit, and nothing changes a row
\* that it has taken.
CleanerOk ==
  /\ cutoff # 0 => cutoff <= now - Retention
  /\ cutoff = 0 => todo = {} /\ at = None
  /\ \A k \in Keys : owner[k] = Cleaner => cutoff # 0 /\ Stale(k, cutoff)

IInv ==
  /\ TypeInv /\ (\A w \in Workers : WorkerOk(w)) /\ (\A k \in Keys : RowOk(k)) /\ CleanerOk

-----------------------------------------------------------------------------
(* One failure more.                                                       *)

\* What is counted is a row, dated by the request.
LEMMA CountedIsRow ==
  ASSUME NEW row \in Row \cup {None}, NEW k \in Keys, NEW t \in Nat
  PROVE  Counted(row, k, t) \in Row /\ Counted(row, k, t).updated = t
<1>1. Block \in Nat
  BY BlockAssumption
<1>2. CASE row = None
  BY <1>1, <1>2 DEF Counted, Row, Max2
<1>3. CASE row \in Row
  BY <1>1, <1>3 DEF Counted, Row, Max2
<1> QED  BY <1>2, <1>3

\* The first failure of a window.
LEMMA CountedFirst ==
  ASSUME NEW row \in Row \cup {None}, NEW k \in Keys, NEW t \in Nat,
         row = None \/ t - row.start >= Window
  PROVE  LET c == Counted(row, k, t)
         IN  c.start = t /\ c.failed = 1 /\ c.until <= t + Block
<1>1. Block \in Nat
  BY BlockAssumption
<1> QED  BY <1>1 DEF Counted, Max2

\* Another failure of the window.
LEMMA CountedNext ==
  ASSUME NEW row \in Row, row # None, NEW k \in Keys, NEW t \in Nat, t - row.start < Window
  PROVE  LET c == Counted(row, k, t)
         IN  /\ c.start = row.start /\ c.failed = row.failed + 1
             /\ c.until >= row.until /\ (c.until <= row.until \/ c.until <= t + Block)
<1>1. Block \in Nat /\ Window \in Nat
  BY BlockAssumption, WindowAssumption
<1> QED  BY <1>1 DEF Counted, Max2, Row

\* A failure that reaches the limit blocks for Block from its time.
LEMMA CountedBlocks ==
  ASSUME NEW row \in Row \cup {None}, NEW k \in Keys, NEW t \in Nat,
         Counted(row, k, t).failed >= MaximumAttempts(k)
  PROVE  Counted(row, k, t).until >= t + Block
<1>1. Block \in Nat
  BY BlockAssumption
<1>2. CASE row = None
  BY <1>1, <1>2 DEF Counted, Max2
<1>3. CASE row # None
  BY <1>1, <1>3 DEF Counted, Max2, Row
<1> QED  BY <1>2, <1>3

-----------------------------------------------------------------------------
(* The initial state.                                                      *)

LEMMA InitInductive == Init => IInv
<1> SUFFICES ASSUME Init PROVE IInv
  OBVIOUS
<1>1. TypeInv
  <2>1. copy \in [Workers -> [Keys -> Row \cup {None}]]
    BY DEF Init, NoCopies
  <2> QED  BY <2>1 DEF Init, TypeInv
<1>2. \A w \in Workers : WorkerOk(w)
  BY DEF Init, WorkerOk
<1>3. \A k \in Keys : RowOk(k)
  BY DEF Init, RowOk
<1>4. CleanerOk
  BY KeysAssumption DEF Init, CleanerOk
<1> QED  BY <1>1, <1>2, <1>3, <1>4 DEF IInv

-----------------------------------------------------------------------------
(* Who moves.                                                              *)

Act(w) == RefuseUser(w) \/ Begin(w) \/ Proceed(w) \/ Kill(w)
World == SweepStart \/ Sweep \/ SweepKilled \/ Tick \/ UNCHANGED vars

\* A deadlock ends as if the request, or the cleaner, had been killed.
LEMMA Steps ==
  ASSUME IInv, [Next]_vars
  PROVE  World \/ \E w \in Workers : Act(w)
<1>1. ASSUME NEW w \in Workers, BreakDeadlock(w)
      PROVE  SweepKilled \/ Kill(w)
  <2>1. pc[w] # "idle" /\ cutoff # 0
    BY <1>1 DEF BreakDeadlock, Deadlocked, IInv, CleanerOk
  <2> QED  BY <1>1, <2>1 DEF BreakDeadlock, SweepKilled, Kill
<1> QED  BY <1>1 DEF Next, World, Act

\* The cleaner and the clock leave the workers and their rows alone; a row is only
\* ever deleted by the cleaner if it had taken it.
LEMMA WorldFrame ==
  ASSUME IInv, World
  PROVE  /\ UNCHANGED workersOf /\ now' \in {now, now + 1}
         /\ \A k \in Keys, v \in Workers : owner'[k] = v <=> owner[k] = v
         /\ \A k \in Keys :
              \/ rows'[k] = rows[k] /\ tally'[k] = tally[k] /\ missed'[k] = missed[k]
              \/ rows'[k] = None /\ tally'[k] = 0 /\ missed'[k] = 0 /\ owner[k] = Cleaner
<1> USE DEF TypeInv, keysOf, workersOf
<1>0. /\ TypeInv /\ None \notin Workers /\ Cleaner \notin Workers /\ Cleaner # None
      /\ None \notin Keys
  BY KeysAssumption DEF IInv, Keys
<1>1. CASE SweepStart \/ Tick \/ UNCHANGED vars
  BY <1>0, <1>1 DEF SweepStart, Tick, vars
<1>2. CASE SweepLook \/ SweepWaited
  <2>1. UNCHANGED <<now, rows, tally, missed, workersOf>>
    BY <1>2 DEF SweepLook, SweepWaited
  <2>2. owner' = owner \/ \E k \in Keys : Take(k) /\ (rows[k] = None \/ owner[k] = None)
    BY <1>0, <1>2 DEF SweepLook, SweepWaited
  <2>3. \A k \in Keys, v \in Workers : owner'[k] = v <=> owner[k] = v
    BY <1>0, <2>2 DEF Take, Stale
  <2> QED  BY <2>1, <2>3
<1>3. ASSUME NEW gone \in SUBSET {k \in Keys : owner[k] = Cleaner}, SweepOver(gone)
      PROVE  /\ UNCHANGED workersOf /\ now' \in {now, now + 1}
             /\ \A k \in Keys, v \in Workers : owner'[k] = v <=> owner[k] = v
             /\ \A k \in Keys :
                  \/ rows'[k] = rows[k] /\ tally'[k] = tally[k] /\ missed'[k] = missed[k]
                  \/ rows'[k] = None /\ tally'[k] = 0 /\ missed'[k] = 0 /\ owner[k] = Cleaner
  <2>1. UNCHANGED workersOf /\ now' \in {now, now + 1}
    BY <1>3 DEF SweepOver
  <2>2. \A k \in Keys, v \in Workers : owner'[k] = v <=> owner[k] = v
    BY <1>0, <1>3 DEF SweepOver, Unlocked
  <2>3. ASSUME NEW k \in Keys
        PROVE  \/ rows'[k] = rows[k] /\ tally'[k] = tally[k] /\ missed'[k] = missed[k]
               \/ rows'[k] = None /\ tally'[k] = 0 /\ missed'[k] = 0 /\ owner[k] = Cleaner
    BY <1>3 DEF SweepOver
  <2> QED  BY <2>1, <2>2, <2>3
<1>4. CASE SweepCommit \/ SweepKilled
  BY <1>3, <1>4 DEF SweepCommit, SweepKilled
<1> QED  BY <1>1, <1>2, <1>4 DEF World, Sweep

-----------------------------------------------------------------------------
(* The type invariant.                                                     *)

\* A request ends, one way or another.
LEMMA EndTypes ==
  ASSUME TypeInv, NEW w \in Workers, End(w)
  PROVE  /\ pc' = [pc EXCEPT ![w] = "idle"]
         /\ owner' \in [Keys -> Workers \cup {Cleaner, None}]
         /\ pc' \in [Workers -> {"idle", "source", "verify", "clear", "lockUser", "flushUser",
                                 "lockSource", "commit"}]
         /\ req' \in [Workers -> Requests \cup {None}]
         /\ time' \in [Workers -> Nat]
         /\ copy' \in [Workers -> [Keys -> Row \cup {None}]]
<1>1. owner' \in [Keys -> Workers \cup {Cleaner, None}]
  BY DEF TypeInv, End, Unlocked
<1>2. NoCopies \in [Keys -> Row \cup {None}]
  BY DEF NoCopies
<1> QED  BY <1>1, <1>2 DEF TypeInv, End, Goto

\* Reading a row for a request.
LEMMA ReadTypes ==
  ASSUME TypeInv, NEW w \in Workers, NEW k \in Keys,
         NEW next \in {"flushUser", "commit"}, ReadForUpdate(w, k, next)
  PROVE  /\ owner' \in [Keys -> Workers \cup {Cleaner, None}]
         /\ pc' \in [Workers -> {"idle", "source", "verify", "clear", "lockUser", "flushUser",
                                 "lockSource", "commit"}]
         /\ copy' \in [Workers -> [Keys -> Row \cup {None}]]
<1>1. Counted(rows[k], k, time[w]) \in Row
  BY CountedIsRow DEF TypeInv
<1>2. copy' \in [Workers -> [Keys -> Row \cup {None}]]
  BY <1>1 DEF TypeInv, ReadForUpdate
<1> QED  BY <1>2 DEF TypeInv, ReadForUpdate, Goto

LEMMA TypeStep ==
  ASSUME IInv, [Next]_vars
  PROVE  TypeInv'
<1> USE DEF TypeInv, keysOf, workersOf, sweep
<1>0. TypeInv
  BY DEF IInv
<1>1. ASSUME NEW w \in Workers, pc[w] # "idle"
      PROVE  req[w] \in Requests /\ req[w].user \in Keys /\ req[w].source \in Keys
  BY <1>1 DEF IInv, WorkerOk, Requests, Keys
<1>2. ASSUME NEW w \in Workers, Begin(w)
      PROVE  TypeInv'
  <2>1. PICK u \in Users, a \in Sources : req' = [req EXCEPT ![w] = [user |-> u, source |-> a]]
    BY <1>2 DEF Begin
  <2>2. req' \in [Workers -> Requests \cup {None}]
    <3>1. [user |-> u, source |-> a] \in Requests
      BY DEF Requests
    <3> QED  BY <1>0, <2>1, <3>1
  <2>3. time' \in [Workers -> Nat]
    BY <1>0, <1>2 DEF Begin
  <2>4. pc' \in [Workers -> {"idle", "source", "verify", "clear", "lockUser", "flushUser",
                            "lockSource", "commit"}]
    BY <1>0, <1>2 DEF Begin, Goto
  <2>5. UNCHANGED <<now, rows, owner, tally, copy>>
    BY <1>2 DEF Begin
  <2>6. UNCHANGED <<missed, sweep>>
    BY <1>2 DEF Begin
  <2> QED  BY <1>0, <2>2, <2>3, <2>4, <2>5, <2>6 DEF sweep
<1>3. ASSUME NEW w \in Workers, CheckSource(w) \/ Verify(w)
      PROVE  TypeInv'
  BY <1>0, <1>3 DEF CheckSource, Verify, Goto
<1>4. ASSUME NEW w \in Workers, RefuseSource(w) \/ Lose(w) \/ Kill(w)
      PROVE  TypeInv'
  <2>1. missed' \in [Keys -> Nat]
    BY <1>0, <1>4 DEF RefuseSource, Lose, Kill
  <2> QED  BY <1>0, <1>4, <2>1, EndTypes DEF RefuseSource, Lose, Kill
<1>5. ASSUME NEW w \in Workers, Clear(w)
      PROVE  TypeInv'
  <2>1. rows' \in [Keys -> Row \cup {None}] /\ tally' \in [Keys -> Nat] /\ missed' \in [Keys -> Nat]
    BY <1>0, <1>5 DEF Clear
  <2> QED  BY <1>0, <1>5, <2>1, EndTypes DEF Clear
<1>6. ASSUME NEW w \in Workers, LockUser(w) \/ LockSource(w)
      PROVE  TypeInv'
  BY <1>0, <1>1, <1>6, ReadTypes DEF LockUser, LockSource
<1>7. ASSUME NEW w \in Workers, FlushUser(w)
      PROVE  TypeInv'
  BY <1>0, <1>7 DEF FlushUser, Goto
<1>8. ASSUME NEW w \in Workers, Commit(w)
      PROVE  TypeInv'
  <2>1. rows' \in [Keys -> Row \cup {None}]
    BY <1>0, <1>8 DEF Commit
  <2>2. \A k \in Keys : Tallied(w, k) \in Nat
    BY <1>0 DEF Tallied
  <2>3. tally' \in [Keys -> Nat]
    BY <1>0, <1>8, <2>2 DEF Commit
  <2> QED  BY <1>0, <1>8, <2>1, <2>3, EndTypes DEF Commit
<1>9. CASE SweepStart
  <2>1. cutoff' \in Int
    BY <1>0, <1>9, RetentionAssumption DEF SweepStart
  <2> QED  BY <1>0, <1>9, <2>1 DEF SweepStart
<1>13. CASE SweepLook \/ SweepWaited
  <2>1. owner' \in [Keys -> Workers \cup {Cleaner, None}]
    BY <1>0, <1>13 DEF SweepLook, SweepWaited, Take
  <2>2. todo' \subseteq Keys /\ at' \in Keys \cup {None}
    BY <1>0, <1>13 DEF SweepLook, SweepWaited
  <2> QED  BY <1>0, <1>13, <2>1, <2>2 DEF SweepLook, SweepWaited
<1>14. ASSUME NEW gone \in SUBSET Keys, SweepOver(gone)
       PROVE  TypeInv'
  <2>1. owner' \in [Keys -> Workers \cup {Cleaner, None}]
    BY <1>0, <1>14 DEF SweepOver, Unlocked
  <2>2. rows' \in [Keys -> Row \cup {None}]
    BY <1>0, <1>14 DEF SweepOver
  <2>3. tally' \in [Keys -> Nat] /\ missed' \in [Keys -> Nat]
    BY <1>0, <1>14 DEF SweepOver
  <2> QED  BY <1>0, <1>14, <2>1, <2>2, <2>3 DEF SweepOver
<1>15. CASE SweepCommit \/ SweepKilled
  BY <1>14, <1>15 DEF SweepCommit, SweepKilled
<1>10. CASE Tick
  BY <1>0, <1>10 DEF Tick
<1>11. CASE UNCHANGED vars
  BY <1>0, <1>11 DEF vars
<1>12. ASSUME NEW w \in Workers, RefuseUser(w)
       PROVE  TypeInv'
  BY <1>11, <1>12 DEF RefuseUser
<1>16. World => TypeInv'
  BY <1>9, <1>10, <1>11, <1>13, <1>15 DEF World, Sweep
<1> QED  BY <1>2, <1>3, <1>4, <1>5, <1>6, <1>7, <1>8, <1>12, <1>16, Steps DEF Act, Proceed

-----------------------------------------------------------------------------
(* What a worker read stays true until it writes.                          *)

\* No step of another worker takes a row from its holder, or changes it.
LEMMA OthersFrame ==
  ASSUME IInv, NEW w \in Workers, NEW v \in Workers \cup {Cleaner}, v # w, Act(w)
  PROVE  /\ now' = now
         /\ v \in Workers =>
              pc'[v] = pc[v] /\ req'[v] = req[v] /\ time'[v] = time[v] /\ copy'[v] = copy[v]
         /\ \A k \in Keys : /\ owner'[k] = v <=> owner[k] = v
                            /\ owner[k] = v => rows'[k] = rows[k]
<1> USE DEF TypeInv, keysOf, workersOf
<1>0. TypeInv /\ None \notin Workers /\ v # None
  BY KeysAssumption DEF IInv
<1>1. pc[w] # "idle" =>
        req[w] \in Requests /\ req[w].user \in Keys /\ req[w].source \in Keys
  BY DEF IInv, WorkerOk, Requests, Keys
<1>2. CASE RefuseUser(w) \/ Begin(w) \/ CheckSource(w) \/ Verify(w)
  BY <1>0, <1>2 DEF RefuseUser, Begin, CheckSource, Verify, Goto, vars
<1>3. CASE RefuseSource(w) \/ Lose(w) \/ Kill(w)
  BY <1>0, <1>3 DEF RefuseSource, Lose, Kill, End, Unlocked, Goto
<1>4. CASE Clear(w)
  BY <1>0, <1>1, <1>4 DEF Clear, End, Unlocked, Goto
<1>5. CASE LockUser(w) \/ LockSource(w)
  <2>1. PICK k \in Keys, next \in {"flushUser", "commit"} :
          ReadForUpdate(w, k, next) /\ UNCHANGED <<now, rows, tally, req, time>>
    BY <1>1, <1>5 DEF LockUser, LockSource
  <2> QED  BY <1>0, <2>1 DEF ReadForUpdate, Goto
<1>6. CASE FlushUser(w)
  BY <1>0, <1>1, <1>6 DEF FlushUser, MayWrite, Goto
<1>7. CASE Commit(w)
  <2>1. owner[req[w].user] # v /\ owner[req[w].source] # v
    BY <1>0, <1>7 DEF Commit, MayWrite, IInv, WorkerOk
  <2> QED  BY <1>0, <1>1, <1>7, <2>1 DEF Commit, End, Unlocked, Goto
<1> QED  BY <1>2, <1>3, <1>4, <1>5, <1>6, <1>7 DEF Act, Proceed

LEMMA OtherWorkerOk ==
  ASSUME IInv, NEW w \in Workers, NEW v \in Workers, v # w, Act(w)
  PROVE  WorkerOk(v)'
<1>1. WorkerOk(v) /\ (pc[v] # "idle" => req[v].user \in Keys /\ req[v].source \in Keys)
  BY DEF IInv, WorkerOk, Requests, Keys
<1>2. ASSUME NEW k \in Keys, Read(v, k)
      PROVE  Read(v, k)'
  <2>1. copy'[v][k] = Counted(IF owner'[k] = v THEN rows'[k] ELSE None, k, time'[v])
    BY <1>2, OthersFrame DEF Read
  <2> QED  BY <2>1 DEF Read, Counted
<1>3. /\ now' = now /\ pc'[v] = pc[v] /\ req'[v] = req[v] /\ time'[v] = time[v]
      /\ \A k \in Keys : owner'[k] = v <=> owner[k] = v
  BY OthersFrame
<1>4. pc'[v] # "idle" => req'[v] \in Requests /\ time'[v] <= now' /\ now' <= time'[v] + MaxDelay
  BY <1>1, <1>3 DEF WorkerOk
<1>5. pc'[v] \in {"lockSource", "commit"} => owner'[req'[v].user] = v
  BY <1>1, <1>3 DEF WorkerOk
<1>6. /\ pc'[v] \in {"flushUser", "lockSource", "commit"} => Read(v, req[v].user)'
      /\ pc'[v] = "commit" => Read(v, req[v].source)'
  BY <1>1, <1>2, <1>3 DEF WorkerOk
<1> QED  BY <1>3, <1>4, <1>5, <1>6 DEF WorkerOk

\* The worker's own steps.
LEMMA OwnWorkerOk ==
  ASSUME IInv, NEW w \in Workers, Act(w)
  PROVE  WorkerOk(w)'
<1> USE DEF TypeInv, keysOf, workersOf
<1>0. /\ TypeInv /\ WorkerOk(w) /\ None \notin Workers /\ w # None /\ MaxDelay \in Nat
      /\ time[w] \in Nat /\ now \in Nat
  BY KeysAssumption, MaxDelayAssumption DEF IInv
<1>1. pc[w] # "idle" => /\ req[w] \in Requests /\ time[w] <= now /\ now <= time[w] + MaxDelay
                        /\ req[w].user \in Users /\ req[w].source \in Sources
                        /\ req[w].user \in Keys /\ req[w].source \in Keys
                        /\ req[w].user # req[w].source
  BY <1>0, KeysAssumption DEF WorkerOk, Requests, Keys
<1>2. CASE RefuseUser(w)
  BY <1>0, <1>2 DEF RefuseUser, WorkerOk, vars, Read
<1>3. CASE Begin(w)
  <2>1. /\ pc'[w] = "source" /\ time'[w] = now /\ now' = now /\ req'[w] \in Requests
    BY <1>0, <1>3 DEF Begin, Goto, Requests
  <2> QED  BY <1>0, <2>1 DEF WorkerOk
<1>4. CASE CheckSource(w)
  <2>1. pc'[w] = "verify" /\ pc[w] = "source" /\ UNCHANGED <<now, req, time>>
    BY <1>0, <1>4 DEF CheckSource, Goto
  <2> QED  BY <1>0, <2>1 DEF WorkerOk
<1>5. CASE Verify(w)
  <2>1. /\ pc'[w] \in {"clear", "lockUser"} /\ pc[w] = "verify" /\ now' = now /\ req' = req
        /\ time'[w] \in {time[w], now}
    BY <1>0, <1>5 DEF Verify, Goto
  <2>2. time'[w] <= now /\ now <= time'[w] + MaxDelay
    BY <1>0, <1>1, <2>1
  <2> QED  BY <1>0, <1>1, <2>1, <2>2 DEF WorkerOk
<1>6. CASE RefuseSource(w) \/ Lose(w) \/ Kill(w) \/ Clear(w) \/ Commit(w)
  <2>1. pc'[w] = "idle"
    BY <1>0, <1>6 DEF RefuseSource, Lose, Kill, Clear, Commit, End, Goto
  <2> QED  BY <2>1 DEF WorkerOk
<1>7. ASSUME NEW k \in Keys, NEW next \in {"flushUser", "commit"},
             ReadForUpdate(w, k, next), UNCHANGED <<now, rows, tally, req, time>>
      PROVE  Read(w, k)'
  <2>1. copy'[w][k] = Counted(rows[k], k, time[w])
    BY <1>0, <1>7 DEF ReadForUpdate
  <2>2. IF owner'[k] = w THEN rows'[k] = rows[k] ELSE rows[k] = None
    BY <1>0, <1>7 DEF ReadForUpdate
  <2>3. copy'[w][k] = Counted(IF owner'[k] = w THEN rows'[k] ELSE None, k, time'[w])
    BY <1>7, <2>1, <2>2
  <2> QED  BY <2>3 DEF Read, Counted
<1>8. CASE LockUser(w)
  <2>1. /\ pc[w] = "lockUser" /\ pc'[w] = "flushUser" /\ UNCHANGED <<now, req, time>>
        /\ ReadForUpdate(w, req[w].user, "flushUser")
    BY <1>0, <1>8 DEF LockUser, ReadForUpdate, Goto
  <2>2. \A k \in Keys : k = req[w].user => Read(w, k)'
    BY <1>7, <1>8, <2>1 DEF LockUser
  <2>3. Read(w, req[w].user)'
    BY <1>1, <2>1, <2>2
  <2> QED  BY <1>1, <2>1, <2>3 DEF WorkerOk
<1>9. CASE FlushUser(w)
  <2>1. /\ pc[w] = "flushUser" /\ pc'[w] = "lockSource" /\ UNCHANGED <<now, rows, req, time, copy>>
        /\ owner'[req[w].user] = w /\ MayWrite(w, req[w].user)
    BY <1>0, <1>1, <1>9 DEF FlushUser, Goto
  <2>2. copy[w][req[w].user] = Counted(rows[req[w].user], req[w].user, time[w])
    BY <1>0, <2>1 DEF WorkerOk, Read, MayWrite
  <2>3. copy'[w][req'[w].user] =
          Counted(IF owner'[req'[w].user] = w THEN rows'[req'[w].user] ELSE None,
                  req'[w].user, time'[w])
    BY <2>1, <2>2
  <2>4. Read(w, req[w].user)'
    BY <2>3 DEF Read, Counted
  <2> QED  BY <1>1, <2>1, <2>4 DEF WorkerOk
<1>10. CASE LockSource(w)
  <2>1. /\ pc[w] = "lockSource" /\ pc'[w] = "commit" /\ UNCHANGED <<now, rows, req, time>>
        /\ ReadForUpdate(w, req[w].source, "commit")
    BY <1>0, <1>10 DEF LockSource, ReadForUpdate, Goto
  <2>2. \A k \in Keys : k = req[w].source => Read(w, k)'
    BY <1>7, <1>10, <2>1 DEF LockSource
  <2>3. Read(w, req[w].source)'
    BY <1>1, <2>1, <2>2
  <2>4. owner'[req[w].user] = w /\ copy'[w][req[w].user] = copy[w][req[w].user]
    BY <1>0, <1>1, <2>1 DEF ReadForUpdate, WorkerOk
  <2>5. copy'[w][req'[w].user] =
          Counted(IF owner'[req'[w].user] = w THEN rows'[req'[w].user] ELSE None,
                  req'[w].user, time'[w])
    BY <1>0, <2>1, <2>4 DEF WorkerOk, Read
  <2>6. Read(w, req[w].user)'
    BY <2>5 DEF Read, Counted
  <2> QED  BY <1>1, <2>1, <2>3, <2>4, <2>6 DEF WorkerOk
<1> QED  BY <1>2, <1>3, <1>4, <1>5, <1>6, <1>8, <1>9, <1>10 DEF Act, Proceed

\* What a commit writes is one failure more than what is there: nobody has
\* counted in between.
LEMMA WrittenIsCounted ==
  ASSUME IInv, NEW w \in Workers, Commit(w), NEW k \in {req[w].user, req[w].source}
  PROVE  /\ k \in Keys /\ rows'[k] = Counted(rows[k], k, time[w])
         /\ tally'[k] = IF rows[k] # None /\ rows[k].start = rows'[k].start THEN tally[k] + 1 ELSE 1
<1> USE DEF TypeInv
<1>1. k \in Keys
  BY DEF Commit, IInv, WorkerOk, Requests, Keys
<1>2. copy[w][k] = Counted(rows[k], k, time[w])
  BY DEF Commit, IInv, WorkerOk, Read, MayWrite
<1>3. rows'[k] = copy[w][k] /\ tally'[k] = Tallied(w, k)
  BY <1>1 DEF Commit
<1> QED  BY <1>1, <1>2, <1>3 DEF Tallied

LEMMA RowStep ==
  ASSUME IInv, [Next]_vars, NEW k \in Keys
  PROVE  RowOk(k)'
<1>0. /\ TypeInv /\ RowOk(k) /\ now \in Nat /\ Block \in Nat /\ Window \in Nat \ {0} /\ MaxDelay \in Nat
      /\ (rows[k] # None => rows[k] \in Row) /\ tally[k] \in Nat
  BY BlockAssumption, WindowAssumption, MaxDelayAssumption DEF IInv, TypeInv
<1>1. ASSUME NEW w \in Workers, Commit(w), k \in {req[w].user, req[w].source}
      PROVE  RowOk(k)'
  <2> DEFINE t == time[w]
             row == rows'[k]
  <2>1. /\ t \in Nat /\ t <= now /\ now <= t + MaxDelay /\ now' = now
        /\ row = Counted(rows[k], k, t)
        /\ tally'[k] = IF rows[k] # None /\ rows[k].start = row.start THEN tally[k] + 1 ELSE 1
    BY <1>1, WrittenIsCounted DEF IInv, TypeInv, WorkerOk, Commit
  <2> HIDE DEF t, row
  <2>0. rows[k] \in Row \cup {None}
    BY <1>0
  <2>2. row \in Row /\ row.updated = t
    BY <2>0, <2>1, CountedIsRow
  <2>3. CASE rows[k] = None \/ t - rows[k].start >= Window
    <3>1. row.start = t /\ row.failed = 1 /\ row.until <= t + Block
      BY <2>0, <2>1, <2>3, CountedFirst
    <3>2. tally'[k] = 1
      BY <1>0, <2>1, <2>3, <3>1 DEF Row
    <3>3. row.until <= now + Block /\ row.until <= row.updated + Block + MaxDelay
      BY <1>0, <2>1, <2>2, <3>1 DEF Row
    <3> QED  BY <2>1, <3>1, <3>2, <3>3 DEF RowOk, row
  <2>4. CASE rows[k] # None /\ t - rows[k].start < Window
    <3>1. /\ row.start = rows[k].start /\ row.failed = rows[k].failed + 1
          /\ row.until <= rows[k].until \/ row.until <= t + Block
      BY <1>0, <2>1, <2>4, CountedNext
    <3>2. row.until <= now + Block /\ row.until <= row.updated + Block + MaxDelay
      BY <1>0, <2>1, <2>2, <2>4, <3>1 DEF Row, RowOk
    <3>3. row.failed = tally'[k]
      BY <1>0, <2>1, <2>4, <3>1 DEF RowOk
    <3> QED  BY <2>1, <3>2, <3>3 DEF RowOk, row
  <2> QED  BY <1>0, <2>1, <2>3, <2>4 DEF Row
<1>2. ASSUME rows'[k] = None \/ (rows'[k] = rows[k] /\ tally'[k] = tally[k]), now' \in Nat, now' >= now
      PROVE  RowOk(k)'
  BY <1>0, <1>2 DEF RowOk, Row
<1>3. ASSUME NEW w \in Workers, Act(w), ~ (Commit(w) /\ k \in {req[w].user, req[w].source})
      PROVE  RowOk(k)'
  <2>1. now' = now
    BY <1>3 DEF Act, Proceed, RefuseUser, Begin, CheckSource, RefuseSource, Verify, Clear, LockUser,
      FlushUser, LockSource, Commit, Lose, Kill, vars
  <2>2. rows'[k] = None \/ (rows'[k] = rows[k] /\ tally'[k] = tally[k])
    <3>1. CASE Commit(w)
      BY <1>3, <3>1 DEF Commit
    <3>2. CASE Clear(w)
      BY <1>0, <3>2 DEF Clear, TypeInv
    <3>3. CASE ~ Commit(w) /\ ~ Clear(w)
      BY <1>3, <3>3 DEF Act, Proceed, RefuseUser, Begin, CheckSource, RefuseSource, Verify, LockUser,
        FlushUser, LockSource, Lose, Kill, vars, keysOf
    <3> QED  BY <3>1, <3>2, <3>3
  <2> QED  BY <1>0, <1>2, <2>1, <2>2
<1>4. CASE World
  <2>1. now' \in {now, now + 1}
    BY <1>4, WorldFrame
  <2>2. rows'[k] = None \/ (rows'[k] = rows[k] /\ tally'[k] = tally[k])
    BY <1>4, WorldFrame
  <2> QED  BY <1>0, <1>2, <2>1, <2>2
<1> QED  BY <1>1, <1>3, <1>4, Steps

\* A step of the cleaner or the clock.
LEMMA WorldWorkerOk ==
  ASSUME IInv, World, NEW w \in Workers
  PROVE  WorkerOk(w)'
<1>0. /\ WorkerOk(w) /\ Cleaner \notin Workers /\ now \in Nat /\ time[w] \in Nat /\ MaxDelay \in Nat
      /\ (pc[w] # "idle" => req[w].user \in Keys /\ req[w].source \in Keys)
  BY KeysAssumption, MaxDelayAssumption DEF IInv, TypeInv, WorkerOk, Requests, Keys
<1>1. UNCHANGED <<pc, req, time, copy>> /\ \A k \in Keys : owner'[k] = w <=> owner[k] = w
  BY WorldFrame DEF workersOf
<1>2. pc[w] # "idle" => time[w] <= now' /\ now' <= time[w] + MaxDelay
  <2>1. CASE Tick
    BY <1>0, <2>1 DEF Tick, WorkerOk
  <2>2. CASE ~ Tick
    <3>1. now' = now
      BY <2>2 DEF World, Sweep, SweepStart, SweepLook, SweepWaited, SweepCommit, SweepKilled, SweepOver, vars
    <3> QED  BY <1>0, <3>1 DEF WorkerOk
  <2> QED  BY <2>1, <2>2
<1>3. \A k \in Keys : owner[k] = w => rows'[k] = rows[k]
  BY <1>0, WorldFrame
<1>4. ASSUME NEW k \in Keys, Read(w, k)
      PROVE  Read(w, k)'
  <2>1. copy'[w][k] = Counted(IF owner'[k] = w THEN rows'[k] ELSE None, k, time'[w])
    BY <1>1, <1>3, <1>4 DEF Read
  <2> QED  BY <2>1 DEF Read, Counted
<1> QED  BY <1>0, <1>1, <1>2, <1>4 DEF WorkerOk

\* What the cleaner has taken is stale, and stays.
LEMMA CleanerStep ==
  ASSUME IInv, [Next]_vars
  PROVE  CleanerOk'
<1>0. /\ TypeInv /\ CleanerOk /\ now \in Nat /\ Retention \in Nat /\ cutoff \in Int
      /\ None \notin Keys /\ Cleaner # None /\ Cleaner \notin Workers
      /\ \A k \in Keys : rows[k] # None => rows[k].updated \in Nat
  BY KeysAssumption, RetentionAssumption DEF IInv, TypeInv, Keys, Row
<1>1. ASSUME NEW w \in Workers, Act(w)
      PROVE  CleanerOk'
  <2>1. UNCHANGED sweep
    BY <1>1 DEF Act, Proceed, RefuseUser, Begin, CheckSource, RefuseSource, Verify, Clear, LockUser,
      FlushUser, LockSource, Commit, Lose, Kill, vars
  <2>2. /\ now' = now
        /\ \A k \in Keys : /\ owner'[k] = Cleaner <=> owner[k] = Cleaner
                           /\ owner[k] = Cleaner => rows'[k] = rows[k]
    BY <1>0, <1>1, OthersFrame
  <2>3. \A k \in Keys : owner'[k] = Cleaner => cutoff' # 0 /\ Stale(k, cutoff)'
    BY <1>0, <2>1, <2>2 DEF CleanerOk, Stale, sweep
  <2> QED  BY <1>0, <2>1, <2>2, <2>3 DEF CleanerOk, sweep
<1>2. CASE SweepStart
  <2>1. PICK k \in Keys : Stale(k, now - Retention)
    BY <1>2 DEF SweepStart
  <2>2. cutoff' = now - Retention /\ now' = now /\ now - Retention > 0
    BY <1>0, <1>2, <2>1 DEF SweepStart, Stale
  <2>3. cutoff = 0 /\ UNCHANGED <<rows, owner>>
    BY <1>2 DEF SweepStart, keysOf
  <2> QED  BY <1>0, <2>2, <2>3 DEF CleanerOk
<1>3. CASE SweepLook
  <2>1. PICK k \in todo :
          /\ todo' = todo \ {k}
          /\ (at' = k /\ UNCHANGED owner) \/ (Take(k) /\ UNCHANGED at)
    BY <1>3 DEF SweepLook
  <2>2. k \in Keys /\ cutoff # 0 /\ UNCHANGED <<now, rows, cutoff>>
    BY <1>0, <1>3, <2>1 DEF SweepLook, CleanerOk, TypeInv
  <2>3. \A l \in Keys : owner'[l] = Cleaner => owner[l] = Cleaner \/ Stale(l, cutoff)
    BY <1>0, <2>1, <2>2 DEF Take, TypeInv
  <2> QED  BY <1>0, <2>2, <2>3 DEF CleanerOk, Stale
<1>4. CASE SweepWaited
  <2>1. at \in Keys /\ cutoff # 0 /\ Take(at) /\ UNCHANGED <<now, rows, cutoff>>
    BY <1>0, <1>4 DEF SweepWaited, CleanerOk, TypeInv
  <2>2. \A l \in Keys : owner'[l] = Cleaner => owner[l] = Cleaner \/ Stale(l, cutoff)
    BY <1>0, <2>1 DEF Take, TypeInv
  <2> QED  BY <1>0, <2>1, <2>2 DEF CleanerOk, Stale
<1>5. ASSUME NEW gone, SweepOver(gone)
      PROVE  CleanerOk'
  BY <1>0, <1>5 DEF SweepOver, Unlocked, CleanerOk
<1>6. CASE SweepCommit \/ SweepKilled
  BY <1>5, <1>6 DEF SweepCommit, SweepKilled
<1>7. CASE Tick \/ UNCHANGED vars
  <2>1. UNCHANGED <<rows, owner, cutoff, todo, at>> /\ now' \in {now, now + 1}
    BY <1>7 DEF Tick, vars, keysOf, sweep
  <2> QED  BY <1>0, <2>1 DEF CleanerOk, Stale
<1> QED  BY <1>1, <1>2, <1>3, <1>4, <1>6, <1>7, Steps DEF World, Sweep

LEMMA InductiveStep == IInv /\ [Next]_vars => IInv'
<1> SUFFICES ASSUME IInv, [Next]_vars PROVE IInv'
  OBVIOUS
<1>1. ASSUME NEW v \in Workers
      PROVE  WorkerOk(v)'
  <2>1. ASSUME NEW w \in Workers, Act(w)
        PROVE  WorkerOk(v)'
    BY <2>1, OwnWorkerOk, OtherWorkerOk
  <2> QED  BY <2>1, WorldWorkerOk, Steps
<1> QED  BY <1>1, TypeStep, RowStep, CleanerStep DEF IInv, Keys

-----------------------------------------------------------------------------
(* What a login relies on.                                                 *)

\* The inductive invariant.
THEOREM Inductive == Spec => []IInv
  BY InitInductive, InductiveStep, PTL DEF Spec

\* A block is never shortened while the window of its counter runs, as long as
\* the rows are kept longer than a block and the delay of a request together:
\* the update of a row is dated by a request that may be that late.
THEOREM BlocksStand ==
  ASSUME Block + MaxDelay <= Retention + 1
  PROVE  Spec => BlockNeverShortened
<1> DEFINE Stands(k) ==
      Blocked(k, now) /\ now - rows[k].start < Window =>
         \/ Blocked(k, now)' /\ rows'[k].until >= rows[k].until
         \/ k \in Users /\ rows'[k] = None
         \/ now' >= rows[k].until
<1>1. ASSUME IInv, [Next]_vars, NEW k \in Keys, Blocked(k, now), now - rows[k].start < Window
      PROVE  \/ Blocked(k, now)' /\ rows'[k].until >= rows[k].until
             \/ k \in Users /\ rows'[k] = None
             \/ now' >= rows[k].until
  <2>0. /\ rows[k] # None /\ rows[k] \in Row /\ rows[k].until > now /\ now \in Nat /\ RowOk(k)
        /\ Block \in Nat /\ Window \in Nat /\ MaxDelay \in Nat /\ Retention \in Nat
    BY <1>1, BlockAssumption, WindowAssumption, MaxDelayAssumption, RetentionAssumption
       DEF IInv, TypeInv, Blocked
  <2>1. CASE rows'[k] = rows[k] /\ now' \in {now, now + 1}
    BY <2>0, <2>1 DEF Blocked, Row
  <2>2. ASSUME NEW w \in Workers, Commit(w), k \in {req[w].user, req[w].source}
        PROVE  Blocked(k, now)' /\ rows'[k].until >= rows[k].until
    <3>1. time[w] \in Nat /\ time[w] <= now /\ now' = now /\ rows'[k] = Counted(rows[k], k, time[w])
      BY <1>1, <2>2, WrittenIsCounted DEF IInv, TypeInv, WorkerOk, Commit
    <3>2. time[w] - rows[k].start < Window
      BY <1>1, <2>0, <3>1 DEF Row
    <3>3. rows'[k].until >= rows[k].until /\ rows'[k] \in Row
      <4>1. Counted(rows[k], k, time[w]) \in Row
        BY <2>0, <3>1, CountedIsRow
      <4>2. Counted(rows[k], k, time[w]).until >= rows[k].until
        BY <2>0, <3>1, <3>2, CountedNext
      <4> QED  BY <3>1, <4>1, <4>2
    <3>4. rows'[k] # None /\ rows'[k].until > now'
      BY <2>0, <3>1, <3>3, KeysAssumption DEF Row
    <3> QED  BY <3>3, <3>4 DEF Blocked
  <2>3. ASSUME NEW w \in Workers, Act(w), ~ (Commit(w) /\ k \in {req[w].user, req[w].source})
        PROVE  (rows'[k] = rows[k] /\ now' = now) \/ (k \in Users /\ rows'[k] = None)
    <3>1. CASE Commit(w)
      BY <2>3, <3>1 DEF Commit
    <3>2. CASE Clear(w)
      BY <1>1, <3>2 DEF Clear, IInv, TypeInv, WorkerOk, Requests
    <3>3. CASE ~ Commit(w) /\ ~ Clear(w)
      BY <2>3, <3>3 DEF Act, Proceed, RefuseUser, Begin, CheckSource, RefuseSource, Verify, LockUser,
        FlushUser, LockSource, Lose, Kill, vars, keysOf
    <3> QED  BY <3>1, <3>2, <3>3
  <2>4. CASE World
    <3>1. ~ (rows[k].updated < now - Retention)
      BY <2>0 DEF RowOk, Row
    <3>2. owner[k] # Cleaner
      <4>1. cutoff \in Int /\ CleanerOk /\ rows[k].updated \in Nat
        BY <1>1, <2>0 DEF IInv, TypeInv, Row
      <4> QED  BY <2>0, <3>1, <4>1 DEF CleanerOk, Stale
    <3>3. rows'[k] = rows[k] /\ now' \in {now, now + 1}
      BY <1>1, <2>4, <3>2, WorldFrame
    <3> QED  BY <2>1, <3>3
  <2> QED  BY <1>1, <2>1, <2>2, <2>3, <2>4, Steps
<1>2. IInv /\ [Next]_vars => \A k \in Keys : Stands(k)
  BY <1>1
<1>3. [Next]_vars /\ IInv => [\A k \in Keys : Stands(k)]_vars
  BY <1>2
<1> QED  BY <1>3, Inductive, PTL DEF Spec, BlockNeverShortened
-----------------------------------------------------------------------------
(* The excess over a limit.                                                *)

\* The requests that have passed the check of k and may still count for it.
Pending(k) ==
  {w \in Workers : IF k \in Users THEN pc[w] # "idle" /\ req[w].user = k
                   ELSE pc[w] \notin {"idle", "source"} /\ req[w].source = k}

PendingBefore(k, t) == {w \in Pending(k) : time[w] < t}

\* A block that ends before the window is due to a late failure.  While it is
\* the only one, what is still to come that would not end it after the window
\* passed the check before the limit was reached; when a block ends after the
\* window, so did what is still to come that counts in the window.
ExcessOk(k) ==
  rows[k] # None =>
    LET r == rows[k]
        end == r.start + Window
        limit == MaximumAttempts(k)
        all == Cardinality(Workers)
    IN  /\ r.start <= now
        /\ r.failed >= limit /\ r.until < end =>
             /\ r.start + Block <= r.until + MaxDelay
             /\ r.failed + Cardinality(PendingBefore(k, end - Block)) < limit + all
        /\ r.failed >= limit /\ r.until >= end =>
             r.failed + Cardinality(PendingBefore(k, end)) < limit + 2 * all

LEMMA WorkersCounted ==
  ASSUME IsFiniteSet(Workers), NEW T \in SUBSET Workers, NEW S \in SUBSET T
  PROVE  /\ Cardinality(S) \in Nat /\ Cardinality(T) \in Nat
         /\ Cardinality(S) <= Cardinality(T)
         /\ \A w \in T : w \notin S => Cardinality(S) + 1 <= Cardinality(T)
<1>1. IsFiniteSet(T) /\ IsFiniteSet(S)
  BY FS_Subset
<1>2. /\ Cardinality(S) \in Nat /\ Cardinality(T) \in Nat /\ Cardinality(S) <= Cardinality(T)
  BY <1>1, FS_Subset, FS_CardinalityType
<1>3. ASSUME NEW w \in T, w \notin S
      PROVE  Cardinality(S) + 1 <= Cardinality(T)
  <2>1. IsFiniteSet(S \cup {w}) /\ Cardinality(S \cup {w}) = Cardinality(S) + 1
    BY <1>1, <1>3, FS_AddElement
  <2>2. S \cup {w} \in SUBSET T
    BY <1>3
  <2> QED  BY <1>1, <2>1, <2>2, FS_Subset
<1> QED  BY <1>2, <1>3

\* A request that comes to be pending was not blocked at its time, and only
\* the worker that moves has one; the time of a request does not go back.
LEMMA PendingStep ==
  ASSUME IInv, NEW w \in Workers, Act(w), NEW k \in Keys, NEW v \in Workers, v \in Pending(k)'
  PROVE  \/ v \in Pending(k) /\ time'[v] >= time[v]
         \/ v = w /\ pc'[w] # "idle" /\ (rows[k] = None \/ rows[k].until <= time'[v])
<1> USE DEF TypeInv, keysOf, workersOf
<1>0. /\ TypeInv /\ time[v] \in Nat /\ time[w] \in Nat /\ now \in Nat
      /\ (rows[k] # None => rows[k].until \in Nat)
  BY DEF IInv, Row
<1>1. CASE v # w
  <2>1. pc'[v] = pc[v] /\ req'[v] = req[v] /\ time'[v] = time[v]
    BY <1>1, OthersFrame
  <2> QED  BY <1>0, <2>1 DEF Pending
<1>2. CASE v = w /\ Begin(w)
  <2>1. PICK u \in Users, a \in Sources :
          /\ ~ Blocked(u, now) /\ req' = [req EXCEPT ![w] = [user |-> u, source |-> a]]
    BY <1>2 DEF Begin
  <2>2. pc'[w] = "source" /\ time'[w] = now /\ req'[w].user = u /\ req'[w].source = a
    BY <1>0, <1>2, <2>1 DEF Begin, Goto
  <2>3. k = u
    BY <1>2, <2>2 DEF Pending
  <2> QED  BY <1>0, <1>2, <2>1, <2>2, <2>3 DEF Blocked
<1>3. CASE v = w /\ CheckSource(w)
  <2>1. /\ pc[w] = "source" /\ pc'[w] = "verify" /\ req'[w] = req[w] /\ time'[w] = time[w]
        /\ ~ Blocked(req[w].source, time[w])
    BY <1>0, <1>3 DEF CheckSource, Goto
  <2>2. CASE k \in Users
    BY <1>0, <1>3, <2>1, <2>2 DEF Pending
  <2>3. CASE k \notin Users
    BY <1>0, <1>3, <2>1, <2>3 DEF Pending, Blocked
  <2> QED  BY <2>2, <2>3
<1>4. CASE v = w /\ (Verify(w) \/ LockUser(w) \/ FlushUser(w) \/ LockSource(w))
  <2>1. /\ pc[w] \notin {"idle", "source"} /\ req'[w] = req[w] /\ time'[w] \in {time[w], now}
    BY <1>0, <1>4 DEF Verify, LockUser, FlushUser, LockSource, ReadForUpdate, Goto
  <2>2. time[w] <= now
    BY <2>1 DEF IInv, WorkerOk
  <2> QED  BY <1>0, <1>4, <2>1, <2>2 DEF Pending
<1>5. CASE v = w /\ RefuseUser(w)
  BY <1>0, <1>5 DEF RefuseUser, vars, Pending
<1>6. CASE v = w /\ (RefuseSource(w) \/ Lose(w) \/ Kill(w) \/ Clear(w) \/ Commit(w))
  <2>1. pc'[w] = "idle"
    BY <1>0, <1>6 DEF RefuseSource, Lose, Kill, Clear, Commit, End, Goto
  <2> QED  BY <1>6, <2>1 DEF Pending
<1> QED  BY <1>1, <1>2, <1>3, <1>4, <1>5, <1>6 DEF Act, Proceed

\* While a row stays as it is, nothing new may count that matters to it.
LEMMA ExcessKept ==
  ASSUME IInv, IsFiniteSet(Workers), Block >= Window, MaxDelay < Block,
         NEW k \in Keys, ExcessOk(k), rows'[k] = rows[k], rows[k] # None, now' \in Nat, now' >= now,
         \A v \in Workers : v \in Pending(k)' =>
           \/ v \in Pending(k) /\ time'[v] >= time[v]
           \/ rows[k].until <= time'[v],
         time' \in [Workers -> Nat]
  PROVE  ExcessOk(k)'
<1> DEFINE r == rows[k]
           end == r.start + Window
<1>0. /\ r \in Row /\ now \in Nat /\ Block \in Nat /\ Window \in Nat /\ MaxDelay \in Nat
      /\ time \in [Workers -> Nat] /\ MaximumAttempts(k) \in Nat /\ Cardinality(Workers) \in Nat
  BY BlockAssumption, WindowAssumption, MaxDelayAssumption, UserAttemptsAssumption,
     SourceAttemptsAssumption, FS_CardinalityType DEF IInv, TypeInv, MaximumAttempts
<1>1. ASSUME NEW t \in Int, t <= r.until
      PROVE  /\ Cardinality(PendingBefore(k, t)') <= Cardinality(PendingBefore(k, t))
             /\ Cardinality(PendingBefore(k, t)') \in Nat /\ Cardinality(PendingBefore(k, t)) \in Nat
  <2>1. PendingBefore(k, t)' \subseteq PendingBefore(k, t)
    BY <1>0, <1>1 DEF PendingBefore, Pending, Row
  <2>2. PendingBefore(k, t) \subseteq Workers
    BY DEF PendingBefore, Pending
  <2> QED  BY <2>1, <2>2, WorkersCounted
<1>2. r.start <= now
  BY DEF ExcessOk
<1>3. CASE r.failed >= MaximumAttempts(k) /\ r.until < end
  <2>1. /\ r.start + Block <= r.until + MaxDelay
        /\ r.failed + Cardinality(PendingBefore(k, end - Block)) < MaximumAttempts(k) + Cardinality(Workers)
    BY <1>3 DEF ExcessOk
  <2>2. end - Block \in Int /\ end - Block <= r.until
    BY <1>0, <2>1 DEF Row
  <2>3. r.failed + Cardinality(PendingBefore(k, end - Block)') < MaximumAttempts(k) + Cardinality(Workers)
    <3> DEFINE m == Cardinality(PendingBefore(k, end - Block)')
               n == Cardinality(PendingBefore(k, end - Block))
    <3>1. m <= n /\ m \in Nat /\ n \in Nat
      BY <1>1, <2>2
    <3>2. r.failed + n < MaximumAttempts(k) + Cardinality(Workers) /\ r.failed \in Nat
      BY <1>0, <2>1 DEF Row
    <3> HIDE DEF m, n, r
    <3>3. r.failed + m < MaximumAttempts(k) + Cardinality(Workers)
      BY <1>0, <3>1, <3>2
    <3> QED  BY <3>3 DEF m
  <2> QED  BY <1>0, <1>2, <1>3, <2>1, <2>3 DEF ExcessOk, MaximumAttempts, Row
<1>4. CASE r.failed >= MaximumAttempts(k) /\ r.until >= end
  <2>1. r.failed + Cardinality(PendingBefore(k, end)) < MaximumAttempts(k) + 2 * Cardinality(Workers)
    BY <1>4 DEF ExcessOk
  <2>2. end \in Int /\ end <= r.until
    BY <1>0, <1>4 DEF Row
  <2>3. r.failed + Cardinality(PendingBefore(k, end)') < MaximumAttempts(k) + 2 * Cardinality(Workers)
    <3> DEFINE m == Cardinality(PendingBefore(k, end)')
               n == Cardinality(PendingBefore(k, end))
    <3>1. m <= n /\ m \in Nat /\ n \in Nat
      BY <1>1, <2>2
    <3>2. r.failed + n < MaximumAttempts(k) + 2 * Cardinality(Workers) /\ r.failed \in Nat
      BY <1>0, <2>1 DEF Row
    <3> HIDE DEF m, n, r
    <3>3. r.failed + m < MaximumAttempts(k) + 2 * Cardinality(Workers)
      BY <1>0, <3>1, <3>2
    <3> QED  BY <3>3 DEF m
  <2> QED  BY <1>0, <1>2, <1>4, <2>3 DEF ExcessOk, MaximumAttempts, Row
<1>5. CASE r.failed < MaximumAttempts(k)
  BY <1>0, <1>2, <1>5 DEF ExcessOk, MaximumAttempts, Row
<1> QED  BY <1>0, <1>3, <1>4, <1>5 DEF Row

\* A commit turns one pending request into one failure.
LEMMA ExcessCounted ==
  ASSUME IInv, IsFiniteSet(Workers), Block >= Window, MaxDelay < Block,
         NEW k \in Keys, ExcessOk(k), NEW w \in Workers, Commit(w), k \in {req[w].user, req[w].source}
  PROVE  ExcessOk(k)'
<1> DEFINE t == time[w]
           limit == MaximumAttempts(k)
           all == Cardinality(Workers)
           old == rows[k]
           new == rows'[k]
           end == new.start + Window
           Rest(s) == {v \in Pending(k)' : time'[v] < s}
           weak == Cardinality(Rest(end - Block))
           left == Cardinality(Rest(end))
<1>0. /\ t \in Nat /\ t <= now /\ now <= t + MaxDelay /\ now' = now /\ now \in Nat
      /\ new = Counted(old, k, t) /\ old \in Row \cup {None}
      /\ time \in [Workers -> Nat]
  BY WrittenIsCounted DEF IInv, TypeInv, WorkerOk, Commit
<1>1. /\ Block \in Nat /\ Window \in Nat \ {0} /\ MaxDelay \in Nat /\ limit \in Nat \ {0} /\ all \in Nat
  BY BlockAssumption, WindowAssumption, MaxDelayAssumption, UserAttemptsAssumption,
     SourceAttemptsAssumption, FS_CardinalityType DEF MaximumAttempts
<1> HIDE DEF Rest
<1>2. new \in Row /\ (new.failed >= limit => new.until >= t + Block)
  BY <1>0, CountedIsRow, CountedBlocks
<1>3. new # None
  BY <1>2, KeysAssumption DEF Row
\* The worker is no longer pending, and nobody else has become so.
<1>4. w \in Pending(k) /\ w \notin Pending(k)' /\ Pending(k)' \subseteq Pending(k)
  <2>1. pc[w] = "commit" /\ pc'[w] = "idle"
    BY DEF Commit, End, Goto, IInv, TypeInv
  <2>2. req[w].user \in Users /\ req[w].source \in Sources
    BY <2>1 DEF IInv, WorkerOk, Requests
  <2>3. w \in Pending(k) /\ w \notin Pending(k)'
    BY <2>1, <2>2, KeysAssumption DEF Pending
  <2>4. Act(w)
    BY DEF Act, Proceed
  <2>5. ASSUME NEW v \in Pending(k)'
        PROVE  v \in Pending(k)
    <3>1. v \in Workers
      BY DEF Pending
    <3> QED  BY <2>1, <2>4, <2>5, <3>1, PendingStep
  <2> QED  BY <2>3, <2>5
<1>5. ASSUME NEW s \in Int
      PROVE  /\ Cardinality(Rest(s)) \in Nat /\ Cardinality(PendingBefore(k, s)) \in Nat
             /\ Cardinality(Rest(s)) + 1 <= all
             /\ t < s => Cardinality(Rest(s)) + 1 <= Cardinality(PendingBefore(k, s))
  <2>1. w \notin Rest(s) /\ Rest(s) \subseteq Workers /\ PendingBefore(k, s) \subseteq Workers
    BY <1>4 DEF Rest, PendingBefore, Pending
  <2>2. \A v \in Workers : v # w => time'[v] = time[v]
    BY OthersFrame DEF Act, Proceed
  <2>3. Rest(s) \subseteq PendingBefore(k, s)
    BY <1>4, <2>1, <2>2 DEF Rest, PendingBefore, Pending
  <2>4. t < s => w \in PendingBefore(k, s)
    BY <1>4 DEF PendingBefore
  <2>5. Cardinality(Rest(s)) + 1 <= all
    BY <2>1, WorkersCounted
  <2>6. /\ Cardinality(Rest(s)) \in Nat /\ Cardinality(PendingBefore(k, s)) \in Nat
        /\ w \in PendingBefore(k, s) => Cardinality(Rest(s)) + 1 <= Cardinality(PendingBefore(k, s))
    BY <2>1, <2>3, WorkersCounted
  <2> QED  BY <2>4, <2>5, <2>6
<1>6. /\ end \in Int /\ end - Block \in Int
      /\ weak \in Nat /\ weak + 1 <= all /\ left \in Nat /\ left + 1 <= all
  <2>1. end \in Int /\ end - Block \in Int
    BY <1>1, <1>2 DEF Row
  <2> HIDE DEF end
  <2> QED  BY <1>5, <2>1
<1>7. /\ new.start <= now
      /\ new.failed >= limit /\ new.until < end =>
           new.start + Block <= new.until + MaxDelay /\ new.failed + weak < limit + all
      /\ new.failed >= limit /\ new.until >= end => new.failed + left < limit + 2 * all
  <2>1. CASE old = None \/ t - old.start >= Window
    <3>1. new.start = t /\ new.failed = 1
      BY <1>0, <2>1, CountedFirst
    <3> HIDE DEF new, weak, left, limit, all, t
    <3> QED  BY <1>0, <1>1, <1>2, <1>6, <3>1 DEF Row
  <2>2. CASE old # None /\ t - old.start < Window
    <3>1. new.start = old.start /\ new.failed = old.failed + 1 /\ new.until >= old.until
      BY <1>0, <2>2, CountedNext
    <3>2. old \in Row /\ old.start <= now
      BY <1>0, <2>2 DEF ExcessOk
    <3>3. CASE old.failed < limit
      <4> HIDE DEF new, old, weak, left, limit, all, t
      <4> QED  BY <1>0, <1>1, <1>2, <1>6, <2>2, <3>1, <3>2, <3>3 DEF Row
    <3>4. CASE old.failed >= limit /\ old.until < old.start + Window
      <4>1. /\ old.start + Block <= old.until + MaxDelay
            /\ old.failed + Cardinality(PendingBefore(k, end - Block)) < limit + all
        BY <2>2, <3>1, <3>4 DEF ExcessOk
      <4>2. /\ Cardinality(PendingBefore(k, end - Block)) \in Nat
            /\ t < end - Block => weak + 1 <= Cardinality(PendingBefore(k, end - Block))
        <5> HIDE DEF end, t
        <5> QED  BY <1>5, <1>6
      <4> DEFINE before == Cardinality(PendingBefore(k, end - Block))
      <4> HIDE DEF new, old, weak, left, limit, all, t, before
      <4>3. before \in Nat /\ old.failed + before < limit + all /\ (t < end - Block => weak + 1 <= before)
        BY <4>1, <4>2 DEF before
      <4>4. CASE new.until < end
        <5>1. t < end - Block
          BY <1>0, <1>1, <1>2, <3>1, <3>2, <3>4, <4>4 DEF Row
        <5> QED  BY <1>0, <1>1, <1>2, <1>6, <3>1, <3>2, <4>1, <4>3, <4>4, <5>1 DEF Row
      <4>5. CASE new.until >= end
        BY <1>0, <1>1, <1>2, <1>6, <3>1, <3>2, <4>3, <4>5 DEF Row
      <4> QED  BY <1>2, <1>6, <4>4, <4>5 DEF Row
    <3>5. CASE old.failed >= limit /\ old.until >= old.start + Window
      <4>1. old.failed + Cardinality(PendingBefore(k, end)) < limit + 2 * all
        BY <2>2, <3>1, <3>5 DEF ExcessOk
      <4>2. /\ Cardinality(PendingBefore(k, end)) \in Nat
            /\ t < end => left + 1 <= Cardinality(PendingBefore(k, end))
        <5> HIDE DEF end, t
        <5> QED  BY <1>5, <1>6
      <4> DEFINE before == Cardinality(PendingBefore(k, end))
      <4> HIDE DEF new, old, weak, left, limit, all, t, before
      <4>3. before \in Nat /\ old.failed + before < limit + 2 * all /\ (t < end => left + 1 <= before)
        BY <4>1, <4>2 DEF before
      <4>4. t < end
        BY <1>0, <1>1, <2>2, <3>1, <3>2 DEF Row
      <4> QED  BY <1>0, <1>1, <1>2, <1>6, <3>1, <3>2, <3>5, <4>3, <4>4 DEF Row
    <3> QED  BY <1>1, <3>2, <3>3, <3>4, <3>5 DEF Row
  <2> HIDE DEF new, weak, left, limit, t, all
  <2>3. t - old.start < Window \/ t - old.start >= Window \/ old = None
    BY <1>0, <1>1 DEF Row
  <2> QED  BY <2>1, <2>2, <2>3
<1>8. /\ weak = Cardinality(PendingBefore(k, (rows[k].start + Window) - Block))'
      /\ left = Cardinality(PendingBefore(k, rows[k].start + Window))'
  <2>1. PendingBefore(k, (rows[k].start + Window) - Block)' = Rest(end - Block)
    BY DEF Rest, PendingBefore
  <2>2. PendingBefore(k, rows[k].start + Window)' = Rest(end)
    BY DEF Rest, PendingBefore
  <2> QED  BY <2>1, <2>2
<1> DEFINE weakly == Cardinality(PendingBefore(k, (rows[k].start + Window) - Block))
           strongly == Cardinality(PendingBefore(k, rows[k].start + Window))
<1>9. /\ rows'[k].start <= now'
      /\ rows'[k].failed >= limit /\ rows'[k].until < rows'[k].start + Window =>
           rows'[k].start + Block <= rows'[k].until + MaxDelay /\ rows'[k].failed + weakly' < limit + all
      /\ rows'[k].failed >= limit /\ rows'[k].until >= rows'[k].start + Window =>
           rows'[k].failed + strongly' < limit + 2 * all
  <2> HIDE DEF weak, left, limit, all
  <2> QED  BY <1>0, <1>7, <1>8
<1> QED  BY <1>9 DEF ExcessOk, MaximumAttempts

LEMMA ExcessStep ==
  ASSUME IInv, [Next]_vars, IInv', IsFiniteSet(Workers), Block >= Window, MaxDelay < Block,
         NEW k \in Keys, ExcessOk(k)
  PROVE  ExcessOk(k)'
<1>0. now \in Nat /\ now' \in Nat /\ time' \in [Workers -> Nat] /\ time \in [Workers -> Nat]
  BY DEF IInv, TypeInv
<1>1. CASE rows'[k] = None
  BY <1>1 DEF ExcessOk
<1>2. ASSUME NEW w \in Workers, Commit(w), k \in {req[w].user, req[w].source}
      PROVE  ExcessOk(k)'
  BY <1>2, ExcessCounted
<1>3. ASSUME NEW w \in Workers, Act(w), ~ (Commit(w) /\ k \in {req[w].user, req[w].source}), rows'[k] # None
      PROVE  ExcessOk(k)'
  <2>1. rows'[k] = rows[k] /\ now' = now
    <3>1. CASE Commit(w)
      BY <1>3, <3>1 DEF Commit
    <3>2. CASE Clear(w)
      BY <1>3, <3>2 DEF Clear, IInv, TypeInv
    <3>3. CASE ~ Commit(w) /\ ~ Clear(w)
      BY <1>3, <3>3 DEF Act, Proceed, RefuseUser, Begin, CheckSource, RefuseSource, Verify, LockUser,
        FlushUser, LockSource, Lose, Kill, vars, keysOf
    <3> QED  BY <3>1, <3>2, <3>3
  <2>2. ASSUME NEW v \in Workers, v \in Pending(k)'
        PROVE  (v \in Pending(k) /\ time'[v] >= time[v]) \/ rows[k].until <= time'[v]
    BY <1>3, <2>1, <2>2, PendingStep
  <2> QED  BY <1>0, <1>3, <2>1, <2>2, ExcessKept
<1>4. CASE World /\ rows'[k] # None
  <2>1. UNCHANGED <<pc, req, time>> /\ now' \in {now, now + 1}
    BY <1>4, WorldFrame DEF workersOf
  <2>2. rows'[k] = rows[k]
    BY <1>4, WorldFrame
  <2>3. \A v \in Workers : v \in Pending(k)' => v \in Pending(k) /\ time'[v] >= time[v]
    BY <1>0, <2>1 DEF Pending
  <2> QED  BY <1>0, <1>4, <2>1, <2>2, <2>3, ExcessKept
<1> QED  BY <1>1, <1>2, <1>3, <1>4, Steps

\* However many workers there are, a counter exceeds its limit by less than two
\* rounds of them, if a block is at least as long as the window and longer than
\* a request: those that passed the check before the limit was reached, and
\* those admitted after a block that a late failure has dated back
\* (auth/rate_limit.py, check_login_allowed and record_login_failure).
THEOREM ExcessIsBounded ==
  ASSUME IsFiniteSet(Workers), Block >= Window, MaxDelay < Block
  PROVE  Spec => []ExcessBounded
<1> DEFINE XInv == IInv /\ \A k \in Keys : ExcessOk(k)
<1>1. Init => XInv
  BY InitInductive DEF Init, ExcessOk
<1>2. XInv /\ [Next]_vars => XInv'
  <2> SUFFICES ASSUME XInv, [Next]_vars PROVE XInv'
    OBVIOUS
  <2>1. IInv'
    BY InductiveStep
  <2>2. \A k \in Keys : ExcessOk(k)'
    BY <2>1, ExcessStep
  <2> QED  BY <2>1, <2>2 DEF Keys
<1>3. XInv => ExcessBounded
  <2> SUFFICES ASSUME XInv, NEW k \in Keys, rows[k] # None
               PROVE  rows[k].failed < MaximumAttempts(k) + 2 * Cardinality(Workers)
    BY DEF ExcessBounded
  <2> DEFINE r == rows[k]
             end == r.start + Window
             limit == MaximumAttempts(k)
             all == Cardinality(Workers)
             weak == Cardinality(PendingBefore(k, end - Block))
             left == Cardinality(PendingBefore(k, end))
  <2>1. r \in Row /\ limit \in Nat \ {0} /\ all \in Nat /\ Window \in Nat /\ Block \in Nat
    BY WindowAssumption, BlockAssumption, UserAttemptsAssumption, SourceAttemptsAssumption,
       FS_CardinalityType DEF IInv, TypeInv, MaximumAttempts
  <2>2. weak \in Nat /\ left \in Nat
    <3>1. PendingBefore(k, end - Block) \subseteq Workers /\ PendingBefore(k, end) \subseteq Workers
      BY DEF PendingBefore, Pending
    <3> QED  BY <3>1, WorkersCounted
  <2>3. /\ r.failed >= limit /\ r.until < end => r.failed + weak < limit + all
        /\ r.failed >= limit /\ r.until >= end => r.failed + left < limit + 2 * all
    BY DEF ExcessOk
  <2> HIDE DEF r, limit, all, weak, left
  <2> QED
    <3>1. r.failed < limit + 2 * all
      BY <2>1, <2>2, <2>3 DEF Row
    <3> QED  BY <3>1 DEF r, limit, all
<1> QED  BY <1>1, <1>2, <1>3, PTL DEF Spec

-----------------------------------------------------------------------------
(* The failures that a counter misses.                                     *)

\* The workers that found no row of k, and have not tried to write theirs: each of
\* them can still be refused, once.
Late(k) ==
  {w \in Workers : /\ \/ pc[w] = "flushUser" /\ req[w].user = k
                      \/ pc[w] = "commit" /\ req[w].source = k
                   /\ owner[k] # w}

\* Since the row was inserted nobody has become late.
MissedOk(k) ==
  /\ rows[k] = None => missed[k] = 0
  /\ rows[k] # None => missed[k] + Cardinality(Late(k)) < Cardinality(Workers)

\* Once there is a row, a worker that reads it holds it until its request ends.
LEMMA NobodyBecomesLate ==
  ASSUME IInv, [Next]_vars, NEW k \in Keys, rows[k] # None
  PROVE  Late(k)' \subseteq Late(k)
<1> USE DEF TypeInv, keysOf, workersOf
<1>0. TypeInv /\ None \notin Workers
  BY KeysAssumption DEF IInv
<1> SUFFICES ASSUME NEW v \in Workers, v \in Late(k)' PROVE v \in Late(k)
  BY DEF Late
<1>1. ASSUME NEW w \in Workers, Act(w), w # v
      PROVE  v \in Late(k)
  <2>1. pc'[v] = pc[v] /\ req'[v] = req[v] /\ (owner'[k] = v <=> owner[k] = v)
    BY <1>1, OthersFrame
  <2> QED  BY <2>1 DEF Late
<1>2. CASE LockUser(v)
  <2>1. pc'[v] = "flushUser" /\ req'[v] = req[v] /\ ReadForUpdate(v, req[v].user, "flushUser")
    BY <1>0, <1>2 DEF LockUser, ReadForUpdate, Goto
  <2>2. k = req[v].user
    BY <2>1 DEF Late
  <2>3. owner'[k] = v
    BY <1>0, <2>1, <2>2 DEF ReadForUpdate
  <2> QED  BY <2>3 DEF Late
<1>3. CASE LockSource(v)
  <2>1. pc'[v] = "commit" /\ req'[v] = req[v] /\ ReadForUpdate(v, req[v].source, "commit")
    BY <1>0, <1>3 DEF LockSource, ReadForUpdate, Goto
  <2>2. k = req[v].source
    BY <2>1 DEF Late
  <2>3. owner'[k] = v
    BY <1>0, <2>1, <2>2 DEF ReadForUpdate
  <2> QED  BY <2>3 DEF Late
<1>4. CASE RefuseUser(v)
  BY <1>4 DEF RefuseUser, vars, Late
<1>5. CASE Begin(v) \/ CheckSource(v) \/ Verify(v) \/ FlushUser(v)
  <2>1. pc'[v] \notin {"flushUser", "commit"}
    BY <1>0, <1>5 DEF Begin, CheckSource, Verify, FlushUser, Goto
  <2> QED  BY <2>1 DEF Late
<1>6. CASE RefuseSource(v) \/ Clear(v) \/ Commit(v) \/ Lose(v) \/ Kill(v)
  <2>1. pc'[v] = "idle"
    BY <1>0, <1>6 DEF RefuseSource, Clear, Commit, Lose, Kill, End, Goto
  <2> QED  BY <2>1 DEF Late
<1>7. CASE World
  <2>1. pc'[v] = pc[v] /\ req'[v] = req[v] /\ (owner'[k] = v <=> owner[k] = v)
    BY <1>7, WorldFrame
  <2> QED  BY <2>1 DEF Late
<1> QED  BY <1>1, <1>2, <1>3, <1>4, <1>5, <1>6, <1>7, Steps DEF Act, Proceed

LEMMA MissedStep ==
  ASSUME IInv, IInv', [Next]_vars, IsFiniteSet(Workers), NEW k \in Keys, MissedOk(k)
  PROVE  MissedOk(k)'
<1> DEFINE late == Cardinality(Late(k))
           all == Cardinality(Workers)
<1>0. /\ TypeInv /\ missed[k] \in Nat /\ missed'[k] \in Nat /\ None \notin Workers
      /\ Late(k) \subseteq Workers /\ Late(k)' \subseteq Workers
  BY KeysAssumption DEF IInv, TypeInv, Late
<1>1. late \in Nat /\ late' \in Nat /\ all \in Nat
  <2>1. Cardinality(Late(k)) \in Nat /\ Cardinality(Late(k)') \in Nat /\ Cardinality(Workers) \in Nat
    BY <1>0, WorkersCounted
  <2> QED  BY <2>1
\* The row is inserted: its worker is not late.
<1>2. ASSUME NEW w \in Workers, Commit(w), rows[k] = None, rows'[k] # None
      PROVE  MissedOk(k)'
  <2>1. missed'[k] = 0
    BY <1>2 DEF Commit, MissedOk
  <2>2. w \notin Late(k)'
    BY <1>0, <1>2 DEF Late, Commit, End, Goto, TypeInv
  <2>3. Cardinality(Late(k)') + 1 <= Cardinality(Workers)
    BY <1>0, <1>2, <2>2, WorkersCounted
  <2>4. missed'[k] + Cardinality(Late(k)') < Cardinality(Workers)
    <3> DEFINE m == Cardinality(Late(k)')
               n == Cardinality(Workers)
    <3>1. m + 1 <= n /\ m \in Nat /\ n \in Nat
      BY <1>1, <2>3
    <3> HIDE DEF m, n
    <3>2. missed'[k] + m < n
      BY <2>1, <3>1
    <3> QED  BY <3>2 DEF m, n
  <2> QED  BY <1>2, <2>4 DEF MissedOk
\* A late worker is refused.
<1>3. ASSUME NEW w \in Workers, Lose(w), k = Contested(w)
      PROVE  MissedOk(k)'
  <2>1. rows' = rows /\ rows[k] # None /\ missed'[k] = missed[k] + 1
    BY <1>0, <1>3 DEF Lose, Conflict, TypeInv
  <2>2. w \in Late(k)
    BY <1>0, <1>3 DEF Lose, Conflict, Contested, Late
  <2>3. w \notin Late(k)'
    BY <1>0, <1>3 DEF Lose, End, Goto, Late, TypeInv
  <2>4. Cardinality(Late(k)') + 1 <= Cardinality(Late(k))
    BY <1>0, <2>1, <2>2, <2>3, NobodyBecomesLate, WorkersCounted
  <2>5. missed'[k] + late' < all
    <3>1. missed[k] + late < all
      BY <2>1 DEF MissedOk
    <3>2. late' + 1 <= late
      BY <2>4
    <3> HIDE DEF late, all
    <3> QED  BY <1>0, <1>1, <2>1, <3>1, <3>2
  <2> QED  BY <2>1, <2>5 DEF MissedOk
\* The row stays, or goes.
<1>4. ASSUME \/ rows[k] # None /\ rows'[k] # None /\ missed'[k] = missed[k]
             \/ rows'[k] = None /\ (missed'[k] = 0 \/ (rows[k] = None /\ missed'[k] = missed[k]))
      PROVE  MissedOk(k)'
  <2>1. CASE rows'[k] = None
    BY <1>4, <2>1 DEF MissedOk
  <2>2. CASE rows[k] # None /\ rows'[k] # None /\ missed'[k] = missed[k]
    <3>1. Cardinality(Late(k)') <= Cardinality(Late(k))
      BY <1>0, <2>2, NobodyBecomesLate, WorkersCounted
    <3>2. missed'[k] + late' < all
      <4>1. missed[k] + late < all
        BY <2>2 DEF MissedOk
      <4>2. late' <= late
        BY <3>1
      <4> HIDE DEF late, all
      <4> QED  BY <1>0, <1>1, <2>2, <4>1, <4>2
    <3> QED  BY <2>2, <3>2 DEF MissedOk
  <2> QED  BY <1>4, <2>1, <2>2
<1>5. ASSUME NEW w \in Workers, Act(w)
      PROVE  MissedOk(k)'
  <2>1. CASE Clear(w)
    BY <1>0, <1>4, <2>1 DEF Clear, TypeInv, MissedOk
  <2>2. CASE Commit(w)
    <3>1. missed' = missed /\ (rows'[k] = rows[k] \/ k \in {req[w].user, req[w].source})
      BY <2>2 DEF Commit
    <3>2. CASE rows'[k] = None
      <4>1. k \notin {req[w].user, req[w].source}
        <5> SUFFICES ASSUME k \in {req[w].user, req[w].source} PROVE FALSE
          OBVIOUS
        <5>1. rows'[k] = Counted(rows[k], k, time[w])
          BY <2>2, WrittenIsCounted
        <5>2. Counted(rows[k], k, time[w]) \in Row
          BY <1>0, CountedIsRow DEF TypeInv
        <5> QED  BY <3>2, <5>1, <5>2, KeysAssumption DEF Row
      <4>2. rows[k] = None /\ missed'[k] = missed[k]
        BY <3>1, <3>2, <4>1
      <4> QED  BY <1>4, <3>2, <4>2
    <3> QED  BY <1>2, <1>4, <2>2, <3>1, <3>2
  <2>3. CASE Lose(w)
    <3>1. CASE k # Contested(w)
      BY <1>0, <1>4, <2>3, <3>1 DEF Lose, TypeInv
    <3> QED  BY <1>3, <2>3, <3>1
  <2>4. CASE ~ Clear(w) /\ ~ Commit(w) /\ ~ Lose(w)
    <3>1. rows' = rows /\ missed' = missed
      BY <1>5, <2>4 DEF Act, Proceed, RefuseUser, Begin, CheckSource, RefuseSource, Verify, LockUser,
        FlushUser, LockSource, Kill, vars, keysOf
    <3> QED  BY <1>4, <3>1
  <2> QED  BY <2>1, <2>2, <2>3, <2>4
<1>6. CASE World
  <2>1. \/ rows'[k] = rows[k] /\ missed'[k] = missed[k]
        \/ rows'[k] = None /\ missed'[k] = 0
    BY <1>6, WorldFrame
  <2>2. CASE rows'[k] = None
    <3>1. missed'[k] = 0 \/ (rows[k] = None /\ missed'[k] = missed[k])
      BY <2>1, <2>2
    <3> QED  BY <2>2, <3>1 DEF MissedOk
  <2>3. CASE rows'[k] # None
    BY <1>4, <2>1, <2>3
  <2> QED  BY <2>2, <2>3
<1> QED  BY <1>5, <1>6, Steps

\* However many workers there are, no increment is overwritten, and while a
\* counter's row lives, fewer failures than there are workers are refused by the
\* unique constraint (auth/rate_limit.py, record_login_failure).
THEOREM FewFailuresMissed ==
  ASSUME IsFiniteSet(Workers)
  PROVE  Spec => []MissesFewFailures
<1> DEFINE XInv == IInv /\ \A k \in Keys : MissedOk(k)
<1>1. Init => XInv
  BY InitInductive DEF Init, MissedOk
<1>2. XInv /\ [Next]_vars => XInv'
  <2> SUFFICES ASSUME XInv, [Next]_vars PROVE XInv'
    OBVIOUS
  <2>1. IInv'
    BY InductiveStep
  <2>2. \A k \in Keys : MissedOk(k)'
    BY <2>1, MissedStep
  <2> QED  BY <2>1, <2>2 DEF Keys
<1>3. XInv => MissesFewFailures
  <2> SUFFICES ASSUME XInv, NEW k \in Keys, rows[k] # None
               PROVE  rows[k].failed = tally[k] /\ missed[k] < Cardinality(Workers)
    BY DEF MissesFewFailures
  <2>1. rows[k].failed = tally[k]
    BY DEF IInv, RowOk
  <2>2. missed[k] + Cardinality(Late(k)) < Cardinality(Workers)
    BY DEF MissedOk
  <2>3. Cardinality(Late(k)) \in Nat /\ missed[k] \in Nat /\ Cardinality(Workers) \in Nat
    <3>1. Late(k) \subseteq Workers
      BY DEF Late
    <3> QED  BY <3>1, WorkersCounted DEF IInv, TypeInv
  <2>4. missed[k] < Cardinality(Workers)
    <3> DEFINE late == Cardinality(Late(k))
    <3> HIDE DEF late
    <3>1. missed[k] + late < Cardinality(Workers) /\ late \in Nat
      BY <2>2, <2>3 DEF late
    <3> QED  BY <2>3, <3>1
  <2> QED  BY <2>1, <2>4
<1> QED  BY <1>1, <1>2, <1>3, PTL DEF Spec

=============================================================================
