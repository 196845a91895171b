----------------------------- MODULE EngineCache -----------------------------
(***************************************************************************)
(* The evaluator cache of the web application for one device:              *)
(* ensure_engine in client/routes.py, run by each worker process on each   *)
(* request, over the readers of engine/snapshot_store.py.  The snapshot    *)
(* directory is the register of ActiveSnapshot (SnapshotStore implements   *)
(* it).  A request reads the pointer, then looks at the directory, and     *)
(* when it reloads reads the pointer a second time; publications and the   *)
(* removal of old snapshots go on in between.  A worker serves one request *)
(* at a time (Gunicorn's synchronous workers).                             *)
(***************************************************************************)
EXTENDS ActiveSnapshot, FiniteSets

CONSTANTS
  Workers,       \* web worker processes, each with its own _engines
  Keep,          \* snapshots that retention leaves
  Unavailable,   \* the answer 503
  MaxRestarts    \* bound: restarts of workers

ASSUME KeepAssumption == Keep \in Nat \ {0}
ASSUME IdsAssumption == Ids \subseteq Nat /\ None \notin Ids /\ Unavailable \notin Ids

VARIABLES
  cache,     \* _engines[device.id].snapshot_id, None when there is no engine
  wpc,       \* where the worker's request is
  wid,       \* the id the request read from the pointer last
  answer,    \* the snapshot the worker's last request was answered from
  seen,      \* history: the values the pointer had during that request
  restarts

workerVars == <<cache, wpc, wid, answer, seen, restarts>>
vars == <<storeVars, workerVars>>

Init ==
  /\ StoreInit
  /\ cache = [w \in Workers |-> None]
  /\ wpc = [w \in Workers |-> "idle"]
  /\ wid = [w \in Workers |-> None]
  /\ answer = [w \in Workers |-> None]
  /\ seen = [w \in Workers |-> {}]
  /\ restarts = 0

(***************************************************************************)
(* The directory: snapshots are activated in the order of their ids, and   *)
(* retention discards what is not among the newest Keep.                   *)
(***************************************************************************)
Publish ==
  \E i \in Ids :
    /\ i # active /\ \A j \in spent : j <= i
    /\ Activate(i)
    /\ seen' = [w \in Workers |-> IF wpc[w] = "idle" THEN seen[w] ELSE seen[w] \cup {i}]
    /\ UNCHANGED <<cache, wpc, wid, answer, restarts>>

Prune ==
  \E i \in Ids :
    /\ Cardinality({j \in intact : j > i}) >= Keep
    /\ Discard(i)
    /\ UNCHANGED workerVars

Collection ==
  \E i \in Ids :
    /\ \A j \in spent : j < i
    /\ Appear(i) \/ GiveUp(i)
    /\ UNCHANGED workerVars

(***************************************************************************)
(* ensure_engine(device)                                                   *)
(***************************************************************************)

\* active_snapshot_id: the pointer is read.
ReadPointer(w) ==
  /\ wpc[w] = "idle"
  /\ wid' = [wid EXCEPT ![w] = active]
  /\ seen' = [seen EXCEPT ![w] = {active}]
  /\ wpc' = [wpc EXCEPT ![w] = "check"]
  /\ UNCHANGED <<storeVars, cache, answer, restarts>>

Respond(w, x) ==
  /\ answer' = [answer EXCEPT ![w] = x]
  /\ wpc' = [wpc EXCEPT ![w] = "idle"]
  /\ wid' = [wid EXCEPT ![w] = None]

\* active_snapshot_id: the directory is looked up.  Of a snapshot that has
\* been discarded meanwhile the directory may be gone or may still be there.
DirectoryMissing(w) == wid[w] \notin intact

\* Faulty: an engine, once loaded, is never compared with the pointer.
NeedsFirstLoad(w, current) == cache[w] = None

NeedsReload(w, current) ==
  cache[w] = None \/ (current # None /\ cache[w] # current)

CheckDirectory(w) ==
  /\ wpc[w] = "check"
  /\ \E current \in {wid[w], None} :
       /\ current = None => DirectoryMissing(w)
       /\ IF NeedsReload(w, current)
            THEN wpc' = [wpc EXCEPT ![w] = "reload"] /\ UNCHANGED <<wid, answer>>
            ELSE Respond(w, cache[w])
  /\ UNCHANGED <<storeVars, cache, seen, restarts>>

\* Faulty: takes whatever complete directory the listing yields.
ResolveAnyDirectory(w) ==
  /\ wpc[w] = "reload"
  /\ wid' \in {[wid EXCEPT ![w] = i] : i \in intact \cup {None}}
  /\ wpc' = [wpc EXCEPT ![w] = "load"]
  /\ UNCHANGED <<storeVars, cache, answer, seen, restarts>>

\* SecureTrackLite(data_root) resolves the pointer again ...
Resolve(w) ==
  /\ wpc[w] = "reload"
  /\ wid' = [wid EXCEPT ![w] = active]
  /\ wpc' = [wpc EXCEPT ![w] = "load"]
  /\ UNCHANGED <<storeVars, cache, answer, seen, restarts>>

\* ... and verifies and reads every file.  A snapshot discarded meanwhile may
\* have been read in time or not.
LoadEngine(w) ==
  /\ wpc[w] = "load" /\ wid[w] # None
  /\ cache' = [cache EXCEPT ![w] = wid[w]]
  /\ Respond(w, wid[w])
  /\ UNCHANGED <<storeVars, seen, restarts>>

\* Faulty: the load is tried again until it works.
LoadRetried(w) ==
  /\ wpc[w] = "load" /\ wid[w] \notin intact
  /\ wpc' = [wpc EXCEPT ![w] = "reload"]
  /\ UNCHANGED <<storeVars, cache, wid, answer, seen, restarts>>

\* The except clause: the cached engine is dropped, the request answered 503.
LoadFails(w) ==
  /\ wpc[w] = "load" /\ wid[w] \notin intact
  /\ cache' = [cache EXCEPT ![w] = None]
  /\ Respond(w, Unavailable)
  /\ UNCHANGED <<storeVars, seen, restarts>>

\* A worker is killed and replaced by one with an empty cache.
Restart(w) ==
  /\ restarts < MaxRestarts
  /\ restarts' = restarts + 1
  /\ cache' = [cache EXCEPT ![w] = None]
  /\ answer' = [answer EXCEPT ![w] = None]
  /\ wpc' = [wpc EXCEPT ![w] = "idle"]
  /\ wid' = [wid EXCEPT ![w] = None]
  /\ seen' = [seen EXCEPT ![w] = {}]
  /\ UNCHANGED storeVars

RequestStep(w) == CheckDirectory(w) \/ Resolve(w) \/ LoadEngine(w) \/ LoadFails(w)

Next ==
  \/ Publish \/ Prune \/ Collection
  \/ \E w \in Workers : ReadPointer(w) \/ RequestStep(w) \/ Restart(w)

\* A request that began is carried on.
Spec == Init /\ [][Next]_vars /\ \A w \in Workers : WF_vars(RequestStep(w))

(***************************************************************************)
(* Properties                                                              *)
(***************************************************************************)

Answered(w) == wpc[w] = "idle" /\ answer[w] # None

\* A request during which no snapshot is published is answered from the active
\* one: no cached engine, and no earlier failed reload, makes it stale or 503.
UndisturbedIsCurrent ==
  \A w \in Workers, i \in Ids : Answered(w) /\ seen[w] = {i} => answer[w] = i

\* Two answers that follow each other never go back to an older snapshot, and
\* neither does the engine a worker keeps, however its requests interleave
\* with publications and pruning (no rollback here).
AnswersMoveForward ==
  [][\A w \in Workers :
       /\ cache[w] # None /\ cache'[w] # None => cache'[w] >= cache[w]
       /\ answer[w] \in Ids /\ answer'[w] \in Ids => answer'[w] >= answer[w]]_vars

\* Every request that began ends.
RequestsEnd == \A w \in Workers : wpc[w] # "idle" ~> wpc[w] = "idle"

\* What the documentation promises of the reload: a request is answered from a
\* snapshot that was active at some moment of the request.
AnswerWasActive ==
  \A w \in Workers : Answered(w) /\ answer[w] \in Ids => answer[w] \in seen[w]

=============================================================================
