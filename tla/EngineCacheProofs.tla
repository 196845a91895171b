-------------------------- MODULE EngineCacheProofs --------------------------
(***************************************************************************)
(* What is proved of EngineCache, for every number of workers, collections *)
(* and restarts.                                                           *)
(***************************************************************************)
EXTENDS EngineCache, TLAPS

TypeInv ==
  /\ active \in Ids \cup {None} /\ intact \subseteq Ids /\ spent \subseteq Ids
  /\ cache \in [Workers -> Ids \cup {None}]
  /\ wpc \in [Workers -> {"idle", "check", "reload", "load"}]
  /\ wid \in [Workers -> Ids \cup {None}]
  /\ answer \in [Workers -> Ids \cup {None, Unavailable}]
  /\ seen \in [Workers -> SUBSET (Ids \cup {None})]

\* The snapshot in force is whole, and one of those that have been collected.
StoreOk == intact \subseteq spent /\ (active # None => active \in intact)

\* A request has seen the pointer as it is; one that has seen a single snapshot
\* has read it.
SeenOk(w) ==
  /\ wpc[w] # "idle" => active \in seen[w]
  /\ \A i \in Ids : wpc[w] \in {"check", "load"} /\ seen[w] = {i} => wid[w] = i
  /\ \A i \in Ids : wpc[w] = "idle" /\ answer[w] # None /\ seen[w] = {i} => answer[w] = i

\* A worker answers from the engine it keeps, which is no newer than the pointer
\* nor than what the request has read of it to load.
CacheOk(w) ==
  /\ cache[w] # None => active # None /\ cache[w] <= active
  /\ wid[w] # None => active # None
  /\ cache[w] # None /\ wpc[w] = "load" => wid[w] # None /\ cache[w] <= wid[w]
  /\ wid[w] # None => wid[w] <= active
  /\ answer[w] \in Ids => cache[w] = answer[w]

IInv ==
  /\ TypeInv /\ StoreOk
  /\ \A w \in Workers : SeenOk(w) /\ CacheOk(w)

-----------------------------------------------------------------------------
(* The steps of the snapshot directory.                                    *)

LEMMA InitInductive == Init => IInv
<1> SUFFICES ASSUME Init PROVE IInv
  OBVIOUS
<1>1. TypeInv /\ StoreOk
  BY DEF Init, StoreInit, TypeInv, StoreOk
<1>2. \A w \in Workers : SeenOk(w) /\ CacheOk(w)
  BY IdsAssumption DEF Init, SeenOk, CacheOk
<1> QED  BY <1>1, <1>2 DEF IInv

\* The pointer moves forward only.
LEMMA PublishStep ==
  ASSUME IInv, Publish
  PROVE  IInv'
<1>0. TypeInv /\ StoreOk /\ Ids \subseteq Nat /\ None \notin Ids
  BY IdsAssumption DEF IInv
<1>1. PICK i \in Ids :
        /\ i # active /\ \A j \in spent : j <= i
        /\ i \in intact /\ active' = i
        /\ UNCHANGED <<intact, spent, cache, wpc, wid, answer, restarts>>
        /\ seen' = [w \in Workers |-> IF wpc[w] = "idle" THEN seen[w] ELSE seen[w] \cup {i}]
  BY DEF Publish, Activate
<1>2. TypeInv'
  <2>1. seen' \in [Workers -> SUBSET (Ids \cup {None})]
    BY <1>0, <1>1 DEF TypeInv
  <2> QED  BY <1>0, <1>1, <2>1 DEF TypeInv
<1>3. StoreOk'
  BY <1>0, <1>1 DEF StoreOk
<1>4. active # None => active \in Nat /\ active <= i /\ active # i
  BY <1>0, <1>1 DEF TypeInv, StoreOk
<1>5. ASSUME NEW w \in Workers
      PROVE  SeenOk(w)'
  <2>0. SeenOk(w) /\ seen'[w] = IF wpc[w] = "idle" THEN seen[w] ELSE seen[w] \cup {i}
    BY <1>1, <1>5 DEF IInv
  <2>1. CASE wpc[w] = "idle"
    BY <1>1, <2>0, <2>1 DEF SeenOk
  <2>2. CASE wpc[w] # "idle"
    <3>1. active \in seen'[w] /\ i \in seen'[w] /\ active # i
      BY <1>1, <2>0, <2>2 DEF SeenOk
    <3> QED  BY <1>1, <2>2, <3>1 DEF SeenOk
  <2> QED  BY <2>1, <2>2
<1>6. ASSUME NEW w \in Workers
      PROVE  CacheOk(w)'
  <2>1. CacheOk(w) /\ cache[w] \in Ids \cup {None} /\ wid[w] \in Ids \cup {None}
    BY <1>6 DEF IInv, TypeInv
  <2>2. i \in Nat /\ i # None
    BY <1>0
  <2>3. ASSUME cache[w] # None
        PROVE  cache[w] <= i
    <3>1. cache[w] \in Nat /\ cache[w] <= active /\ active # None
      BY <1>0, <2>1, <2>3 DEF CacheOk
    <3> QED  BY <1>4, <2>2, <3>1
  <2>4. ASSUME wid[w] # None
        PROVE  wid[w] <= i
    <3>1. wid[w] \in Nat /\ wid[w] <= active /\ active # None
      BY <1>0, <2>1, <2>4 DEF CacheOk
    <3> QED  BY <1>4, <2>2, <3>1
  <2> QED  BY <1>1, <2>1, <2>2, <2>3, <2>4 DEF CacheOk
<1> QED  BY <1>2, <1>3, <1>5, <1>6 DEF IInv

\* Retention spares the snapshot in force; collections leave the pointer alone.
LEMMA DirectoryStep ==
  ASSUME IInv, Prune \/ Collection
  PROVE  IInv'
<1>1. UNCHANGED <<active, cache, wpc, wid, answer, seen>>
  BY DEF Prune, Collection, Discard, Appear, GiveUp, workerVars
<1>2. intact' \subseteq Ids /\ spent' \subseteq Ids /\ StoreOk'
  BY DEF Prune, Collection, Discard, Appear, GiveUp, IInv, TypeInv, StoreOk
<1>3. TypeInv'
  BY <1>1, <1>2 DEF IInv, TypeInv
<1>4. \A w \in Workers : SeenOk(w)' /\ CacheOk(w)'
  BY <1>1 DEF IInv, SeenOk, CacheOk
<1> QED  BY <1>2, <1>3, <1>4 DEF IInv

-----------------------------------------------------------------------------
(* The steps of a worker.                                                  *)

WorkerStep(w) == ReadPointer(w) \/ RequestStep(w) \/ Restart(w)

\* A worker touches neither the directory nor the other workers.
LEMMA WorkerFrame ==
  ASSUME TypeInv, NEW w \in Workers, WorkerStep(w)
  PROVE  /\ TypeInv' /\ UNCHANGED storeVars
         /\ \A v \in Workers \ {w} : /\ cache'[v] = cache[v] /\ wpc'[v] = wpc[v] /\ wid'[v] = wid[v]
                                     /\ answer'[v] = answer[v] /\ seen'[v] = seen[v]
<1> USE DEF TypeInv, storeVars
<1>1. CASE ReadPointer(w)
  BY <1>1 DEF ReadPointer
<1>2. CASE CheckDirectory(w)
  <2>1. CASE wpc' = [wpc EXCEPT ![w] = "reload"] /\ UNCHANGED <<wid, answer>>
    BY <1>2, <2>1 DEF CheckDirectory
  <2>2. CASE Respond(w, cache[w])
    BY <1>2, <2>2 DEF CheckDirectory, Respond
  <2> QED  BY <1>2, <2>1, <2>2 DEF CheckDirectory
<1>3. CASE Resolve(w)
  BY <1>3 DEF Resolve
<1>4. CASE LoadEngine(w)
  BY <1>4 DEF LoadEngine, Respond
<1>5. CASE LoadFails(w)
  BY <1>5 DEF LoadFails, Respond
<1>6. CASE Restart(w)
  BY <1>6 DEF Restart
<1> QED  BY <1>1, <1>2, <1>3, <1>4, <1>5, <1>6 DEF WorkerStep, RequestStep

LEMMA OwnStep ==
  ASSUME IInv, NEW w \in Workers, WorkerStep(w)
  PROVE  SeenOk(w)' /\ CacheOk(w)'
<1>0. /\ TypeInv /\ StoreOk /\ SeenOk(w) /\ CacheOk(w) /\ Ids \subseteq Nat /\ None \notin Ids
      /\ Unavailable \notin Ids
      /\ cache[w] \in Ids \cup {None} /\ wid[w] \in Ids \cup {None} /\ active \in Ids \cup {None}
  BY IdsAssumption DEF IInv, TypeInv
<1>a. active' = active
  BY <1>0, WorkerFrame DEF storeVars
<1> USE DEF TypeInv
<1>1. CASE ReadPointer(w)
  <2>1. /\ wpc'[w] = "check" /\ wid'[w] = active /\ seen'[w] = {active} /\ wpc[w] = "idle"
        /\ cache'[w] = cache[w] /\ answer'[w] = answer[w]
    BY <1>0, <1>1 DEF ReadPointer
  <2>2. active # None => active <= active
    BY <1>0
  <2> QED  BY <1>0, <1>a, <2>1, <2>2 DEF SeenOk, CacheOk
<1>2. CASE CheckDirectory(w)
  <2>1. PICK current \in {wid[w], None} :
          /\ current = None => wid[w] \notin intact
          /\ IF NeedsReload(w, current)
               THEN wpc' = [wpc EXCEPT ![w] = "reload"] /\ UNCHANGED <<wid, answer>>
               ELSE Respond(w, cache[w])
    BY <1>2 DEF CheckDirectory, DirectoryMissing
  <2>2. wpc[w] = "check" /\ UNCHANGED <<cache, seen>>
    BY <1>2 DEF CheckDirectory
  <2>3. CASE NeedsReload(w, current)
    <3>1. wpc'[w] = "reload" /\ wid'[w] = wid[w] /\ answer'[w] = answer[w]
      BY <1>0, <2>1, <2>3
    <3> QED  BY <1>0, <1>a, <2>2, <3>1 DEF SeenOk, CacheOk
  <2>4. CASE ~ NeedsReload(w, current)
    <3>1. wpc'[w] = "idle" /\ wid'[w] = None /\ answer'[w] = cache[w]
      BY <1>0, <2>1, <2>4 DEF Respond
    <3>2. ASSUME NEW i \in Ids, seen[w] = {i}
          PROVE  cache[w] = i
      <4>1. wid[w] = i /\ active = i
        BY <1>0, <2>2, <3>2 DEF SeenOk
      <4>2. current = i
        BY <1>0, <2>1, <3>2, <4>1 DEF StoreOk
      <4> QED  BY <1>0, <2>4, <4>2 DEF NeedsReload
    <3> QED  BY <1>0, <1>a, <2>2, <3>1, <3>2 DEF SeenOk, CacheOk
  <2> QED  BY <2>3, <2>4
<1>3. CASE Resolve(w)
  <2>1. /\ wpc'[w] = "load" /\ wid'[w] = active /\ wpc[w] = "reload"
        /\ UNCHANGED <<cache, answer, seen>>
    BY <1>0, <1>3 DEF Resolve
  <2>2. active # None => active <= active
    BY <1>0
  <2> QED  BY <1>0, <1>a, <2>1, <2>2 DEF SeenOk, CacheOk
<1>4. CASE LoadEngine(w)
  <2>1. /\ wpc[w] = "load" /\ wid[w] # None /\ wpc'[w] = "idle" /\ wid'[w] = None
        /\ cache'[w] = wid[w] /\ answer'[w] = wid[w] /\ seen' = seen
    BY <1>0, <1>4 DEF LoadEngine, Respond
  <2> QED  BY <1>0, <1>a, <2>1 DEF SeenOk, CacheOk
<1>5. CASE LoadFails(w)
  <2>1. /\ wpc[w] = "load" /\ wid[w] \notin intact /\ wpc'[w] = "idle" /\ wid'[w] = None
        /\ cache'[w] = None /\ answer'[w] = Unavailable /\ seen' = seen
    BY <1>0, <1>5 DEF LoadFails, Respond
  <2>2. \A i \in Ids : seen[w] # {i}
    BY <1>0, <2>1 DEF SeenOk, StoreOk
  <2> QED  BY <1>0, <1>a, <2>1, <2>2 DEF SeenOk, CacheOk
<1>6. CASE Restart(w)
  <2>1. wpc'[w] = "idle" /\ wid'[w] = None /\ cache'[w] = None /\ answer'[w] = None
    BY <1>0, <1>6 DEF Restart
  <2> QED  BY <1>0, <1>a, <2>1 DEF SeenOk, CacheOk
<1> QED  BY <1>1, <1>2, <1>3, <1>4, <1>5, <1>6 DEF WorkerStep, RequestStep

LEMMA InductiveStep == IInv /\ [Next]_vars => IInv'
<1> SUFFICES ASSUME IInv, [Next]_vars PROVE IInv'
  OBVIOUS
<1>1. ASSUME NEW w \in Workers, WorkerStep(w)
      PROVE  IInv'
  <2>1. TypeInv' /\ StoreOk'
    BY <1>1, WorkerFrame DEF IInv, StoreOk, storeVars
  <2>2. ASSUME NEW v \in Workers \ {w}
        PROVE  SeenOk(v)' /\ CacheOk(v)'
    <3>1. /\ cache'[v] = cache[v] /\ wpc'[v] = wpc[v] /\ wid'[v] = wid[v]
          /\ answer'[v] = answer[v] /\ seen'[v] = seen[v] /\ active' = active
      BY <1>1, <2>2, WorkerFrame DEF IInv, storeVars
    <3> QED  BY <2>2, <3>1 DEF IInv, SeenOk, CacheOk
  <2> QED  BY <1>1, <2>1, <2>2, OwnStep DEF IInv
<1>2. CASE UNCHANGED vars
  BY <1>2 DEF vars, storeVars, workerVars, IInv, TypeInv, StoreOk, SeenOk, CacheOk
<1> QED  BY <1>1, <1>2, PublishStep, DirectoryStep DEF Next, WorkerStep

-----------------------------------------------------------------------------
(* What a request relies on.                                               *)

\* The inductive invariant.
THEOREM Inductive == Spec => []IInv
  BY InitInductive, InductiveStep, PTL DEF Spec

\* A request that no publication disturbs is answered from the snapshot in force.
THEOREM UndisturbedAnswers == Spec => []UndisturbedIsCurrent
<1>1. IInv => UndisturbedIsCurrent
  BY DEF IInv, SeenOk, UndisturbedIsCurrent, Answered
<1> QED  BY <1>1, Inductive, PTL

\* No worker goes back to an older snapshot.
THEOREM AnswersForward == Spec => AnswersMoveForward
<1> DEFINE Forward ==
      \A w \in Workers :
        /\ cache[w] # None /\ cache'[w] # None => cache'[w] >= cache[w]
        /\ answer[w] \in Ids /\ answer'[w] \in Ids => answer'[w] >= answer[w]
<1>1. ASSUME IInv, [Next]_vars, NEW v \in Workers, cache[v] # None, cache'[v] # None
      PROVE  cache'[v] >= cache[v]
  <2>0. cache[v] \in Nat /\ Ids \subseteq Nat /\ wid[v] \in Ids \cup {None} /\ CacheOk(v)
    BY <1>1, IdsAssumption DEF IInv, TypeInv
  <2>1. CASE cache'[v] = cache[v]
    BY <2>0, <2>1
  <2>2. CASE LoadEngine(v)
    <3>1. wpc[v] = "load" /\ wid[v] # None /\ cache'[v] = wid[v]
      BY <1>1, <2>2 DEF LoadEngine, IInv, TypeInv
    <3> QED  BY <1>1, <2>0, <3>1 DEF CacheOk
  <2>3. CASE LoadFails(v) \/ Restart(v)
    BY <1>1, <2>3 DEF LoadFails, Restart, IInv, TypeInv
  <2>4. CASE ReadPointer(v) \/ CheckDirectory(v) \/ Resolve(v)
    BY <2>1, <2>4 DEF ReadPointer, CheckDirectory, Resolve
  <2>5. ASSUME NEW w \in Workers, w # v, WorkerStep(w)
        PROVE  cache'[v] = cache[v]
    BY <1>1, <2>5, WorkerFrame DEF IInv
  <2>6. CASE Publish \/ Prune \/ Collection \/ UNCHANGED vars
    BY <2>1, <2>6 DEF Publish, Prune, Collection, vars, workerVars
  <2> QED  BY <1>1, <2>1, <2>2, <2>3, <2>4, <2>5, <2>6 DEF Next, RequestStep, WorkerStep
<1>2. ASSUME IInv, [Next]_vars, NEW v \in Workers, answer[v] \in Ids, answer'[v] \in Ids
      PROVE  answer'[v] >= answer[v]
  <2>1. answer[v] = cache[v] /\ answer'[v] = cache'[v] /\ None \notin Ids
    BY <1>2, InductiveStep, IdsAssumption DEF IInv, CacheOk
  <2> QED  BY <1>1, <1>2, <2>1
<1>3. IInv /\ [Next]_vars => [Forward]_vars
  BY <1>1, <1>2
<1> QED  BY <1>3, Inductive, PTL DEF Spec, AnswersMoveForward
=============================================================================
