--------------------------- MODULE PortalProofs ----------------------------
(* What is proved of the portal, each part by itself: of PortalAccess, for   *)
(* every number of workers and every set of users, services and devices (one *)
(* theorem is for one worker); of PolicyPages, for every sequence of versions*)
(* and every page size; of DashboardLayout, for every set of tabs and services.*)
EXTENDS PortalAccess, PolicyPages, DashboardLayout, OrderingProofs, SequenceTheorems

-----------------------------------------------------------------------------
(* PortalAccess                                                            *)

\* What a request that is open knows: the row it is about, a value that fits
\* it, and for a client's request the grants that are in force.
Knows(r) ==
  /\ r.step # "idle" => r.on \in Objects
  /\ r.step # "idle" /\ r.kind \in {"create", "edit"} => r.value \in States(r.on)
  /\ r.step # "idle" /\ r.kind = "use" => Effective(r.on) \subseteq r.had
  /\ r.step = "ready" /\ r.kind = "use" => \E s \in Services : <<r.on, s>> \in r.had

Entitled(r) ==
  r.kind = "use" /\ r.step = "idle" =>
    /\ r.selected \subseteq r.had
    /\ \E s \in Services : <<r.on, s>> \in r.had

IInv ==
  /\ TypeOK
  /\ \A w \in Workers : Knows(work[w]) /\ Entitled(work[w])
  /\ NoDanglingGrant

-----------------------------------------------------------------------------
(* The record of a worker.                                                 *)

LEMMA IdleIsRequest == Idle \in Requests /\ Idle.step = "idle" /\ Idle.kind = "none"
  BY DEF Idle, Requests, Steps, Kinds, Pairs

LEMMA StatesOfObjects ==
  ASSUME NEW o \in Objects
  PROVE  /\ States(o) \subseteq Roles \cup {"on", "off"}
         /\ "new" \notin States(o) /\ "gone" \notin States(o)
  BY DEF States, Roles

LEMMA EffectivePairs ==
  ASSUME TypeOK, NEW u
  PROVE  Effective(u) \subseteq Pairs
  BY DEF TypeOK, Effective, EffectiveIn

LEMMA AdminsCounted == Cardinality(Admins) \in Nat
<1>1. Admins \subseteq Users
  BY DEF Admins
<1>2. IsFiniteSet(Admins)
  BY <1>1, UsersAssumption, FS_Subset
<1> QED  BY <1>2, FS_CardinalityType

LEMMA ScopeOfPairs ==
  ASSUME NEW o \in Users \cup Devices
  PROVE  ScopeOf(o) \subseteq Pairs
  BY DEF ScopeOf, Pairs, Things

LEMMA InitInvariant == Init => IInv
<1> SUFFICES ASSUME Init PROVE IInv
  OBVIOUS
<1>1. TypeOK
  BY IdleIsRequest DEF Init, TypeOK, Roles
<1>2. \A w \in Workers : work[w] = Idle
  BY DEF Init
<1>3. NoDanglingGrant
  BY DEF Init, NoDanglingGrant
<1> QED  BY <1>1, <1>2, <1>3, IdleIsRequest DEF IInv, Knows, Entitled

-----------------------------------------------------------------------------
(* A step that changes the record of one worker only.                      *)

LEMMA OwnStep ==
  ASSUME IInv, NEW w \in Workers, NEW r \in Requests,
         Knows(r), Entitled(r),
         work' = [work EXCEPT ![w] = r], UNCHANGED <<status, grants>>
  PROVE  IInv'
<1>1. TypeOK'
  BY DEF IInv, TypeOK
<1>2. NoDanglingGrant'
  BY DEF IInv, NoDanglingGrant, Exists
<1>3. \A x : Effective(x)' = Effective(x)
  BY DEF Effective, EffectiveIn
<1>4. ASSUME NEW v \in Workers
      PROVE  (Knows(work[v]) /\ Entitled(work[v]))'
  <2>1. work'[v] = IF v = w THEN r ELSE work[v]
    BY DEF IInv, TypeOK
  <2>2. Knows(work'[v]) /\ Entitled(work'[v])
    BY <2>1 DEF IInv
  <2>3. Knows(work[v])' <=> Knows(work'[v])
    BY <1>3 DEF Knows, Effective, EffectiveIn
  <2> QED  BY <2>2, <2>3 DEF Entitled
<1> QED  BY <1>1, <1>2, <1>4 DEF IInv

LEMMA BeginStep ==
  ASSUME IInv, NEW w \in Workers, NEW r \in Requests, Knows(r), r.step # "idle",
         Begin(w, r)
  PROVE  IInv'
  BY OwnStep DEF Begin, Entitled

LEMMA BackToIdle ==
  ASSUME IInv, NEW w \in Workers,
         work' = [work EXCEPT ![w] = Idle], UNCHANGED <<status, grants>>
  PROVE  IInv'
<1>1. Knows(Idle) /\ Entitled(Idle)
  BY IdleIsRequest DEF Knows, Entitled
<1> QED  BY <1>1, IdleIsRequest, OwnStep

-----------------------------------------------------------------------------
(* The first reads of a request.                                           *)

LEMMA OpenCreateStep ==
  ASSUME IInv, NEW w \in Workers, OpenCreate(w)
  PROVE  IInv'
<1>1. PICK o \in Objects : \E v \in States(o) :
        Begin(w, [Idle EXCEPT !.step = "ready", !.kind = "create", !.on = o, !.value = v])
  BY DEF OpenCreate
<1>2. PICK v \in States(o) :
        Begin(w, [Idle EXCEPT !.step = "ready", !.kind = "create", !.on = o, !.value = v])
  BY <1>1
<1> DEFINE r == [Idle EXCEPT !.step = "ready", !.kind = "create", !.on = o, !.value = v]
<1>3. r \in Requests /\ r.step = "ready" /\ r.kind = "create" /\ r.on = o /\ r.value = v
  BY StatesOfObjects DEF Idle, Requests, Steps, Kinds, Roles, Pairs
<1>4. Knows(r)
  BY <1>3 DEF Knows
<1> QED  BY <1>2, <1>3, <1>4, BeginStep

LEMMA OpenEditStep ==
  ASSUME IInv, NEW w \in Workers, OpenEdit(w)
  PROVE  IInv'
<1>0. PICK o \in Objects : \E v \in States(o) :
        /\ Exists(o)
        /\ Begin(w, [Idle EXCEPT !.step = IF o \in Users THEN "open" ELSE "ready",
                                 !.kind = "edit", !.on = o, !.value = v, !.was = status[o]])
  BY DEF OpenEdit
<1>1. PICK v \in States(o) :
        /\ Exists(o)
        /\ Begin(w, [Idle EXCEPT !.step = IF o \in Users THEN "open" ELSE "ready",
                                 !.kind = "edit", !.on = o, !.value = v, !.was = status[o]])
  BY <1>0
<1> DEFINE r == [Idle EXCEPT !.step = IF o \in Users THEN "open" ELSE "ready",
                             !.kind = "edit", !.on = o, !.value = v, !.was = status[o]]
<1>2. status[o] \in Roles \cup {"on", "off"}
  BY <1>1, StatesOfObjects DEF Exists
<1>3. r \in Requests /\ r.step # "idle" /\ r.kind = "edit" /\ r.on = o /\ r.value = v
  <2>1. v \in Roles \cup {"on", "off"}
    BY StatesOfObjects
  <2>2. r \in Requests
    BY <1>2, <2>1 DEF Idle, Requests, Steps, Kinds
  <2>3. r.step # "idle" /\ r.kind = "edit" /\ r.on = o /\ r.value = v
    BY DEF Idle
  <2> QED  BY <2>2, <2>3
<1>4. Knows(r)
  BY <1>3 DEF Knows
<1> QED  BY <1>1, <1>3, <1>4, BeginStep

LEMMA OpenDeleteStep ==
  ASSUME IInv, NEW w \in Workers, OpenDelete(w)
  PROVE  IInv'
<1>1. PICK o \in Objects :
        /\ Exists(o)
        /\ Begin(w, [Idle EXCEPT !.step = IF o \in Users THEN "open" ELSE "ready",
                                 !.kind = "delete", !.on = o, !.was = status[o]])
  BY DEF OpenDelete
<1> DEFINE r == [Idle EXCEPT !.step = IF o \in Users THEN "open" ELSE "ready",
                             !.kind = "delete", !.on = o, !.was = status[o]]
<1>2. status[o] \in Roles \cup {"on", "off"}
  BY <1>1, StatesOfObjects DEF Exists
<1>3. r \in Requests /\ r.step # "idle" /\ r.kind = "delete" /\ r.on = o
  BY <1>2 DEF Idle, Requests, Steps, Kinds, Roles, Pairs
<1>4. Knows(r)
  BY <1>3 DEF Knows
<1> QED  BY <1>1, <1>3, <1>4, BeginStep

LEMMA OpenSaveStep ==
  ASSUME IInv, NEW w \in Workers, OpenSave(w)
  PROVE  IInv'
<1>1. PICK o \in Users \cup Devices : \E selected \in SUBSET Allowed(o) :
        Begin(w, [Idle EXCEPT !.step = "open", !.kind = "save", !.on = o, !.selected = selected,
                              !.removed = (grants \cap ScopeOf(o)) \ selected])
  BY DEF OpenSave
<1>2. PICK selected \in SUBSET Allowed(o) :
        Begin(w, [Idle EXCEPT !.step = "open", !.kind = "save", !.on = o, !.selected = selected,
                              !.removed = (grants \cap ScopeOf(o)) \ selected])
  BY <1>1
<1> DEFINE r == [Idle EXCEPT !.step = "open", !.kind = "save", !.on = o, !.selected = selected,
                             !.removed = (grants \cap ScopeOf(o)) \ selected]
<1>3. selected \subseteq Pairs /\ (grants \cap ScopeOf(o)) \ selected \subseteq Pairs
  BY ScopeOfPairs DEF Allowed, IInv, TypeOK
<1>4. r \in Requests /\ r.step = "open" /\ r.kind = "save" /\ r.on = o
  BY <1>3 DEF Idle, Requests, Steps, Kinds, Roles, Objects
<1>5. Knows(r)
  BY <1>4 DEF Knows, Objects
<1> QED  BY <1>2, <1>4, <1>5, BeginStep

LEMMA OpenUseStep ==
  ASSUME IInv, NEW w \in Workers, OpenUse(w)
  PROVE  IInv'
<1>1. PICK u \in Users :
        Begin(w, [Idle EXCEPT !.step = "open", !.kind = "use", !.on = u, !.had = Effective(u)])
  BY DEF OpenUse
<1> DEFINE r == [Idle EXCEPT !.step = "open", !.kind = "use", !.on = u, !.had = Effective(u)]
<1>2. r \in Requests /\ r.step = "open" /\ r.kind = "use" /\ r.on = u /\ r.had = Effective(u)
  BY EffectivePairs DEF Idle, Requests, Steps, Kinds, Roles, Objects, Pairs, IInv
<1>3. Knows(r)
  BY <1>2 DEF Knows, Objects
<1> QED  BY <1>1, <1>2, <1>3, BeginStep

-----------------------------------------------------------------------------
(* Its later reads.                                                        *)

LEMMA CountAdminsStep ==
  ASSUME IInv, NEW w \in Workers, CountAdmins(w)
  PROVE  IInv'
<1> DEFINE r == work[w]
           n == [r EXCEPT !.step = "ready", !.count = Cardinality(Admins)]
<1>1. r \in Requests /\ r.step = "open" /\ r.kind \in {"edit", "delete"}
  BY DEF CountAdmins, IInv, TypeOK
<1>2. /\ n \in Requests /\ n.step = "ready" /\ n.kind = r.kind
      /\ n.on = r.on /\ n.value = r.value
  BY <1>1, AdminsCounted DEF Requests, Steps
<1>3. Knows(n) /\ Entitled(n)
  BY <1>1, <1>2 DEF IInv, Knows, Entitled
<1>4. UNCHANGED <<status, grants>>
  BY DEF CountAdmins
<1>5. \/ work' = [work EXCEPT ![w] = Idle]
      \/ work' = [work EXCEPT ![w] = n]
  BY DEF CountAdmins
<1> QED  BY <1>2, <1>3, <1>4, <1>5, BackToIdle, OwnStep

LEMMA FindMissingStep ==
  ASSUME IInv, NEW w \in Workers, FindMissing(w)
  PROVE  IInv'
<1> DEFINE r == work[w]
           n == [r EXCEPT !.step = "ready", !.added = Added(r)]
<1>1. r \in Requests /\ r.step = "open" /\ r.kind = "save"
  BY DEF FindMissing, IInv, TypeOK
<1>2. n \in Requests /\ n.step = "ready" /\ n.kind = "save" /\ n.on = r.on
  BY <1>1 DEF Requests, Steps, Added
<1>3. Knows(n) /\ Entitled(n)
  BY <1>1, <1>2 DEF IInv, Knows, Entitled
<1> QED  BY <1>2, <1>3, OwnStep DEF FindMissing

LEMMA CheckSubscriptionStep ==
  ASSUME IInv, NEW w \in Workers, CheckSubscription(w)
  PROVE  IInv'
<1> DEFINE r == work[w]
           served == \E s \in Services : <<r.on, s>> \in Effective(r.on)
           n == [r EXCEPT !.step = "ready"]
<1>1. r \in Requests /\ r.step = "open" /\ r.kind = "use" /\ Knows(r)
  BY DEF CheckSubscription, IInv, TypeOK
<1>2. n \in Requests /\ n.step = "ready" /\ n.kind = "use" /\ n.on = r.on /\ n.had = r.had
  BY <1>1 DEF Requests, Steps
<1>3. UNCHANGED <<status, grants>>
  BY DEF CheckSubscription
<1>4. CASE served
  <2>1. Knows(n) /\ Entitled(n)
    BY <1>1, <1>2, <1>4 DEF Knows, Entitled
  <2>2. work' = [work EXCEPT ![w] = n]
    BY <1>4 DEF CheckSubscription
  <2> QED  BY <1>2, <1>3, <2>1, <2>2, OwnStep
<1>5. CASE ~ served
  <2>1. work' = [work EXCEPT ![w] = Idle]
    BY <1>5 DEF CheckSubscription
  <2> QED  BY <1>3, <2>1, BackToIdle
<1> QED  BY <1>4, <1>5

LEMMA PickDeviceStep ==
  ASSUME IInv, NEW w \in Workers, PickDevice(w)
  PROVE  IInv'
<1> DEFINE r == work[w]
<1>1. r \in Requests /\ r.step = "ready" /\ r.kind = "use" /\ Knows(r)
  BY DEF PickDevice, IInv, TypeOK
<1>2. UNCHANGED <<status, grants>>
  BY DEF PickDevice
<1>3. ASSUME NEW d \in AssignedDevices(r.on),
             work' = [work EXCEPT ![w] = [r EXCEPT !.step = "idle", !.selected = {<<r.on, d>>}]]
      PROVE  IInv'
  <2> DEFINE n == [r EXCEPT !.step = "idle", !.selected = {<<r.on, d>>}]
  <2>1. <<r.on, d>> \in Effective(r.on) /\ <<r.on, d>> \in Pairs
    BY EffectivePairs DEF AssignedDevices, IInv
  <2>2. /\ n \in Requests /\ n.step = "idle" /\ n.kind = "use" /\ n.on = r.on
        /\ n.had = r.had /\ n.selected = {<<r.on, d>>}
    BY <1>1, <2>1 DEF Requests, Steps
  <2>3. Knows(n) /\ Entitled(n)
    BY <1>1, <2>1, <2>2 DEF Knows, Entitled
  <2> QED  BY <1>2, <1>3, <2>2, <2>3, OwnStep
<1>4. \/ \E d \in AssignedDevices(r.on) :
            work' = [work EXCEPT ![w] = [r EXCEPT !.step = "idle", !.selected = {<<r.on, d>>}]]
      \/ work' = [work EXCEPT ![w] = Idle]
  BY DEF PickDevice
<1> QED  BY <1>2, <1>3, <1>4, BackToIdle

-----------------------------------------------------------------------------
(* The commit.                                                             *)

\* What a commit leaves of the rows: they are rows of what still exists.
LEMMA CommittedRows ==
  ASSUME IInv, NEW w \in Workers, Commit(w)
  PROVE  /\ status' \in [Objects -> Roles \cup {"on", "off", "new", "gone"}]
         /\ grants' \subseteq Pairs
         /\ NoDanglingGrant'
<1> DEFINE r == work[w]
<1>1. /\ r \in Requests /\ r.step = "ready" /\ ~ Refused(r) /\ Knows(r)
      /\ status' = StatusAfter(r) /\ grants' = GrantsAfter(r)
  BY DEF Commit, IInv, TypeOK
<1>2. r.on \in Objects
  BY <1>1 DEF Knows
<1>t. status \in [Objects -> Roles \cup {"on", "off", "new", "gone"}] /\ grants \subseteq Pairs
  BY DEF IInv, TypeOK
<1>e. \A g \in grants : Ends(g) \subseteq Objects /\ \A o \in Ends(g) : status[o] \in States(o)
  BY <1>t DEF IInv, NoDanglingGrant, Exists, Ends, Pairs, Objects, Things
<1>3. CASE r.kind = "delete"
  <2>1. status' = [status EXCEPT ![r.on] = "gone"] /\ grants' = {g \in grants : r.on \notin Ends(g)}
    BY <1>1, <1>3 DEF StatusAfter, GrantsAfter
  <2>2. \A g \in grants' : \A o \in Ends(g) : status'[o] \in States(o)
    BY <1>t, <1>e, <2>1
  <2> QED  BY <1>2, <1>t, <2>1, <2>2 DEF NoDanglingGrant, Exists
<1>4. CASE r.kind = "create" \/ (r.kind = "edit" /\ r.value # r.was)
  <2>1. status' = [status EXCEPT ![r.on] = r.value] /\ grants' = grants
    BY <1>1, <1>4 DEF StatusAfter, GrantsAfter
  <2>2. r.value \in States(r.on) /\ r.value \in Roles \cup {"on", "off", "new", "gone"}
    BY <1>1, <1>2, <1>4, StatesOfObjects DEF Knows
  <2>3. \A g \in grants : \A o \in Ends(g) : status'[o] \in States(o)
    BY <1>t, <1>e, <2>1, <2>2
  <2> QED  BY <1>2, <1>t, <2>1, <2>2, <2>3 DEF NoDanglingGrant, Exists
<1>5. CASE r.kind = "save"
  <2>1. status' = status /\ grants' = (grants \ r.removed) \cup r.added
    BY <1>1, <1>5 DEF StatusAfter, GrantsAfter
  <2>2. r.added \subseteq Pairs /\ \A g \in r.added : \A o \in Ends(g) : status[o] \in States(o)
    BY <1>1, <1>5 DEF Refused, Requests, Exists
  <2>3. \A g \in grants' : \A o \in Ends(g) : status'[o] \in States(o)
    BY <1>e, <2>1, <2>2
  <2> QED  BY <1>t, <2>1, <2>2, <2>3 DEF NoDanglingGrant, Exists
<1>6. CASE r.kind \notin {"delete", "create", "save"} /\ ~ (r.kind = "edit" /\ r.value # r.was)
  <2>1. status' = status /\ grants' = grants
    BY <1>1, <1>6 DEF StatusAfter, GrantsAfter
  <2> QED  BY <1>t, <1>e, <2>1 DEF NoDanglingGrant, Exists
<1> QED  BY <1>3, <1>4, <1>5, <1>6

\* What the other requests keep: their type, and what they know.
LEMMA SeenByOthers ==
  ASSUME IInv, NEW v \in Workers, grants' \subseteq Pairs
  PROVE  LET n == Seen(work[v])
         IN  /\ n \in Requests
             /\ n.step = work[v].step /\ n.kind = work[v].kind /\ n.on = work[v].on
             /\ n.value = work[v].value /\ n.selected = work[v].selected
             /\ work[v].had \subseteq n.had
             /\ n.step # "idle" /\ n.kind = "use" => EffectiveIn(status', grants', n.on) \subseteq n.had
<1> DEFINE r == work[v]
<1>1. r \in Requests
  BY DEF IInv, TypeOK
<1>2. CASE r.step = "idle"
  BY <1>1, <1>2 DEF Seen
<1>3. CASE r.step # "idle" /\ r.kind = "save"
  <2> DEFINE t == \/ r.touched \/ grants' \cap ScopeOf(r.on) # grants \cap ScopeOf(r.on)
                  \/ \E g \in ScopeOf(r.on) : \E o \in Ends(g) : status'[o] # status[o]
  <2>1. Seen(r) = [r EXCEPT !.removed = @ \cap grants', !.touched = t]
    BY <1>3 DEF Seen
  <2>2. t \in BOOLEAN
    OBVIOUS
  <2> HIDE DEF t
  <2>3. /\ Seen(r).step = r.step /\ Seen(r).kind = r.kind /\ Seen(r).on = r.on
        /\ Seen(r).value = r.value /\ Seen(r).selected = r.selected /\ Seen(r).had = r.had
    BY <1>1, <2>1 DEF Requests
  <2>4. Seen(r) \in Requests
    <3>1. r.removed \cap grants' \subseteq Pairs
      OBVIOUS
    <3> QED  BY <1>1, <2>1, <2>2, <3>1 DEF Requests
  <2> QED  BY <1>3, <2>3, <2>4
<1>4. CASE r.step # "idle" /\ r.kind = "use"
  <2> DEFINE e == EffectiveIn(status', grants', r.on)
  <2>1. Seen(r) = [r EXCEPT !.had = @ \cup e]
    BY <1>4 DEF Seen
  <2>2. e \subseteq Pairs
    BY DEF EffectiveIn
  <2> HIDE DEF e
  <2>3. Seen(r) \in Requests /\ Seen(r).had = r.had \cup e
    BY <1>1, <2>1, <2>2 DEF Requests
  <2> QED  BY <1>1, <1>4, <2>1, <2>3 DEF Requests, e
<1>5. CASE r.step # "idle" /\ r.kind \notin {"save", "use"}
  BY <1>1, <1>5 DEF Seen
<1> QED  BY <1>2, <1>3, <1>4, <1>5

LEMMA CommitStep ==
  ASSUME IInv, NEW w \in Workers, Commit(w)
  PROVE  IInv'
<1>1. /\ status' \in [Objects -> Roles \cup {"on", "off", "new", "gone"}]
      /\ grants' \subseteq Pairs /\ NoDanglingGrant'
  BY CommittedRows
<1>2. work' = [v \in Workers |-> IF v = w THEN Idle ELSE Seen(work[v])]
  BY DEF Commit
<1>3. \A v \in Workers : work'[v] = Idle \/ work'[v] = Seen(work[v])
  BY <1>2
<1>4. work' \in [Workers -> Requests]
  BY <1>1, <1>2, SeenByOthers, IdleIsRequest
<1>5. ASSUME NEW v \in Workers
      PROVE  (Knows(work[v]) /\ Entitled(work[v]))'
  <2>1. CASE work'[v] = Idle
    BY <2>1, IdleIsRequest DEF Knows, Entitled
  <2>2. CASE work'[v] = Seen(work[v])
    <3>1. Knows(work[v]) /\ Entitled(work[v])
      BY DEF IInv
    <3> DEFINE n == Seen(work[v])
    <3>2. /\ n.step = work[v].step /\ n.kind = work[v].kind /\ n.on = work[v].on
          /\ n.value = work[v].value /\ n.selected = work[v].selected
          /\ work[v].had \subseteq n.had
          /\ n.step # "idle" /\ n.kind = "use" => EffectiveIn(status', grants', n.on) \subseteq n.had
      BY <1>1, SeenByOthers
    <3> HIDE DEF n
    <3>3. work'[v] = n
      BY <2>2 DEF n
    <3> QED  BY <3>1, <3>2, <3>3 DEF Knows, Entitled, Effective
  <2> QED  BY <1>3, <2>1, <2>2
<1> QED  BY <1>1, <1>4, <1>5 DEF IInv, TypeOK

-----------------------------------------------------------------------------
(* The invariant, and what it implies.                                     *)

LEMMA NextInvariant == IInv /\ [Next]_vars => IInv'
<1> SUFFICES ASSUME IInv, [Next]_vars PROVE IInv'
  OBVIOUS
<1>1. CASE UNCHANGED vars
  <2>1. \A x : Effective(x)' = Effective(x)
    BY <1>1 DEF vars, Effective, EffectiveIn
  <2>2. \A w \in Workers : (Knows(work[w]) /\ Entitled(work[w]))'
    BY <1>1, <2>1 DEF IInv, vars, Knows, Entitled
  <2> QED  BY <1>1, <2>2 DEF IInv, vars, TypeOK, NoDanglingGrant, Exists
<1>2. ASSUME NEW w \in Workers, OpenCreate(w)  PROVE IInv'
  BY <1>2, OpenCreateStep
<1>3. ASSUME NEW w \in Workers, OpenEdit(w)  PROVE IInv'
  BY <1>3, OpenEditStep
<1>4. ASSUME NEW w \in Workers, OpenDelete(w)  PROVE IInv'
  BY <1>4, OpenDeleteStep
<1>5. ASSUME NEW w \in Workers, OpenSave(w)  PROVE IInv'
  BY <1>5, OpenSaveStep
<1>6. ASSUME NEW w \in Workers, OpenUse(w)  PROVE IInv'
  BY <1>6, OpenUseStep
<1>7. ASSUME NEW w \in Workers, CountAdmins(w)  PROVE IInv'
  BY <1>7, CountAdminsStep
<1>8. ASSUME NEW w \in Workers, FindMissing(w)  PROVE IInv'
  BY <1>8, FindMissingStep
<1>9. ASSUME NEW w \in Workers, Commit(w)  PROVE IInv'
  BY <1>9, CommitStep
<1>10. ASSUME NEW w \in Workers, Conflict(w) \/ Fail(w)  PROVE IInv'
  BY <1>10, BackToIdle DEF Conflict, Fail
<1>11. ASSUME NEW w \in Workers, CheckSubscription(w)  PROVE IInv'
  BY <1>11, CheckSubscriptionStep
<1>12. ASSUME NEW w \in Workers, PickDevice(w)  PROVE IInv'
  BY <1>12, PickDeviceStep
<1> QED
  BY <1>1, <1>2, <1>3, <1>4, <1>5, <1>6, <1>7, <1>8, <1>9, <1>10, <1>11, <1>12 DEF Next

LEMMA Invariance == Spec => []IInv
  BY InitInvariant, NextInvariant, PTL DEF Spec

\* Every record of a worker, status and row stays of its type, for any number
\* of workers and objects (admin/routes.py, client/access.py).
THEOREM TypeCorrect == Spec => []TypeOK
<1>1. IInv => TypeOK
  BY DEF IInv
<1> QED  BY <1>1, Invariance, PTL

\* No subscription and no assignment outlives its ends, however the requests
\* of any number of workers interleave (models.py, database_transactions.py).
THEOREM GrantsNeverDangle == Spec => []NoDanglingGrant
<1>1. IInv => NoDanglingGrant
  BY DEF IInv
<1> QED  BY <1>1, Invariance, PTL

\* A device is served only on grants that were held while the request was
\* handled (client/access.py, resolve_selected_device).
THEOREM ServedOnlyEntitled == Spec => []ServedWasEntitled
<1>1. IInv => ServedWasEntitled
  BY DEF IInv, ServedWasEntitled, Entitled
<1> QED  BY <1>1, Invariance, PTL

-----------------------------------------------------------------------------
(* One worker.                                                             *)

\* A request that takes an administrator away, as its user was loaded.
Removes(r) ==
  r.on \in Users /\ r.was = "admin" /\ (r.kind = "delete" \/ (r.kind = "edit" /\ r.value # "admin"))

\* With one worker nothing commits between the reads of a request and its own
\* commit: what it read is still so.
Current(r) ==
  /\ r.step # "idle" /\ r.kind \in {"edit", "delete"} => r.was = status[r.on]
  /\ r.step = "ready" /\ Removes(r) => Cardinality(Admins) > 1

OneInv == IInv /\ AdminRemains /\ \A w \in Workers : Current(work[w])

OneWorker == \A v, w \in Workers : v = w

LEMMA OtherAdmin ==
  ASSUME Cardinality(Admins) > 1, NEW o
  PROVE  Admins \ {o} # {}
<1>1. Admins \subseteq Users
  BY DEF Admins
<1>2. IsFiniteSet(Admins)
  BY <1>1, UsersAssumption, FS_Subset
<1>3. SUFFICES ASSUME Admins \subseteq {o} PROVE FALSE
  OBVIOUS
<1>4. IsFiniteSet({o}) /\ Cardinality({o}) = 1
  BY FS_Singleton
<1>5. Cardinality(Admins) <= 1
  BY <1>3, <1>4, FS_Subset
<1> QED  BY <1>5, <1>2, FS_CardinalityType

LEMMA OneInit == Init => OneInv
<1> SUFFICES ASSUME Init PROVE OneInv
  OBVIOUS
<1>1. PICK a \in Users, seeded \in SUBSET Things :
        status = [o \in Objects |-> IF o = a THEN "admin" ELSE IF o \in seeded THEN "on" ELSE "new"]
  BY DEF Init
<1>2. a \in Admins
  BY <1>1 DEF Admins, Objects
<1>3. \A w \in Workers : work[w].step = "idle"
  BY IdleIsRequest DEF Init
<1> QED  BY <1>2, <1>3, InitInvariant DEF OneInv, AdminRemains, Current

\* A step that leaves the rows, and the worker with a request that is current.
LEMMA OneOwnStep ==
  ASSUME OneInv, OneWorker, IInv', NEW w \in Workers, NEW r, Current(r),
         work' = [work EXCEPT ![w] = r], UNCHANGED <<status, grants>>
  PROVE  OneInv'
<1>1. Admins' = Admins
  BY DEF Admins
<1>2. \A v \in Workers : work'[v] = r
  BY DEF OneWorker, OneInv, IInv, TypeOK
<1> QED  BY <1>1, <1>2 DEF OneInv, AdminRemains, Current, Removes

LEMMA OneCommit ==
  ASSUME OneInv, OneWorker, IInv', NEW w \in Workers, Commit(w)
  PROVE  OneInv'
<1> DEFINE r == work[w]
<1>1. /\ r.step = "ready" /\ Current(r) /\ Knows(r)
      /\ status' = StatusAfter(r)
      /\ status \in [Objects -> Roles \cup {"on", "off", "new", "gone"}]
  BY DEF Commit, OneInv, IInv, TypeOK
<1>2. \A v \in Workers : work'[v].step = "idle"
  BY IdleIsRequest DEF Commit, OneWorker
<1>3. Admins' # {}
  <2>1. CASE Removes(r)
    <3>1. PICK a \in Admins \ {r.on} : TRUE
      BY <1>1, <2>1, OtherAdmin DEF Current
    <3>2. status'[a] = status[a]
      BY <1>1, <3>1 DEF StatusAfter, Admins, Objects
    <3> QED  BY <3>1, <3>2 DEF Admins
  <2>2. CASE ~ Removes(r)
    <3>1. PICK a \in Admins : TRUE
      BY DEF OneInv, AdminRemains
    <3>2. a \in Users /\ status[a] = "admin" /\ a \in Objects
      BY <3>1 DEF Admins, Objects
    <3>3. status'[a] = "admin"
      <4>1. CASE r.on # a
        BY <1>1, <3>2, <4>1 DEF StatusAfter
      <4>2. CASE r.on = a /\ r.kind \in {"edit", "delete"}
        BY <1>1, <2>2, <3>2, <4>2 DEF StatusAfter, Current, Removes
      <4>3. CASE r.on = a /\ r.kind = "create"
        <5>1. status[a] = "new"
          BY <4>3 DEF Commit, Refused
        <5> QED  BY <3>2, <5>1
      <4>4. CASE r.kind \notin {"edit", "delete", "create"}
        BY <1>1, <3>2, <4>4 DEF StatusAfter
      <4> QED  BY <4>1, <4>2, <4>3, <4>4
    <3> QED  BY <3>2, <3>3 DEF Admins
  <2> QED  BY <2>1, <2>2
<1> QED  BY <1>2, <1>3 DEF OneInv, AdminRemains, Current

LEMMA OneNext ==
  ASSUME OneInv, OneWorker, [Next]_vars
  PROVE  OneInv'
<1>i. IInv /\ IInv'
  BY NextInvariant DEF OneInv
<1>c. Current(Idle)
  BY IdleIsRequest DEF Current
<1>1. CASE UNCHANGED vars
  BY <1>1, <1>i DEF OneInv, vars, AdminRemains, Admins, Current, Removes
<1>2. ASSUME NEW w \in Workers, NEW r, Begin(w, r), Current(r)
      PROVE  OneInv'
  BY <1>2, <1>i, OneOwnStep DEF Begin
<1>3. ASSUME NEW w \in Workers, OpenCreate(w)  PROVE OneInv'
  <2>1. \A o, v : Current([Idle EXCEPT !.step = "ready", !.kind = "create", !.on = o, !.value = v])
    BY DEF Idle, Current, Removes
  <2> QED  BY <1>2, <1>3, <2>1 DEF OpenCreate
<1>4. ASSUME NEW w \in Workers, OpenEdit(w)  PROVE OneInv'
  <2>1. \A o, v : Current([Idle EXCEPT !.step = IF o \in Users THEN "open" ELSE "ready",
                                     !.kind = "edit", !.on = o, !.value = v, !.was = status[o]])
    BY DEF Idle, Current, Removes
  <2> QED  BY <1>2, <1>4, <2>1 DEF OpenEdit
<1>5. ASSUME NEW w \in Workers, OpenDelete(w)  PROVE OneInv'
  <2>1. \A o : Current([Idle EXCEPT !.step = IF o \in Users THEN "open" ELSE "ready",
                                  !.kind = "delete", !.on = o, !.was = status[o]])
    BY DEF Idle, Current, Removes
  <2> QED  BY <1>2, <1>5, <2>1 DEF OpenDelete
<1>6. ASSUME NEW w \in Workers, OpenSave(w)  PROVE OneInv'
  <2>1. \A o, s, x : Current([Idle EXCEPT !.step = "open", !.kind = "save", !.on = o,
                                        !.selected = s, !.removed = x])
    BY DEF Idle, Current, Removes
  <2> QED  BY <1>2, <1>6, <2>1 DEF OpenSave
<1>7. ASSUME NEW w \in Workers, OpenUse(w)  PROVE OneInv'
  <2>1. \A u, h : Current([Idle EXCEPT !.step = "open", !.kind = "use", !.on = u, !.had = h])
    BY DEF Idle, Current, Removes
  <2> QED  BY <1>2, <1>7, <2>1 DEF OpenUse
<1>8. ASSUME NEW w \in Workers, CountAdmins(w)  PROVE OneInv'
  <2> DEFINE r == work[w]
             n == [r EXCEPT !.step = "ready", !.count = Cardinality(Admins)]
  <2>1. r \in Requests /\ r.step = "open" /\ r.kind \in {"edit", "delete"} /\ Current(r)
    BY <1>8 DEF CountAdmins, OneInv, IInv, TypeOK
  <2>2. UNCHANGED <<status, grants>>
    BY <1>8 DEF CountAdmins
  <2>3. CASE CountRefuses(r, Cardinality(Admins))
    BY <1>8, <1>i, <1>c, <2>2, <2>3, OneOwnStep DEF CountAdmins
  <2>4. CASE ~ CountRefuses(r, Cardinality(Admins))
    <3>1. Removes(r) => Cardinality(Admins) > 1
      BY <2>4, AdminsCounted DEF CountRefuses, Removes
    <3>2. n.step = "ready" /\ n.kind = r.kind /\ n.on = r.on /\ n.was = r.was /\ n.value = r.value
      BY <2>1 DEF Requests
    <3>3. Current(n)
      BY <2>1, <3>1, <3>2 DEF Current, Removes
    <3>4. work' = [work EXCEPT ![w] = n]
      BY <1>8, <2>4 DEF CountAdmins
    <3> QED  BY <1>i, <2>2, <3>3, <3>4, OneOwnStep
  <2> QED  BY <2>3, <2>4
<1>9. ASSUME NEW w \in Workers, FindMissing(w)  PROVE OneInv'
  <2> DEFINE r == work[w]
             n == [r EXCEPT !.step = "ready", !.added = Added(r)]
  <2>1. r \in Requests /\ r.kind = "save"
    BY <1>9 DEF FindMissing, OneInv, IInv, TypeOK
  <2>2. n.kind = "save"
    BY <2>1 DEF Requests
  <2>3. Current(n)
    BY <2>2 DEF Current, Removes
  <2> QED  BY <1>9, <1>i, <2>3, OneOwnStep DEF FindMissing
<1>10. ASSUME NEW w \in Workers, Commit(w)  PROVE OneInv'
  BY <1>10, <1>i, OneCommit
<1>11. ASSUME NEW w \in Workers, Conflict(w) \/ Fail(w)  PROVE OneInv'
  BY <1>11, <1>i, <1>c, OneOwnStep DEF Conflict, Fail
<1>12. ASSUME NEW w \in Workers, CheckSubscription(w)  PROVE OneInv'
  <2> DEFINE r == work[w]
             n == [r EXCEPT !.step = "ready"]
  <2>1. r \in Requests /\ r.kind = "use"
    BY <1>12 DEF CheckSubscription, OneInv, IInv, TypeOK
  <2>2. n.kind = "use"
    BY <2>1 DEF Requests
  <2>3. Current(n)
    BY <2>2 DEF Current, Removes
  <2>4. UNCHANGED <<status, grants>> /\ (work' = [work EXCEPT ![w] = n] \/ work' = [work EXCEPT ![w] = Idle])
    BY <1>12 DEF CheckSubscription
  <2> QED  BY <1>i, <1>c, <2>3, <2>4, OneOwnStep
<1>13. ASSUME NEW w \in Workers, PickDevice(w)  PROVE OneInv'
  <2> DEFINE r == work[w]
             n(d) == [r EXCEPT !.step = "idle", !.selected = {<<r.on, d>>}]
  <2>1. r \in Requests
    BY <1>13 DEF OneInv, IInv, TypeOK
  <2>2. \A d : n(d).step = "idle"
    BY <2>1 DEF Requests
  <2>3. \A d : Current(n(d))
    BY <2>2 DEF Current
  <2>4. UNCHANGED <<status, grants>> /\ ((\E d : work' = [work EXCEPT ![w] = n(d)]) \/ work' = [work EXCEPT ![w] = Idle])
    BY <1>13 DEF PickDevice
  <2> HIDE DEF n
  <2> QED  BY <1>i, <1>c, <2>3, <2>4, OneOwnStep
<1> QED
  BY <1>1, <1>3, <1>4, <1>5, <1>6, <1>7, <1>8, <1>9, <1>10, <1>11, <1>12, <1>13 DEF Next

\* With one worker, Gunicorn's default, an administrator always remains: the
\* claim of docs/architecture.md:351 holds as long as nobody raises "workers".
THEOREM OneWorkerKeepsAnAdmin ==
  ASSUME OneWorker
  PROVE  Spec => []AdminRemains
<1>1. OneInv /\ [Next]_vars => OneInv'
  BY OneWorker, OneNext
<1>2. OneInv => AdminRemains
  BY DEF OneInv
<1> QED  BY <1>1, <1>2, OneInit, PTL DEF Spec

-----------------------------------------------------------------------------
(* Races for the last administrator, with any number of workers.           *)

\* A request that takes an administrator away has counted another.
Counted(r) == r.step = "ready" /\ Removes(r) => r.count \in Nat /\ r.count > 1

\* A save that nobody disturbed has selected rows whose ends exist, removes the
\* rows of its scope that it did not select, and adds the selected ones that are
\* missing.
Exact(r) ==
  r.kind = "save" /\ r.step # "idle" /\ ~ r.touched =>
    /\ r.selected \subseteq ScopeOf(r.on)
    /\ \A g \in r.selected : \A o \in Ends(g) : Exists(o)
    /\ r.removed = (grants \cap ScopeOf(r.on)) \ r.selected
    /\ r.step = "ready" => r.added = r.selected \ grants

SaveInv == IInv /\ \A w \in Workers : Counted(work[w]) /\ Exact(work[w])

\* A step that leaves the rows, and the worker with a request that fits.
LEMMA SaveOwnStep ==
  ASSUME SaveInv, IInv', NEW w \in Workers, NEW r, Counted(r), Exact(r),
         work' = [work EXCEPT ![w] = r], UNCHANGED <<status, grants>>
  PROVE  SaveInv'
<1>1. ASSUME NEW v \in Workers
      PROVE  (Counted(work[v]) /\ Exact(work[v]))'
  <2>1. work'[v] = IF v = w THEN r ELSE work[v]
    BY DEF SaveInv, IInv, TypeOK
  <2>2. Counted(work'[v]) /\ Exact(work'[v])
    BY <2>1 DEF SaveInv
  <2> QED  BY <2>2 DEF Counted, Removes, Exact, Exists
<1> QED  BY <1>1 DEF SaveInv

\* The rows a save may select are of its scope, and have both ends.
LEMMA AllowedExist ==
  ASSUME NEW o \in Users \cup Devices, Exists(o)
  PROVE  /\ Allowed(o) \subseteq ScopeOf(o)
         /\ \A g \in Allowed(o) : \A x \in Ends(g) : Exists(x)
<1>1. Allowed(o) \subseteq ScopeOf(o)
  BY DEF Allowed
<1>2. ASSUME NEW g \in Allowed(o)
      PROVE  Exists(g[1]) /\ Exists(g[2])
  <2>1. CASE o \in Users
    <3>1. g[1] = o /\ Exists(g[2])
      BY <2>1 DEF Allowed, ScopeOf
    <3> QED  BY <3>1
  <2>2. CASE o \notin Users
    <3>1. g[1] \in Users /\ status[g[1]] = "client" /\ Exists(g[2])
      BY <2>2 DEF Allowed, ScopeOf
    <3> QED  BY <3>1 DEF Exists, States, Roles
  <2> QED  BY <2>1, <2>2
<1> QED  BY <1>1, <1>2 DEF Ends

LEMMA SaveOpen ==
  ASSUME SaveInv, IInv', NEW w \in Workers, OpenSave(w)
  PROVE  SaveInv'
<1>1. PICK o \in Users \cup Devices :
        /\ Exists(o)
        /\ \E selected \in SUBSET Allowed(o) :
             Begin(w, [Idle EXCEPT !.step = "open", !.kind = "save", !.on = o, !.selected = selected,
                                   !.removed = (grants \cap ScopeOf(o)) \ selected])
  BY DEF OpenSave
<1>2. PICK selected \in SUBSET Allowed(o) :
        Begin(w, [Idle EXCEPT !.step = "open", !.kind = "save", !.on = o, !.selected = selected,
                              !.removed = (grants \cap ScopeOf(o)) \ selected])
  BY <1>1
<1> DEFINE r == [Idle EXCEPT !.step = "open", !.kind = "save", !.on = o, !.selected = selected,
                             !.removed = (grants \cap ScopeOf(o)) \ selected]
<1>3. /\ r.step = "open" /\ r.kind = "save" /\ r.on = o /\ r.selected = selected
      /\ r.removed = (grants \cap ScopeOf(o)) \ selected
  BY DEF Idle
<1>4. selected \subseteq ScopeOf(o) /\ \A g \in selected : \A x \in Ends(g) : Exists(x)
  BY <1>1, AllowedExist
<1> HIDE DEF r
<1>5. Counted(r) /\ Exact(r)
  BY <1>3, <1>4 DEF Counted, Exact
<1>6. work' = [work EXCEPT ![w] = r] /\ UNCHANGED <<status, grants>>
  BY <1>2 DEF Begin, r
<1> QED  BY <1>5, <1>6, SaveOwnStep

LEMMA SaveFind ==
  ASSUME SaveInv, IInv', NEW w \in Workers, FindMissing(w)
  PROVE  SaveInv'
<1> DEFINE r == work[w]
           n == [r EXCEPT !.step = "ready", !.added = Added(r)]
<1>1. r \in Requests /\ r.kind = "save" /\ r.step = "open" /\ Exact(r)
  BY DEF FindMissing, SaveInv, IInv, TypeOK
<1>2. /\ n.step = "ready" /\ n.kind = "save" /\ n.on = r.on /\ n.selected = r.selected
      /\ n.removed = r.removed /\ n.touched = r.touched /\ n.added = Added(r)
  BY <1>1 DEF Requests
<1>3. work' = [work EXCEPT ![w] = n] /\ UNCHANGED <<status, grants>>
  BY DEF FindMissing
<1> HIDE DEF n
<1>4. Exact(n)
  BY <1>1, <1>2 DEF Exact, Added
<1>5. Counted(n)
  BY <1>2 DEF Counted, Removes
<1> QED  BY <1>3, <1>4, <1>5, SaveOwnStep

LEMMA SaveCount ==
  ASSUME SaveInv, IInv', NEW w \in Workers, CountAdmins(w), Counted(Idle), Exact(Idle)
  PROVE  SaveInv'
<1> DEFINE r == work[w]
           n == [r EXCEPT !.step = "ready", !.count = Cardinality(Admins)]
<1>1. r \in Requests /\ r.kind \in {"edit", "delete"} /\ UNCHANGED <<status, grants>>
  BY DEF CountAdmins, SaveInv, IInv, TypeOK
<1>2. CASE CountRefuses(r, Cardinality(Admins))
  BY <1>1, <1>2, SaveOwnStep DEF CountAdmins
<1>3. CASE ~ CountRefuses(r, Cardinality(Admins))
  <2>1. Removes(r) => Cardinality(Admins) > 1
    BY <1>3, AdminsCounted DEF CountRefuses, Removes
  <2>2. /\ n.kind = r.kind /\ n.on = r.on /\ n.was = r.was /\ n.value = r.value
        /\ n.count = Cardinality(Admins)
    BY <1>1 DEF Requests
  <2>3. work' = [work EXCEPT ![w] = n]
    BY <1>3 DEF CountAdmins
  <2> HIDE DEF n
  <2>4. Counted(n) /\ Exact(n)
    BY <1>1, <2>1, <2>2, AdminsCounted DEF Counted, Exact, Removes
  <2> QED  BY <1>1, <2>3, <2>4, SaveOwnStep
<1> QED  BY <1>2, <1>3

\* A commit that leaves the rows of a save and their ends alone leaves the save
\* as it was.
LEMMA ExactBeside ==
  ASSUME SaveInv, NEW v \in Workers, NEW w \in Workers, Commit(w), v # w
  PROVE  Counted(work[v])' /\ Exact(work[v])'
<1> DEFINE r == work[v]
           n == work'[v]
<1>1. r \in Requests /\ Counted(r) /\ Exact(r) /\ n = Seen(r)
  BY DEF SaveInv, IInv, TypeOK, Commit
<1>2. CASE r.step = "idle" \/ r.kind \notin {"save", "use"}
  <2>1. n = r
    BY <1>1, <1>2 DEF Seen, Requests
  <2>2. CASE r.step = "idle"
    BY <2>1, <2>2 DEF Counted, Exact
  <2>3. CASE r.kind \notin {"save", "use"}
    BY <1>1, <2>1, <2>3 DEF Counted, Exact, Removes
  <2> QED  BY <1>2, <2>2, <2>3
<1>3. CASE r.step # "idle" /\ r.kind = "use"
  <2>1. n.kind = "use"
    BY <1>1, <1>3 DEF Seen, Requests
  <2> QED  BY <2>1 DEF Counted, Exact, Removes
<1>4. CASE r.step # "idle" /\ r.kind = "save"
  <2> DEFINE scope == ScopeOf(r.on)
             t == \/ r.touched \/ grants' \cap scope # grants \cap scope
                  \/ \E g \in scope : \E o \in Ends(g) : status'[o] # status[o]
  <2>1. n = [r EXCEPT !.removed = @ \cap grants', !.touched = t]
    BY <1>1, <1>4 DEF Seen
  <2>2. t \in BOOLEAN
    OBVIOUS
  <2> HIDE DEF t
  <2>3. /\ n.step = r.step /\ n.kind = "save" /\ n.on = r.on /\ n.selected = r.selected
        /\ n.removed = r.removed \cap grants' /\ n.added = r.added /\ n.touched = t
    BY <1>1, <1>4, <2>1 DEF Requests
  <2>4. Counted(work[v])'
    BY <2>3 DEF Counted, Removes
  <2> HIDE DEF n
  <2>5. ASSUME ~ t
        PROVE  /\ ~ r.touched /\ grants' \cap scope = grants \cap scope
               /\ \A g \in scope : \A o \in Ends(g) : status'[o] = status[o]
    BY <2>5 DEF t
  <2>6. ASSUME ~ t
        PROVE  /\ r.selected \subseteq scope
               /\ \A g \in r.selected : \A o \in Ends(g) : Exists(o)'
               /\ r.removed \cap grants' = (grants' \cap scope) \ r.selected
               /\ r.step = "ready" => r.added = r.selected \ grants'
    <3>1. /\ r.selected \subseteq scope
          /\ \A g \in r.selected : \A o \in Ends(g) : Exists(o)
          /\ r.removed = (grants \cap scope) \ r.selected
          /\ r.step = "ready" => r.added = r.selected \ grants
      BY <1>1, <1>4, <2>5, <2>6 DEF Exact
    <3> HIDE DEF scope
    <3>2. \A g \in r.selected : \A o \in Ends(g) : Exists(o)'
      BY <2>5, <2>6, <3>1 DEF Exists
    <3> QED  BY <2>5, <2>6, <3>1, <3>2
  <2>7. Exact(work[v])'
    BY <2>3, <2>6 DEF Exact, n
  <2> QED  BY <2>4, <2>7
<1> QED  BY <1>2, <1>3, <1>4

LEMMA SaveNext ==
  ASSUME SaveInv, [Next]_vars
  PROVE  SaveInv'
<1>i. IInv /\ IInv'
  BY NextInvariant DEF SaveInv
<1>c. Counted(Idle) /\ Exact(Idle)
  BY IdleIsRequest DEF Counted, Exact
<1>1. CASE UNCHANGED vars
  BY <1>1, <1>i DEF SaveInv, vars, Counted, Removes, Exact, Exists
<1>2. ASSUME NEW w \in Workers, NEW r, Begin(w, r), Counted(r), Exact(r)
      PROVE  SaveInv'
  BY <1>2, <1>i, SaveOwnStep DEF Begin
<1>3. ASSUME NEW w \in Workers, OpenCreate(w)  PROVE SaveInv'
  <2>1. \A o, v : LET r == [Idle EXCEPT !.step = "ready", !.kind = "create", !.on = o, !.value = v]
                  IN  Counted(r) /\ Exact(r)
    BY DEF Idle, Counted, Removes, Exact
  <2> QED  BY <1>2, <1>3, <2>1 DEF OpenCreate
<1>4. ASSUME NEW w \in Workers, OpenEdit(w)  PROVE SaveInv'
  <2>1. \A o, v : LET r == [Idle EXCEPT !.step = IF o \in Users THEN "open" ELSE "ready",
                                       !.kind = "edit", !.on = o, !.value = v, !.was = status[o]]
                  IN  Counted(r) /\ Exact(r)
    BY DEF Idle, Counted, Removes, Exact
  <2> QED  BY <1>2, <1>4, <2>1 DEF OpenEdit
<1>5. ASSUME NEW w \in Workers, OpenDelete(w)  PROVE SaveInv'
  <2>1. \A o : LET r == [Idle EXCEPT !.step = IF o \in Users THEN "open" ELSE "ready",
                                    !.kind = "delete", !.on = o, !.was = status[o]]
               IN  Counted(r) /\ Exact(r)
    BY DEF Idle, Counted, Removes, Exact
  <2> QED  BY <1>2, <1>5, <2>1 DEF OpenDelete
<1>6. ASSUME NEW w \in Workers, OpenUse(w)  PROVE SaveInv'
  <2>1. \A u, h : LET r == [Idle EXCEPT !.step = "open", !.kind = "use", !.on = u, !.had = h]
                  IN  Counted(r) /\ Exact(r)
    BY DEF Idle, Counted, Removes, Exact
  <2> QED  BY <1>2, <1>6, <2>1 DEF OpenUse
<1>7. ASSUME NEW w \in Workers, OpenSave(w) \/ FindMissing(w) \/ CountAdmins(w)  PROVE SaveInv'
  BY <1>7, <1>i, <1>c, SaveOpen, SaveFind, SaveCount
<1>8. ASSUME NEW w \in Workers, Commit(w)  PROVE SaveInv'
  <2>1. work'[w] = Idle
    BY <1>8 DEF Commit
  <2>2. Counted(work[w])' /\ Exact(work[w])'
    BY <2>1, IdleIsRequest DEF Counted, Exact
  <2> QED  BY <1>8, <1>i, <2>2, ExactBeside DEF SaveInv
<1>9. ASSUME NEW w \in Workers, Conflict(w) \/ Fail(w)  PROVE SaveInv'
  BY <1>9, <1>i, <1>c, SaveOwnStep DEF Conflict, Fail
<1>10. ASSUME NEW w \in Workers, CheckSubscription(w) \/ PickDevice(w)  PROVE SaveInv'
  <2> DEFINE r == work[w]
             m == [r EXCEPT !.step = "ready"]
             n(d) == [r EXCEPT !.step = "idle", !.selected = {<<r.on, d>>}]
  <2>1. r \in Requests /\ r.kind = "use"
    BY <1>10 DEF CheckSubscription, PickDevice, SaveInv, IInv, TypeOK
  <2>2. m.kind = "use" /\ \A d : n(d).kind = "use"
    BY <2>1 DEF Requests
  <2>3. /\ UNCHANGED <<status, grants>>
        /\ \/ work' = [work EXCEPT ![w] = Idle] \/ work' = [work EXCEPT ![w] = m]
           \/ \E d : work' = [work EXCEPT ![w] = n(d)]
    BY <1>10 DEF CheckSubscription, PickDevice
  <2> HIDE DEF m, n
  <2>4. Counted(m) /\ Exact(m) /\ \A d : Counted(n(d)) /\ Exact(n(d))
    BY <2>2 DEF Counted, Removes, Exact
  <2> QED  BY <1>i, <1>c, <2>3, <2>4, SaveOwnStep
<1> QED
  BY <1>1, <1>3, <1>4, <1>5, <1>6, <1>7, <1>8, <1>9, <1>10 DEF Next

LEMMA SaveInvariant == Spec => []SaveInv
<1>1. Init => SaveInv
  BY InitInvariant, IdleIsRequest DEF Init, SaveInv, Counted, Exact
<1>2. SaveInv /\ [Next]_vars => SaveInv'
  BY SaveNext
<1> QED  BY <1>1, <1>2, PTL DEF Spec

LEMMA LastAdminStep ==
  ASSUME SaveInv, [Next]_vars, Admins # {}, Admins' = {}
  PROVE  \E w \in Workers : /\ work[w].step = "ready" /\ work'[w].step = "idle"
                            /\ \/ work[w].count > Cardinality(Admins)
                               \/ work[w].was # "admin"
<1>1. status' # status
  BY DEF Admins
<1>2. PICK w \in Workers : Commit(w)
  BY <1>1 DEF Next, vars, Begin, OpenCreate, OpenEdit, OpenDelete, OpenSave, OpenUse,
     CountAdmins, FindMissing, Conflict, Fail, CheckSubscription, PickDevice
<1> DEFINE r == work[w]
<1>3. /\ r.step = "ready" /\ ~ Refused(r) /\ status' = StatusAfter(r) /\ work'[w] = Idle
      /\ Counted(r) /\ r.on \in Objects
      /\ status \in [Objects -> Roles \cup {"on", "off", "new", "gone"}]
  BY <1>2 DEF Commit, SaveInv, IInv, TypeOK, Knows
<1>4. \A o \in Objects \ {r.on} : status'[o] = status[o]
  BY <1>3 DEF StatusAfter
<1>5. Admins \subseteq {r.on} /\ r.on \in Users /\ status[r.on] = "admin"
  <2>1. Admins \subseteq {r.on}
    BY <1>4 DEF Admins, Objects
  <2> QED  BY <2>1 DEF Admins
<1>6. r.kind = "delete" \/ (r.kind = "edit" /\ r.value # r.was)
  BY <1>1, <1>3, <1>5 DEF StatusAfter, Refused
<1>7. Cardinality(Admins) <= 1 /\ Cardinality(Admins) \in Nat
  <2>1. IsFiniteSet({r.on}) /\ Cardinality({r.on}) = 1
    BY FS_Singleton
  <2> QED  BY <1>5, <2>1, AdminsCounted, FS_Subset
<1>8. CASE r.was = "admin"
  <2>1. Removes(r)
    BY <1>5, <1>6, <1>8 DEF Removes
  <2>2. r.count > Cardinality(Admins)
    BY <1>3, <1>7, <2>1 DEF Counted
  <2> QED  BY <1>3, <2>2, IdleIsRequest
<1>9. CASE r.was # "admin"
  BY <1>3, <1>9, IdleIsRequest
<1> QED  BY <1>8, <1>9

\* With any number of workers, the last administrator is lost only to a count, or
\* to a role, that another commit has made old (admin/routes.py, user_edit,
\* user_delete).
THEOREM LastAdminOnlyRaced == Spec => LastAdminLostToRace
<1>1. SaveInv /\ [Next]_vars =>
        [(Admins # {} /\ Admins' = {}) =>
           \E w \in Workers : /\ work[w].step = "ready" /\ work'[w].step = "idle"
                              /\ \/ work[w].count > Cardinality(Admins)
                                 \/ work[w].was # "admin"]_vars
  BY LastAdminStep
<1> QED  BY <1>1, SaveInvariant, PTL DEF Spec, LastAdminLostToRace

LEMMA ExactStep ==
  ASSUME SaveInv, [Next]_vars, NEW w \in Workers,
         work[w].kind = "save", work[w].step = "ready", ~ work[w].touched
  PROVE  /\ ~ Refused(work[w])
         /\ grants' # grants /\ work'[w] = Idle =>
              grants' \cap ScopeOf(work[w].on) = work[w].selected
<1> DEFINE r == work[w]
           scope == ScopeOf(r.on)
<1>1. /\ r \in Requests /\ r.selected \subseteq scope
      /\ \A g \in r.selected : \A o \in Ends(g) : Exists(o)
      /\ r.removed = (grants \cap scope) \ r.selected
      /\ r.added = r.selected \ grants
  BY DEF SaveInv, IInv, TypeOK, Exact
<1>2. ~ Refused(r)
  BY <1>1 DEF Refused
<1>3. ASSUME grants' # grants, work'[w] = Idle
      PROVE  grants' \cap scope = r.selected
  <2>1. PICK v \in Workers : Commit(v)
    BY <1>3 DEF Next, vars, Begin, OpenCreate, OpenEdit, OpenDelete, OpenSave, OpenUse,
       CountAdmins, FindMissing, Conflict, Fail, CheckSubscription, PickDevice
  <2>2. CASE v # w
    <3>1. Seen(r).kind = "save"
      BY <1>1 DEF Seen, Requests
    <3>2. work'[w] = Seen(r)
      BY <2>1, <2>2 DEF Commit
    <3> QED  BY <1>3, <3>1, <3>2, IdleIsRequest
  <2>3. CASE v = w
    <3>1. grants' = (grants \ r.removed) \cup r.added
      BY <2>1, <2>3 DEF Commit, GrantsAfter
    <3> HIDE DEF scope
    <3> QED  BY <1>1, <3>1
  <2> QED  BY <2>2, <2>3
<1> QED  BY <1>2, <1>3

\* A save whose rows nobody else changes is not refused and leaves exactly what
\* was selected (admin/routes.py, user_subscriptions, device_assignments).
THEOREM SavesAreExact == Spec => UndisturbedSaveIsExact
<1>1. SaveInv /\ [Next]_vars =>
        [\A w \in Workers :
           LET r == work[w]
           IN  r.kind = "save" /\ r.step = "ready" /\ ~ r.touched =>
                 /\ ~ Refused(r)
                 /\ grants' # grants /\ work'[w] = Idle =>
                      grants' \cap ScopeOf(r.on) = r.selected]_vars
  BY ExactStep
<1> QED  BY <1>1, SaveInvariant, PTL DEF Spec, UndisturbedSaveIsExact

-----------------------------------------------------------------------------
(* PolicyPages                                                             *)

(* The list a page is cut from.                                            *)

Policies == [id: Nat, name: Nat, status: {"enable", "disable"}]

LEMMA MatchingFinite ==
  ASSUME NEW v \in Versions, NEW f
  PROVE  /\ IsFiniteSet(Matching(PoliciesOf[v], f))
         /\ Cardinality(Matching(PoliciesOf[v], f)) \in Nat
<1>1. PoliciesOf[v] \in Seq(Policies)
  BY PagesAssumption DEF Policies
<1>2. DOMAIN PoliciesOf[v] = 1 .. Len(PoliciesOf[v]) /\ Len(PoliciesOf[v]) \in Nat
  BY <1>1
<1>3. IsFiniteSet(1 .. Len(PoliciesOf[v]))
  BY <1>2, FS_Interval
<1>4. Matching(PoliciesOf[v], f) \subseteq 1 .. Len(PoliciesOf[v])
  BY <1>2 DEF Matching
<1> QED  BY <1>3, <1>4, FS_Subset, FS_CardinalityType

LEMMA MatchingOrder ==
  ASSUME NEW v \in Versions, NEW f \in Forms
  PROVE  LET policies == PoliciesOf[v]
             places == Matching(policies, f)
             R == {p \in places \X places : Before(policies, f, p[1], p[2])}
         IN  IsOrder(places, R) /\ \A m, n \in places : <<m, n>> \in R <=> Before(policies, f, m, n)
<1> DEFINE policies == PoliciesOf[v]
           places == Matching(policies, f)
           R == {p \in places \X places : Before(policies, f, p[1], p[2])}
<1>1. policies \in Seq(Policies)
  BY PagesAssumption DEF Policies
<1>2. \A n \in places : n \in Nat /\ policies[n].id \in Nat /\ policies[n].name \in Nat
  <2>1. \A n \in DOMAIN policies : n \in Nat /\ policies[n] \in Policies
    BY <1>1
  <2>2. \A n \in places : n \in DOMAIN policies
    BY DEF Matching
  <2> QED  BY <2>1, <2>2 DEF Policies
<1>3. \A m, n \in places : <<m, n>> \in R <=> Before(policies, f, m, n)
  OBVIOUS
<1> HIDE DEF R, places, policies
<1>4. \A m \in places : ~ Before(policies, f, m, m)
  BY <1>2 DEF Before
<1>5. \A l, m, n \in places :
        Before(policies, f, l, m) /\ Before(policies, f, m, n) => Before(policies, f, l, n)
  BY <1>2 DEF Before
<1>6. \A m, n \in places : m = n \/ Before(policies, f, m, n) \/ Before(policies, f, n, m)
  BY <1>2 DEF Before
<1>7. IsOrder(places, R)
  BY <1>3, <1>4, <1>5, <1>6 DEF IsOrder
<1> QED  BY <1>3, <1>7 DEF R, places, policies

Listed(v, f) == Sorted(PoliciesOf[v], f)

LEMMA ListedType ==
  ASSUME NEW v \in Versions, NEW f \in Forms
  PROVE  /\ Listed(v, f) \in Seq(Policies)
         /\ Len(Listed(v, f)) = Cardinality(Matching(PoliciesOf[v], f))
<1> DEFINE policies == PoliciesOf[v]
           places == Matching(policies, f)
           R == {p \in places \X places : Before(policies, f, p[1], p[2])}
           place == InOrder(places, R)
           n == Cardinality(places)
<1>1. policies \in Seq(Policies)
  BY PagesAssumption DEF Policies
<1>2. IsFiniteSet(places) /\ n \in Nat
  BY MatchingFinite
<1>3. IsOrder(places, R)
  BY MatchingOrder
<1>4. Listed(v, f) = [k \in 1 .. n |-> policies[place[k]]]
  BY DEF Listed, Sorted
<1>5. places \subseteq DOMAIN policies
  BY DEF Matching
<1> HIDE DEF R, places, policies
<1>6. place \in Bijection(1 .. n, places)
  BY <1>2, <1>3, InOrderIs
<1> HIDE DEF place
<1>7. \A k \in 1 .. n : place[k] \in places
  BY <1>6 DEF Bijection, Injection
<1>8. \A k \in 1 .. n : policies[place[k]] \in Policies
  BY <1>1, <1>5, <1>7
<1>9. Listed(v, f) \in [1 .. n -> Policies]
  BY <1>4, <1>8
<1> HIDE DEF n
<1>10. Listed(v, f) \in Seq(Policies) /\ Len(Listed(v, f)) = n
  BY <1>2, <1>9
<1> QED  BY <1>10 DEF n, places, policies

\* A list that pages are cut from holds each policy that passes the filter
\* once, and in the order asked for: of the search, the risk assessment and the
\* DoS policies, for every snapshot and every form.
THEOREM ListingIsSorted ==
  ASSUME NEW v \in Versions, NEW f \in Forms
  PROVE  \E place \in Bijection(1 .. Len(Listed(v, f)), Matching(PoliciesOf[v], f)) :
           /\ \A k \in 1 .. Len(Listed(v, f)) : Listed(v, f)[k] = PoliciesOf[v][place[k]]
           /\ \A j, k \in 1 .. Len(Listed(v, f)) :
                j < k <=> Before(PoliciesOf[v], f, place[j], place[k])
<1> DEFINE policies == PoliciesOf[v]
           places == Matching(policies, f)
           R == {p \in places \X places : Before(policies, f, p[1], p[2])}
           place == InOrder(places, R)
           n == Cardinality(places)
<1>1. IsOrder(places, R) /\ \A l, m \in places : <<l, m>> \in R <=> Before(policies, f, l, m)
  BY MatchingOrder
<1>2. IsFiniteSet(places)
  BY MatchingFinite
<1>3. Listed(v, f) = [k \in 1 .. n |-> policies[place[k]]]
  BY DEF Listed, Sorted
<1> HIDE DEF R, places, policies
<1>4. /\ place \in Bijection(1 .. n, places)
      /\ \A j, k \in 1 .. n : j < k <=> <<place[j], place[k]>> \in R
  BY <1>1, <1>2, InOrderIs
<1> HIDE DEF place
<1>5. \A k \in 1 .. n : place[k] \in places
  BY <1>4 DEF Bijection, Injection
<1>6. \A j, k \in 1 .. n : j < k <=> Before(policies, f, place[j], place[k])
  BY <1>1, <1>4, <1>5
<1>7. Len(Listed(v, f)) = n
  BY ListedType DEF places, policies
<1>8. \A k \in 1 .. n : Listed(v, f)[k] = policies[place[k]]
  BY <1>3
<1> QED  BY <1>4, <1>6, <1>7, <1>8 DEF places, policies

-----------------------------------------------------------------------------
(* Pages.                                                                  *)

LEMMA PageNumber ==
  ASSUME NEW p \in Nat
  PROVE  /\ p * PageLimit \in Nat
         /\ (p * PageLimit) \div PageLimit = p
         /\ (p + 1) * PageLimit = p * PageLimit + PageLimit
  BY PagesAssumption

LEMMA LeastOfTwo ==
  ASSUME NEW a \in Int, NEW b \in Int
  PROVE  Min({a, b}) = IF a <= b THEN a ELSE b
<1>1. CASE a <= b
  <2>1. a \in {a, b} /\ \A y \in {a, b} : a <= y
    BY <1>1
  <2>2. \A x \in {a, b} : (\A y \in {a, b} : x <= y) => x = a
    BY <1>1
  <2> QED  BY <1>1, <2>1, <2>2 DEF Min
<1>2. CASE ~ (a <= b)
  <2>1. b \in {a, b} /\ \A y \in {a, b} : b <= y
    BY <1>2
  <2>2. \A x \in {a, b} : (\A y \in {a, b} : x <= y) => x = b
    BY <1>2
  <2> QED  BY <1>2, <2>1, <2>2 DEF Min
<1> QED  BY <1>1, <1>2

\* The rows of a page follow those of the pages before it; there are none past
\* the end of the list.
LEMMA SliceFollows ==
  ASSUME NEW list \in Seq(Policies), NEW offset \in Nat
  PROVE  /\ Slice(list, offset) \in Seq(Policies)
         /\ Slice(list, offset) # <<>> <=> offset < Len(list)
         /\ offset <= Len(list) =>
              LET seen == IF offset + PageLimit <= Len(list) THEN offset + PageLimit ELSE Len(list)
              IN  SubSeq(list, 1, offset) \o Slice(list, offset) = SubSeq(list, 1, seen)
<1> DEFINE last == IF offset + PageLimit <= Len(list) THEN offset + PageLimit ELSE Len(list)
<1>0. PageLimit \in Nat \ {0}
  BY PagesAssumption
<1>1. Len(list) \in Nat
  OBVIOUS
<1>2. Slice(list, offset) = SubSeq(list, offset + 1, last) /\ last \in 0 .. Len(list)
  BY <1>0, <1>1, LeastOfTwo DEF Slice
<1>3. \A i \in offset + 1 .. last : list[i] \in Policies
  BY <1>2
<1>4. /\ Slice(list, offset) \in Seq(Policies)
      /\ Len(Slice(list, offset)) = IF offset + 1 <= last THEN last - offset ELSE 0
  BY <1>2, <1>3, SubSeqProperties
<1>5. offset < Len(list) <=> offset + 1 <= last
  BY <1>0, <1>1
<1>6. Slice(list, offset) # <<>> <=> Len(Slice(list, offset)) # 0
  BY <1>4, EmptySeq
<1>7. offset <= Len(list) => SubSeq(list, 1, offset) \o Slice(list, offset) = SubSeq(list, 1, last)
  <2> SUFFICES ASSUME offset <= Len(list)
               PROVE  SubSeq(list, 1, offset) \o SubSeq(list, offset + 1, last) = SubSeq(list, 1, last)
    BY <1>2
  <2>1. 1 \in 1 .. Len(list) + 1 /\ offset \in 1 - 1 .. Len(list) /\ last \in offset .. Len(list)
    BY <1>0, <1>1
  <2> HIDE DEF last
  <2> QED  BY <2>1, ConcatAdjacentSubSeq
<1> QED  BY <1>0, <1>1, <1>4, <1>5, <1>6, <1>7

-----------------------------------------------------------------------------
(* What holds while the client walks.                                      *)

Asked(f, p) == [form |-> f, offset |-> p * PageLimit]

AnswerFrom(v, r) ==
  [rows |-> Slice(Listed(v, r.form), r.offset), offset |-> r.offset, form |-> r.form,
   total |-> Len(Listed(v, r.form)), failed |-> FALSE]

RequestOk(r) == \E f \in Forms, p \in Nat : r = Asked(f, p)
AnswerOk(a) ==
  a = Failure \/ \E v \in Versions, f \in Forms, p \in Nat : a = AnswerFrom(v, Asked(f, p))

PagesType ==
  /\ script \in {"catalog", "dos"} /\ version \in Versions /\ form \in Forms
  /\ currentPage \in Nat /\ totalResults \in Nat /\ nav \in BOOLEAN
  /\ table \in [visible: BOOLEAN, offset: Nat, form: Forms] /\ single \in BOOLEAN
  /\ \A r \in requests : RequestOk(r)
  /\ \A a \in answers : AnswerOk(a)
  /\ walk \in [on: BOOLEAN, rows: Seq(Policies)]

\* Where the catalogue offers Next, the rows of its current page are in view.
TableInv ==
  script = "catalog" /\ nav /\ (currentPage + 1) * PageLimit < totalResults =>
    table.visible /\ table.offset = currentPage * PageLimit

\* All is answered: the pages up to the current one have been shown.
Rested ==
  LET list == Listing(form)
      end == (currentPage + 1) * PageLimit
  IN  /\ requests = {} /\ answers = {}
      /\ totalResults = Len(list)
      /\ Len(walk.rows) = IF end <= Len(list) THEN end ELSE Len(list)
      /\ nav <=> IF script = "catalog" THEN Len(list) > 0 ELSE end < Len(list)

\* One page is asked for, the next.
Fetching(p) ==
  /\ Len(walk.rows) = p * PageLimit
  /\ script = "dos" => currentPage = p
  /\ \/ requests = {Asked(form, p)} /\ answers = {}
     \/ requests = {} /\ answers = {Failure}
     \/ requests = {} /\ answers = {Answer(Asked(form, p))}

WalkInv ==
  walk.on =>
    /\ Len(walk.rows) <= Len(Listing(form))
    /\ walk.rows = SubSeq(Listing(form), 1, Len(walk.rows))
    /\ Rested \/ \E p \in Nat : Fetching(p)

\* After a single search nothing is of other filters than the form shows.
SingleInv ==
  single =>
    /\ \A r \in requests : r.form = form
    /\ \A a \in answers : ~ a.failed => a.form = form
    /\ table.visible => table.form = form

PagesInv == PagesType /\ TableInv /\ WalkInv /\ SingleInv

LEMMA AnswerIsFrom == \A r : Answer(r) = AnswerFrom(version, r)
  BY DEF Answer, AnswerFrom, Listing, Listed

LEMMA AskedType ==
  ASSUME NEW f \in Forms, NEW p \in Nat
  PROVE  /\ RequestOk(Asked(f, p)) /\ Asked(f, p).form = f
         /\ Asked(f, p).offset = p * PageLimit /\ p * PageLimit \in Nat
  BY PageNumber DEF RequestOk, Asked

LEMMA AnswerType ==
  ASSUME NEW a, AnswerOk(a), a # Failure
  PROVE  /\ a.failed = FALSE /\ a.total \in Nat /\ a.offset \in Nat /\ a.rows \in Seq(Policies)
         /\ a.offset \div PageLimit \in Nat
         /\ a.offset = (a.offset \div PageLimit) * PageLimit
         /\ a.rows # <<>> <=> a.offset < a.total
         /\ a.form \in Forms
<1>1. PICK v \in Versions, f \in Forms, p \in Nat : a = AnswerFrom(v, Asked(f, p))
  BY DEF AnswerOk
<1>2. /\ Asked(f, p).form = f /\ Asked(f, p).offset = p * PageLimit /\ p * PageLimit \in Nat
      /\ (p * PageLimit) \div PageLimit = p
  BY AskedType, PageNumber
<1>3. /\ a.failed = FALSE /\ a.total = Len(Listed(v, f)) /\ a.offset = p * PageLimit /\ a.form = f
      /\ a.rows = Slice(Listed(v, f), p * PageLimit)
  BY <1>1, <1>2 DEF AnswerFrom
<1>4. Listed(v, f) \in Seq(Policies)
  BY ListedType
<1>5. Len(Listed(v, f)) \in Nat
  BY <1>4
<1>6. /\ Slice(Listed(v, f), p * PageLimit) \in Seq(Policies)
      /\ Slice(Listed(v, f), p * PageLimit) # <<>> <=> p * PageLimit < Len(Listed(v, f))
  BY <1>2, <1>4, SliceFollows
<1> QED  BY <1>2, <1>3, <1>5, <1>6

LEMMA ListingType ==
  ASSUME PagesType
  PROVE  Listing(form) \in Seq(Policies) /\ Len(Listing(form)) \in Nat
<1>1. Listing(form) = Listed(version, form)
  BY DEF Listing, Listed
<1>2. Listing(form) \in Seq(Policies)
  BY <1>1, ListedType DEF PagesType
<1> QED  BY <1>2

LEMMA NoTableType == NoFilter \in Forms /\ NoTable \in [visible: BOOLEAN, offset: Nat, form: Forms]
<1>1. NoFilter \in Forms
  BY DEF NoFilter, Forms
<1> QED  BY <1>1 DEF NoTable

LEMMA PagesInitOk == PagesInit => PagesInv
<1> SUFFICES ASSUME PagesInit PROVE PagesInv
  OBVIOUS
<1>1. form \in Forms
  BY NoTableType DEF PagesInit
<1>2. requests = {Asked(form, 0)}
  BY <1>1, PagesAssumption DEF PagesInit, Asked
<1>3. <<>> \in Seq(Policies) /\ Len(<<>>) = 0
  OBVIOUS
<1>4. PagesType
  <2>1. table \in [visible: BOOLEAN, offset: Nat, form: Forms]
    BY NoTableType DEF PagesInit
  <2>2. (\A r \in requests : RequestOk(r)) /\ answers = {}
    BY <1>1, <1>2, AskedType DEF PagesInit
  <2> QED  BY <1>1, <1>3, <2>1, <2>2 DEF PagesInit, PagesType
<1>5. TableInv /\ SingleInv
  BY DEF PagesInit, TableInv, SingleInv, NoTable
<1>6. Fetching(0)
  BY <1>1, <1>2, <1>3, PagesAssumption DEF PagesInit, Fetching
<1>7. walk.rows = <<>> /\ Len(Listing(form)) \in Nat
  BY <1>4, ListingType DEF PagesInit
<1>8. <<>> = SubSeq(Listing(form), 1, 0)
  BY SubSeqEmpty
<1>9. WalkInv
  BY <1>3, <1>6, <1>7, <1>8 DEF WalkInv
<1> QED  BY <1>4, <1>5, <1>9 DEF PagesInv

\* A page is asked for: the next of an undisturbed walk, or the first of a new one.
LEMMA AskKeeps ==
  ASSUME PagesInv, NEW press, NEW f \in Forms, NEW nr \in Nat,
         Ask(press, f, nr),
         form' = f, currentPage' \in Nat, nav' \in BOOLEAN,
         script = "catalog" => nav' = FALSE,
         press = "next" /\ walk.on /\ ~ Waiting =>
           /\ f = form /\ Len(walk.rows) = nr * PageLimit
           /\ script = "dos" => currentPage' = nr,
         press = "load" => nr = 0 /\ (script = "dos" => currentPage' = 0)
  PROVE  PagesInv'
<1>1. requests' = requests \cup {Asked(f, nr)} /\ RequestOk(Asked(f, nr))
  BY AskedType DEF Ask, Asked
<1>2. walk' \in [on: BOOLEAN, rows: Seq(Policies)]
  BY DEF Ask, Walked, Disturbed, PagesInv, PagesType
<1>3. PagesType'
  <2>1. table' = NoTable /\ single' \in BOOLEAN
    BY DEF Ask
  <2> QED  BY <1>1, <1>2, <2>1, NoTableType DEF Ask, PagesInv, PagesType
<1>4. TableInv'
  BY DEF Ask, TableInv
<1>6. SingleInv'
  BY <1>1, AskedType DEF Ask, SingleInv, Waiting, NoTable
<1>5. ASSUME walk'.on PROVE WalkInv'
  <2>1. ~ Waiting /\ press \in {"next", "load"}
    BY <1>5 DEF Ask, Walked, Disturbed
  <2>2. requests' = {Asked(f, nr)} /\ answers' = {}
    BY <1>1, <2>1 DEF Waiting, Ask
  <2>3. CASE press = "next"
    <3>1. walk' = walk /\ walk.on
      BY <1>5, <2>1, <2>3 DEF Ask, Walked
    <3>2. f = form /\ Len(walk.rows) = nr * PageLimit /\ (script = "dos" => currentPage' = nr)
      BY <2>1, <2>3, <3>1
    <3>3. Listing(form)' = Listing(form)
      BY <3>2 DEF Ask, Listing
    <3>4. Fetching(nr)'
      BY <2>2, <3>1, <3>2 DEF Fetching, Ask
    <3> QED  BY <3>1, <3>3, <3>4 DEF PagesInv, WalkInv
  <2>4. CASE press = "load"
    <3>1. walk' = [on |-> TRUE, rows |-> <<>>]
      BY <2>1, <2>4 DEF Ask, Walked
    <3>2. nr = 0 /\ (script = "dos" => currentPage' = 0) /\ 0 * PageLimit = 0
      BY <2>4, PagesAssumption
    <3>3. Fetching(0)'
      BY <2>2, <3>1, <3>2 DEF Fetching, Ask
    <3>4. walk'.rows = SubSeq(Listing(form)', 1, 0) /\ Len(walk'.rows) = 0
      BY <3>1, SubSeqEmpty
    <3>5. Len(Listing(form)') \in Nat
      <4>1. Listing(form)' = Listed(version', form')
        BY DEF Listing, Listed
      <4>2. Listed(version', form') \in Seq(Policies)
        BY <1>3, ListedType DEF PagesType
      <4> QED  BY <4>1, <4>2
    <3> QED  BY <3>3, <3>4, <3>5 DEF WalkInv
  <2> QED  BY <2>1, <2>3, <2>4
<1> QED  BY <1>3, <1>4, <1>5, <1>6 DEF PagesInv, WalkInv

\* The place of an undisturbed walk that waits for nothing.
LEMMA AtRest ==
  ASSUME PagesInv, walk.on, ~ Waiting
  PROVE  /\ Rested /\ Len(Listing(form)) \in Nat
         /\ (currentPage + 1) * PageLimit \in Nat
         /\ NextOffered => Len(walk.rows) = (currentPage + 1) * PageLimit
<1>1. Rested
  BY DEF PagesInv, WalkInv, Fetching, Waiting
<1>2. Len(Listing(form)) \in Nat /\ currentPage + 1 \in Nat
  BY ListingType DEF PagesInv, PagesType
<1>3. (currentPage + 1) * PageLimit \in Nat
  BY <1>2, PageNumber
<1>4. script \in {"catalog", "dos"}
  BY DEF PagesInv, PagesType
<1> QED  BY <1>1, <1>2, <1>3, <1>4 DEF Rested, NextOffered

LEMMA ServeKeeps ==
  ASSUME PagesInv, NEW r \in requests, Serve(r)
  PROVE  PagesInv'
<1>1. PICK f \in Forms, n \in Nat : r = Asked(f, n)
  BY DEF PagesInv, PagesType, RequestOk
<1>2. Answer(r) = AnswerFrom(version, r) /\ version \in Versions
  BY AnswerIsFrom DEF PagesInv, PagesType
<1>3. AnswerOk(Answer(r))
  BY <1>1, <1>2 DEF AnswerOk
<1>4. PagesType'
  BY <1>3 DEF Serve, PagesInv, PagesType
<1>5. TableInv' /\ SingleInv'
  <2>1. Answer(r).form = r.form
    BY DEF Answer
  <2> QED  BY <2>1 DEF Serve, PagesInv, TableInv, SingleInv
<1>6. ASSUME walk.on PROVE WalkInv'
  <2>1. PICK p \in Nat : Fetching(p)
    BY <1>6 DEF PagesInv, WalkInv, Rested
  <2>2. requests = {Asked(form, p)} /\ answers = {} /\ r = Asked(form, p)
    BY <2>1 DEF Fetching
  <2>3. Listing(form)' = Listing(form) /\ Answer(Asked(form, p))' = Answer(Asked(form, p))
    BY DEF Serve, Listing, Answer, Asked
  <2>4. requests' = {} /\ answers' = {Answer(Asked(form, p))'}
    BY <2>2, <2>3 DEF Serve
  <2>5. Fetching(p)'
    BY <2>1, <2>4 DEF Fetching, Serve
  <2> QED  BY <1>6, <2>3, <2>5 DEF Serve, PagesInv, WalkInv
<1> QED  BY <1>4, <1>5, <1>6 DEF PagesInv, WalkInv, Serve

LEMMA ServeFailsKeeps ==
  ASSUME PagesInv, NEW r \in requests, ServeFails(r)
  PROVE  PagesInv'
<1>1. PagesType'
  BY DEF ServeFails, PagesInv, PagesType, AnswerOk
<1>2. TableInv' /\ SingleInv'
  BY DEF ServeFails, PagesInv, TableInv, SingleInv, Failure
<1>3. ASSUME walk.on PROVE WalkInv'
  <2>1. PICK p \in Nat : Fetching(p)
    BY <1>3 DEF PagesInv, WalkInv, Rested
  <2>2. requests = {Asked(form, p)} /\ answers = {} /\ r = Asked(form, p)
    BY <2>1 DEF Fetching
  <2>3. Listing(form)' = Listing(form)
    BY DEF ServeFails, Listing
  <2>4. requests' = {} /\ answers' = {Failure}
    BY <2>2 DEF ServeFails
  <2>5. Fetching(p)'
    BY <2>1, <2>4 DEF Fetching, ServeFails
  <2> QED  BY <1>3, <2>3, <2>5 DEF ServeFails, PagesInv, WalkInv
<1> QED  BY <1>1, <1>2, <1>3 DEF PagesInv, WalkInv, ServeFails

LEMMA ShowKeeps ==
  ASSUME PagesInv, NEW a \in answers, ~ a.failed, Show(a)
  PROVE  PagesInv'
<1>0. AnswerOk(a) /\ a # Failure
  BY DEF PagesInv, PagesType, Failure
<1>1. /\ a.total \in Nat /\ a.offset \in Nat /\ a.rows \in Seq(Policies)
      /\ a.offset \div PageLimit \in Nat
      /\ a.offset = (a.offset \div PageLimit) * PageLimit
      /\ a.rows # <<>> <=> a.offset < a.total
      /\ a.form \in Forms
  BY <1>0, AnswerType
<1>2. walk' \in [on: BOOLEAN, rows: Seq(Policies)]
  <2>1. walk.rows \o a.rows \in Seq(Policies)
    BY <1>1 DEF PagesInv, PagesType
  <2> QED  BY <2>1 DEF Show, PagesInv, PagesType
<1>3. PagesType'
  <2>1. script' = script /\ version' = version /\ form' = form /\ requests' = requests
    BY DEF Show
  <2>2. currentPage' \in Nat /\ totalResults' \in Nat
    BY <1>1 DEF Show, PagesInv, PagesType
  <2>5. nav' = (a.total > 0) \/ nav' = (a.offset + PageLimit < a.total)
    BY DEF Show
  <2>6. (a.total > 0) \in BOOLEAN /\ (a.offset + PageLimit < a.total) \in BOOLEAN
    BY <1>1, PagesAssumption
  <2>7. nav' \in BOOLEAN
    BY <2>5, <2>6
  <2>3. table' \in [visible: BOOLEAN, offset: Nat, form: Forms]
    BY <1>1, NoTableType DEF Show
  <2>4. (\A b \in answers' : AnswerOk(b)) /\ single' = single
    BY DEF Show, PagesInv, PagesType
  <2> QED  BY <1>2, <2>1, <2>2, <2>3, <2>4, <2>7 DEF PagesInv, PagesType
<1>4. TableInv'
  <2> SUFFICES ASSUME script' = "catalog", nav', (currentPage' + 1) * PageLimit < totalResults'
               PROVE  table'.visible /\ table'.offset = currentPage' * PageLimit
    BY DEF TableInv
  <2>1. currentPage' = a.offset \div PageLimit /\ totalResults' = a.total
    BY DEF Show
  <2>2. (currentPage' + 1) * PageLimit = a.offset + PageLimit
    BY <1>1, <2>1, PageNumber
  <2>3. a.offset < a.total
    BY <1>1, <2>1, <2>2, PagesAssumption
  <2> QED  BY <1>1, <2>1, <2>3 DEF Show
<1>5. ASSUME walk.on PROVE WalkInv'
  <2>1. PICK p \in Nat : Fetching(p)
    BY <1>5 DEF PagesInv, WalkInv, Rested
  <2>2. requests = {} /\ answers = {a} /\ a = Answer(Asked(form, p))
    BY <2>1, <1>0 DEF Fetching
  <2>3. form \in Forms /\ Asked(form, p).form = form /\ Asked(form, p).offset = p * PageLimit
    BY AskedType DEF PagesInv, PagesType
  <2> DEFINE list == Listing(form)
             end == p * PageLimit + PageLimit
             seen == IF end <= Len(list) THEN end ELSE Len(list)
  <2>4. a.rows = Slice(list, p * PageLimit) /\ a.offset = p * PageLimit /\ a.total = Len(list)
    BY <2>2, <2>3 DEF Answer
  <2>5. list \in Seq(Policies) /\ Len(list) \in Nat
    BY ListingType DEF PagesInv
  <2>6. /\ p * PageLimit \in Nat /\ (p * PageLimit) \div PageLimit = p
        /\ (p + 1) * PageLimit = end /\ PageLimit \in Nat \ {0}
    BY PageNumber, PagesAssumption
  <2>7. /\ Len(walk.rows) = p * PageLimit /\ Len(walk.rows) <= Len(list)
        /\ walk.rows = SubSeq(list, 1, Len(walk.rows))
    BY <1>5, <2>1 DEF Fetching, PagesInv, WalkInv
  <2>8. walk'.on /\ walk'.rows = walk.rows \o a.rows
    BY <1>5 DEF Show, PagesInv, PagesType
  <2>9. walk'.rows = SubSeq(list, 1, seen)
    <3> HIDE DEF list
    <3>1. SubSeq(list, 1, p * PageLimit) \o Slice(list, p * PageLimit) = SubSeq(list, 1, seen)
      BY <2>5, <2>6, <2>7, SliceFollows
    <3> QED  BY <2>4, <2>7, <2>8, <3>1
  <2>10. seen \in 0 .. Len(list)
    BY <2>5, <2>6
  <2>11. Len(walk'.rows) = seen
    <3>1. \A i \in 1 .. seen : list[i] \in Policies
      BY <2>5, <2>10
    <3> HIDE DEF list, seen
    <3>2. Len(SubSeq(list, 1, seen)) = IF 1 <= seen THEN seen - 1 + 1 ELSE 0
      BY <2>5, <2>10, <3>1, SubSeqProperties
    <3> QED  BY <2>9, <2>10, <3>2
  <2>12. Listing(form)' = list
    BY DEF Show, Listing
  <2>13. currentPage' = p
    BY <2>1, <2>4, <2>6 DEF Show, Fetching, PagesInv, PagesType
  <2>14. requests' = {} /\ answers' = {}
    BY <2>2 DEF Show
  <2>15. totalResults' = Len(list)
    BY <2>4 DEF Show
  <2>16. nav' <=> IF script = "catalog" THEN Len(list) > 0 ELSE end < Len(list)
    BY <2>4, <2>6 DEF Show
  <2>17. script' = script
    BY DEF Show
  <2> HIDE DEF list
  <2>18. Rested'
    BY <2>6, <2>11, <2>12, <2>13, <2>14, <2>15, <2>16, <2>17 DEF Rested
  <2> QED  BY <2>9, <2>10, <2>11, <2>12, <2>18 DEF WalkInv
<1>6. SingleInv'
  BY DEF Show, PagesInv, SingleInv, NoTable
<1> QED  BY <1>3, <1>4, <1>5, <1>6 DEF PagesInv, WalkInv, Show

\* What ends the walk and leaves the table alone.
LEMMA DisturbedKeeps ==
  ASSUME PagesInv, walk' = Disturbed, version' \in Versions, form' \in Forms,
         requests' = requests, answers' \subseteq answers,
         \/ single' = FALSE
         \/ single' = single /\ form' = form,
         UNCHANGED <<script, currentPage, totalResults, table, nav>>
  PROVE  PagesInv'
<1>1. walk' \in [on: BOOLEAN, rows: Seq(Policies)] /\ ~ walk'.on
  BY DEF Disturbed
<1>2. single' \in BOOLEAN /\ SingleInv'
  <2>1. CASE single' = FALSE
    BY <2>1 DEF SingleInv
  <2>2. CASE single' = single /\ form' = form
    <3>1. single \in BOOLEAN /\ SingleInv
      BY DEF PagesInv, PagesType
    <3>2. SingleInv'
      BY <2>2, <3>1 DEF SingleInv
    <3> QED  BY <2>2, <3>1, <3>2
  <2> QED  BY <2>1, <2>2
<1> QED  BY <1>1, <1>2 DEF PagesInv, PagesType, TableInv, WalkInv

LEMMA FormFields ==
  ASSUME NEW f \in Forms
  PROVE  /\ \A s \in {"any", "enable"} : [f EXCEPT !.status = s] \in Forms
         /\ \A field \in {"id", "name"} : [f EXCEPT !.sortBy = field, !.descending = FALSE] \in Forms
         /\ [f EXCEPT !.descending = ~ @] \in Forms
  BY DEF Forms

LEMMA PagesStep == PagesInv /\ [PagesNext]_pagesVars => PagesInv'
<1> SUFFICES ASSUME PagesInv, [PagesNext]_pagesVars PROVE PagesInv'
  OBVIOUS
<1>0. /\ script \in {"catalog", "dos"} /\ version \in Versions /\ form \in Forms
      /\ currentPage \in Nat /\ currentPage + 1 \in Nat /\ nav \in BOOLEAN /\ 0 \in Nat
      /\ currentPage > 0 => currentPage - 1 \in Nat
  BY DEF PagesInv, PagesType
<1>1. ASSUME NEW r \in requests, Serve(r) PROVE PagesInv'
  BY <1>1, ServeKeeps
<1>2. ASSUME NEW r \in requests, ServeFails(r) PROVE PagesInv'
  BY <1>2, ServeFailsKeeps
<1>3. ASSUME NEW a \in answers, a.failed, ShowFailure(a) PROVE PagesInv'
  BY <1>0, <1>3, DisturbedKeeps DEF ShowFailure
<1>4. ASSUME NEW a \in answers, ~ a.failed, Show(a) PROVE PagesInv'
  BY <1>4, ShowKeeps
<1>5. CASE Publish
  <2>1. version' \in Versions
    BY <1>5, Zenon DEF Publish
  <2>3. walk' = Disturbed
    BY <1>5 DEF Publish
  <2>2. /\ script' = script /\ form' = form /\ currentPage' = currentPage
        /\ totalResults' = totalResults /\ table' = table /\ nav' = nav
        /\ requests' = requests /\ answers' = answers /\ single' = single
    BY <1>5 DEF Publish
  <2> QED  BY <1>0, <2>1, <2>2, <2>3, DisturbedKeeps
<1>6. CASE TypeFilter
  BY <1>0, <1>6, FormFields, DisturbedKeeps DEF TypeFilter
<1>7. CASE Search
  BY <1>0, <1>7, AskKeeps DEF Search
<1>8. CASE NextPage
  <2>1. NextOffered
    BY <1>8 DEF NextPage, NextOffered
  <2>2. walk.on /\ ~ Waiting => Len(walk.rows) = (currentPage + 1) * PageLimit
    BY <2>1, AtRest
  <2> QED  BY <1>0, <1>8, <2>2, AskKeeps DEF NextPage
<1>9. CASE PrevPage
  BY <1>0, <1>9, AskKeeps DEF PrevPage
<1>10. CASE ApplyFilters
  BY <1>0, <1>10, AskKeeps DEF ApplyFilters
<1>11. CASE SortTable
  <2>1. form' \in Forms
    BY <1>0, <1>11, FormFields DEF SortTable
  <2> QED  BY <1>0, <1>11, <2>1, AskKeeps DEF SortTable
<1>12. CASE ClearFilters
  <2>1. form' \in Forms
    BY <1>0, <1>12, FormFields DEF ClearFilters
  <2> QED  BY <1>0, <1>12, <2>1, AskKeeps DEF ClearFilters
<1>13. CASE NextLive
  <2>1. NextOffered
    BY <1>13 DEF NextLive, NextOffered
  <2>2. walk.on /\ ~ Waiting => Len(walk.rows) = (currentPage + 1) * PageLimit
    BY <2>1, AtRest
  <2> QED  BY <1>0, <1>13, <2>2, AskKeeps DEF NextLive
<1>14. CASE PrevLive
  BY <1>0, <1>14, AskKeeps DEF PrevLive
<1>15. CASE UNCHANGED pagesVars
  <2>1. /\ script' = script /\ version' = version /\ form' = form /\ currentPage' = currentPage
        /\ totalResults' = totalResults /\ table' = table /\ nav' = nav
        /\ requests' = requests /\ answers' = answers /\ walk' = walk /\ single' = single
    BY <1>15 DEF pagesVars
  <2> QED  BY <2>1 DEF PagesInv, PagesType, TableInv, SingleInv, WalkInv, Rested, Fetching, Listing, Answer
<1> QED
  BY <1>1, <1>2, <1>3, <1>4, <1>5, <1>6, <1>7, <1>8, <1>9, <1>10, <1>11, <1>12, <1>13, <1>14,
     <1>15 DEF PagesNext

\* Of the pages of both scripts: whatever is pressed, typed, published, late or
\* lost, and however the list is sorted.
THEOREM PagesInvariant == PagesSpec => []PagesInv
<1>1. PagesInit => PagesInv
  BY PagesInitOk
<1>2. PagesInv /\ [PagesNext]_pagesVars => PagesInv'
  BY PagesStep
<1> QED  BY <1>1, <1>2, PTL DEF PagesSpec

\* A client that goes from page to page, each asked for when the last is in
\* view, sees the matching policies in order, and is offered Next exactly as
\* long as one is missing.
THEOREM WalksShowEachOnce == PagesSpec => []WalkShowsEachOnce
<1>1. PagesInv => WalkShowsEachOnce
  <2> SUFFICES ASSUME PagesInv, walk.on, ~ Waiting
               PROVE  /\ walk.rows = SubSeq(Listing(form), 1, Len(walk.rows))
                      /\ NextOffered <=> walk.rows # Listing(form)
    BY DEF WalkShowsEachOnce
  <2> DEFINE list == Listing(form)
             end == (currentPage + 1) * PageLimit
  <2>1. Rested /\ Len(list) \in Nat /\ end \in Nat /\ list \in Seq(Policies)
    BY AtRest, ListingType DEF PagesInv
  <2>2. walk.rows = SubSeq(list, 1, Len(walk.rows))
    BY DEF PagesInv, WalkInv
  <2>3. Len(walk.rows) = IF end <= Len(list) THEN end ELSE Len(list)
    BY <2>1 DEF Rested
  <2>4. walk.rows # list <=> end < Len(list)
    <3> HIDE DEF end
    <3>1. list = SubSeq(list, 1, Len(list))
      BY <2>1, SubSeqFull
    <3> HIDE DEF list
    <3> QED  BY <2>1, <2>2, <2>3, <3>1
  <2>5. NextOffered <=> end < Len(list)
    <3>1. CASE script = "dos"
      BY <2>1, <3>1 DEF Rested, NextOffered
    <3>2. CASE script = "catalog"
      <4>1. totalResults = Len(list) /\ (nav <=> Len(list) > 0)
        BY <2>1, <3>2 DEF Rested
      <4>2. NextOffered <=> nav /\ end < totalResults
        BY <3>2 DEF NextOffered
      <4> HIDE DEF list, end
      <4> QED  BY <2>1, <4>1, <4>2
    <3> QED  BY <3>1, <3>2 DEF PagesInv, PagesType
  <2> QED  BY <2>2, <2>4, <2>5
<1> QED  BY <1>1, PagesInvariant, PTL

\* The catalogue's Next asks for the offset that follows the rows in view, whatever
\* was answered late, lost or of an older search; and, when the last search was made
\* alone and nothing was typed since, with the filters of the rows in view.
THEOREM NextPageFollowsTable == PagesSpec => NextFollowsTable
<1>1. PagesInv /\ [PagesNext]_pagesVars =>
        [NextPage => \E r \in requests' :
                       /\ table.visible /\ r.offset = table.offset + PageLimit
                       /\ single => r.form = table.form]_pagesVars
  <2> SUFFICES ASSUME PagesInv, NextPage
               PROVE  \E r \in requests' :
                        /\ table.visible /\ r.offset = table.offset + PageLimit
                        /\ single => r.form = table.form
    OBVIOUS
  <2>1. /\ table.visible /\ table.offset = currentPage * PageLimit
        /\ single => table.form = form
    BY DEF PagesInv, TableInv, SingleInv, NextPage
  <2>2. (currentPage + 1) * PageLimit = currentPage * PageLimit + PageLimit
    BY PageNumber DEF PagesInv, PagesType
  <2>3. [form |-> form, offset |-> (currentPage + 1) * PageLimit] \in requests'
    BY DEF NextPage, Ask
  <2> QED  BY <2>1, <2>2, <2>3
<1> QED  BY <1>1, PagesInvariant, PTL DEF PagesSpec, NextFollowsTable

-----------------------------------------------------------------------------
(* DashboardLayout                                                         *)

(* What is kept of a list.                                                 *)

Places(x, S) == {n \in DOMAIN x : x[n] \in S}

LEMMA KeptType == \A S : \A x \in Seq(Cards) : Kept(x, S) \in Seq(Cards)
<1> SUFFICES ASSUME NEW S, NEW x \in Seq(Cards) PROVE Kept(x, S) \in Seq(Cards)
  OBVIOUS
<1>1. Places(x, S) \subseteq DOMAIN x
  BY DEF Places
<1> QED  BY <1>1, AtIs DEF Kept, Places

\* Keeping fewer keys, it does not matter whether others were dropped before.
LEMMA KeptOfKept ==
  ASSUME NEW x \in Seq(Cards), NEW S, NEW T, T \subseteq S
  PROVE  Kept(Kept(x, S), T) = Kept(x, T)
<1> DEFINE y == Kept(x, S)
           P == Places(x, S)
           Q == Places(y, T)
           n == Cardinality(P)
           m == Cardinality(Q)
<1>1. y \in Seq(Cards) /\ y = At(x, P) /\ Kept(y, T) = At(y, Q)
  BY KeptType DEF Kept, Places
<1>2. P \subseteq DOMAIN x /\ Q \subseteq DOMAIN y
  BY DEF Places
<1>3. \A i : i \in Places(x, T) <=> i \in P /\ x[i] \in T
  BY DEF Places
<1>4. \A k : k \in Q <=> k \in DOMAIN y /\ y[k] \in T
  BY DEF Places
<1> HIDE DEF y, P, Q
<1>5. n \in Nat /\ Len(y) = n
  BY <1>1, <1>2, AtIs
<1>6. PICK p \in Bijection(1 .. n, P) :
        /\ \A k \in 1 .. n : y[k] = x[p[k]]
        /\ \A j, k \in 1 .. n : j < k <=> p[j] < p[k]
  <2>1. \E p \in Bijection(1 .. n, P) :
          /\ \A k \in 1 .. n : At(x, P)[k] = x[p[k]]
          /\ \A j, k \in 1 .. n : j < k <=> p[j] < p[k]
    BY <1>2, AtIs
  <2> QED  BY <1>1, <2>1, Zenon
<1>7. m \in Nat /\ Len(At(y, Q)) = m /\ At(y, Q) \in Seq(Cards)
  BY <1>1, <1>2, AtIs
<1>8. PICK q \in Bijection(1 .. m, Q) :
        /\ \A k \in 1 .. m : At(y, Q)[k] = y[q[k]]
        /\ \A j, k \in 1 .. m : j < k <=> q[j] < q[k]
  BY <1>1, <1>2, AtIs
<1> HIDE DEF n, m
<1>9. /\ p \in [1 .. n -> P] /\ \A j, k \in 1 .. n : p[j] = p[k] => j = k
      /\ \A i \in P : \E k \in 1 .. n : p[k] = i
  BY DEF Bijection, Injection, Surjection, IsInjective
<1>10. /\ q \in [1 .. m -> Q] /\ \A j, k \in 1 .. m : q[j] = q[k] => j = k
       /\ \A i \in Q : \E k \in 1 .. m : q[k] = i
  BY DEF Bijection, Injection, Surjection, IsInjective
<1>11. \A k : k \in Q <=> k \in 1 .. n /\ x[p[k]] \in T
  BY <1>1, <1>4, <1>5, <1>6
<1> DEFINE r == [k \in 1 .. m |-> p[q[k]]]
<1>12. \A k \in 1 .. m : q[k] \in 1 .. n /\ p[q[k]] \in Places(x, T)
  BY <1>3, <1>9, <1>10, <1>11
<1>13. r \in [1 .. m -> Places(x, T)] /\ \A k \in 1 .. m : r[k] = p[q[k]]
  BY <1>12
<1>14. \A j, k \in 1 .. m : r[j] = r[k] => j = k
  BY <1>9, <1>10, <1>12
<1>15. \A i \in Places(x, T) : \E k \in 1 .. m : r[k] = i
  <2> SUFFICES ASSUME NEW i \in Places(x, T) PROVE \E k \in 1 .. m : r[k] = i
    OBVIOUS
  <2>1. PICK j \in 1 .. n : p[j] = i
    BY <1>3, <1>9
  <2>2. j \in Q
    BY <1>3, <1>11, <2>1
  <2>3. PICK k \in 1 .. m : q[k] = j
    BY <1>10, <2>2
  <2> QED  BY <1>13, <2>1, <2>3
<1>16. r \in Bijection(1 .. m, Places(x, T))
  BY <1>13, <1>14, <1>15 DEF Bijection, Injection, Surjection, IsInjective
<1>17. \A j, k \in 1 .. m : j < k => r[j] < r[k]
  BY <1>6, <1>8, <1>12
<1>18. Places(x, T) \subseteq Int
  <2>1. DOMAIN x = 1 .. Len(x) /\ Len(x) \in Nat
    OBVIOUS
  <2> QED  BY <2>1 DEF Places
<1> HIDE DEF r
<1>19. At(x, Places(x, T)) = [k \in 1 .. m |-> x[r[k]]]
  BY <1>7, <1>16, <1>17, <1>18, AtOnly
<1>20. At(y, Q) = [k \in 1 .. m |-> At(y, Q)[k]]
  BY <1>7
<1>21. \A k \in 1 .. m : At(y, Q)[k] = x[r[k]]
  BY <1>6, <1>8, <1>12, <1>13
<1>22. Kept(x, T) = At(x, Places(x, T))
  BY DEF Kept, Places
<1>23. Kept(y, T) = Kept(x, T)
  BY <1>1, <1>19, <1>20, <1>21, <1>22
<1> QED  BY <1>23 DEF y

-----------------------------------------------------------------------------
(* What holds of a tab whose changes follow one another.                   *)

Posted == [nr: Nat, tab: Tabs \cup {Closed}, body: Seq(Cards) \cup {Unset},
         step: {"sent", "same", "new", "saved"}]

\* A post nobody waits for is gone when it is saved.
Waited(ps) == \A p \in ps : p.step = "saved" => p.tab # Closed

LayoutType ==
  /\ subscribed \subseteq CardServices
  /\ stored \in Seq(Cards) \cup {Unset}
  /\ page \in [Tabs -> [shown: Seq(Cards), tray: SUBSET Cards]]
  /\ posts \subseteq Posted /\ Waited(posts)
  /\ sent \in Nat
  /\ calm \in [Tabs -> BOOLEAN]

\* What is stored puts on the dashboard what the list shown does.
Shown(list) == stored # Unset /\ Kept(stored, Available) = Kept(list, Available)

\* Loading tab t again would show what it shows.
Agrees(t) ==
  IF stored = Unset THEN Available \subseteq ToSet(page[t].shown) ELSE Shown(page[t].shown)

\* The one post of a calm tab carries what the tab shows.
PostOk(t, p) ==
  /\ p.body = Unset /\ p.step # "saved" => Agrees(t)
  /\ p.body # Unset =>
       /\ p.step = "sent" => p.body = page[t].shown
       /\ p.step \in {"same", "new"} => Kept(p.body, Available) = Kept(page[t].shown, Available)
       /\ p.step = "same" => stored = p.body
       /\ p.step = "saved" => Shown(page[t].shown)

CalmTab(t) ==
  \/ posts = {} /\ Agrees(t)
  \/ \E p \in posts : posts = {p} /\ p.tab = t /\ PostOk(t, p)

LayoutInv == LayoutType /\ \A t \in Tabs : calm[t] => CalmTab(t)

LEMMA AvailableCards == LayoutType => Available \subseteq Cards
  BY DEF LayoutType, Available, Cards

\* The default layout has every card the user may have.
LEMMA OrderOf ==
  ASSUME subscribed \subseteq CardServices, NEW order \in Orders
  PROVE  order \in Seq(Cards) /\ Available \subseteq ToSet(order)
<1> DEFINE n == Cardinality(subscribed)
<1>1. PICK s \in SetToSeqs(subscribed) : order = Append(s, Catalog)
  BY DEF Orders
<1>2. IsFiniteSet(subscribed) /\ n \in Nat
  BY CardsAssumption, FS_Subset, FS_CardinalityType
<1>3. s \in [1 .. n -> subscribed] /\ \A i, j \in 1 .. n : i # j => s[i] # s[j]
  BY <1>1 DEF SetToSeqs
<1>4. s \in Injection(1 .. n, subscribed)
  BY <1>3 DEF Injection, IsInjective
<1>5. s \in Surjection(1 .. n, subscribed)
  BY <1>2, <1>4, FS_Interval, FS_Injection
<1> HIDE DEF n
<1>6. s \in Seq(Cards) /\ Len(s) = n /\ Catalog \in Cards
  <2>1. \A i \in 1 .. n : s[i] \in Cards
    BY <1>3 DEF Cards
  <2>2. s = [i \in 1 .. n |-> s[i]]
    BY <1>3
  <2> QED  BY <1>2, <2>1, <2>2 DEF Cards
<1>7. /\ order \in Seq(Cards) /\ Len(order) = n + 1
      /\ \A i \in 1 .. n : order[i] = s[i]
      /\ order[n + 1] = Catalog
  BY <1>1, <1>2, <1>6
<1>8. DOMAIN order = 1 .. n + 1
  BY <1>7
<1>9. ASSUME NEW k \in subscribed PROVE k \in ToSet(order)
  <2>1. PICK i \in 1 .. n : s[i] = k
    BY <1>5 DEF Surjection
  <2>2. i \in DOMAIN order /\ order[i] = k
    BY <1>2, <1>7, <1>8, <2>1
  <2> QED  BY <2>2 DEF ToSet
<1>10. Catalog \in ToSet(order)
  <2>1. n + 1 \in DOMAIN order
    BY <1>2, <1>8
  <2> QED  BY <1>7, <2>1 DEF ToSet
<1> QED  BY <1>7, <1>9, <1>10 DEF Available

LEMMA LoadAgrees ==
  ASSUME LayoutType, NEW t \in Tabs, NEW atWork, Load(t, atWork)
  PROVE  /\ page' \in [Tabs -> [shown: Seq(Cards), tray: SUBSET Cards]]
         /\ calm' \in [Tabs -> BOOLEAN]
         /\ Agrees(t)'
         /\ \A s \in Tabs \ {t} : page'[s] = page[s] /\ calm'[s] = calm[s]
         /\ calm'[t] => atWork = {}
<1>1. PICK order \in Orders : page' = [page EXCEPT ![t] = Resolve(order)]
  BY DEF Load
<1>2. order \in Seq(Cards) /\ Available \subseteq ToSet(order)
  BY <1>1, OrderOf DEF LayoutType
<1>3. Resolve(order) = [shown |-> IF stored = Unset THEN order ELSE Kept(stored, Available),
                        tray |-> Available \ ToSet(IF stored = Unset THEN order ELSE Kept(stored, Available))]
  BY DEF Resolve, Sanitize
<1>4. Resolve(order).shown \in Seq(Cards)
  BY <1>2, <1>3, KeptType DEF LayoutType
<1>5. Resolve(order) \in [shown: Seq(Cards), tray: SUBSET Cards]
  BY <1>3, <1>4, AvailableCards
<1>6. page' \in [Tabs -> [shown: Seq(Cards), tray: SUBSET Cards]]
  BY <1>1, <1>5 DEF LayoutType
<1>7. page'[t] = Resolve(order) /\ \A s \in Tabs \ {t} : page'[s] = page[s]
  BY <1>1 DEF LayoutType
<1>8. /\ calm' \in [Tabs -> BOOLEAN] /\ (calm'[t] <=> atWork = {})
      /\ \A s \in Tabs \ {t} : calm'[s] = calm[s]
  <2>1. (atWork = {}) \in BOOLEAN
    OBVIOUS
  <2> QED  BY <2>1 DEF Load, LayoutType
<1>9. Available' = Available /\ stored' = stored
  BY DEF Load, Available
<1>10. Agrees(t)'
  <2>1. CASE stored = Unset
    <3>1. page'[t].shown = order
      BY <1>3, <1>7, <2>1
    <3> QED  BY <1>2, <1>9, <2>1, <3>1 DEF Agrees
  <2>2. CASE stored # Unset
    <3>1. page'[t].shown = Kept(stored, Available)
      BY <1>3, <1>7, <2>2
    <3>2. stored \in Seq(Cards)
      BY <2>2 DEF LayoutType
    <3>3. Kept(stored, Available) = Kept(page'[t].shown, Available)
      BY <3>1, <3>2, KeptOfKept
    <3> QED  BY <1>9, <2>2, <3>3 DEF Agrees, Shown
  <2> QED  BY <2>1, <2>2
<1> QED  BY <1>6, <1>7, <1>8, <1>10

\* A calm tab has no rival.
LEMMA OnePost ==
  ASSUME LayoutInv, NEW t \in Tabs, calm[t], NEW p \in posts
  PROVE  posts = {p} /\ p.tab = t /\ PostOk(t, p)
  BY DEF LayoutInv, CalmTab

\* What a tab sees of the rest of the system stays the same.
LEMMA CalmTabSame ==
  ASSUME NEW t \in Tabs, CalmTab(t), posts' = posts, page'[t] = page[t],
         stored' = stored, subscribed' = subscribed
  PROVE  CalmTab(t)'
<1>1. Available' = Available
  BY DEF Available
<1> QED  BY <1>1 DEF CalmTab, Agrees, PostOk, Shown

\* The posts of a page that is left.
LEMMA LeftBehindType ==
  ASSUME LayoutType, NEW t \in Tabs
  PROVE  /\ LeftBehind(t) \subseteq Posted /\ Waited(LeftBehind(t))
         /\ \A p \in posts : Close({p}) \subseteq Posted /\ Waited(Close({p}))
         /\ \A p \in posts : p.tab # t /\ posts = {p} => LeftBehind(t) = posts
         /\ posts = {} => LeftBehind(t) = {}
<1>1. ASSUME NEW ps \in SUBSET posts
      PROVE  Close(ps) \subseteq Posted /\ Waited(Close(ps))
  <2>1. ASSUME NEW q \in Close(ps) PROVE q \in Posted /\ q.step # "saved"
    <3>1. PICK p \in ps : p.step # "saved" /\ q = [p EXCEPT !.tab = Closed]
      BY DEF Close
    <3>2. p \in Posted
      BY DEF LayoutType
    <3> QED  BY <3>1, <3>2 DEF Posted
  <2> QED  BY <2>1 DEF Waited
<1>2. {p \in posts : p.tab = t} \in SUBSET posts /\ \A p \in posts : {p} \in SUBSET posts
  OBVIOUS
<1>3. LeftBehind(t) \subseteq Posted /\ Waited(LeftBehind(t))
  BY <1>1, <1>2 DEF LeftBehind, Waited, LayoutType
<1>4. ASSUME \A p \in posts : p.tab # t
      PROVE  LeftBehind(t) = posts
  <2>1. {p \in posts : p.tab = t} = {} /\ {p \in posts : p.tab # t} = posts
    BY <1>4
  <2>2. Close({}) = {}
    BY DEF Close
  <2> QED  BY <2>1, <2>2 DEF LeftBehind
<1> QED  BY <1>1, <1>2, <1>3, <1>4

LEMMA LayoutInitOk == LayoutInit => LayoutInv
<1> SUFFICES ASSUME LayoutInit PROVE LayoutInv
  OBVIOUS
<1>1. subscribed \subseteq CardServices /\ stored = Unset /\ posts = {} /\ sent = 0
      /\ Waited(posts) /\ calm \in [Tabs -> BOOLEAN]
  BY DEF LayoutInit, Waited
<1>2. ASSUME NEW order \in Orders
      PROVE  /\ Resolve(order).shown = order /\ order \in Seq(Cards)
             /\ Available \subseteq ToSet(order)
             /\ Resolve(order) \in [shown: Seq(Cards), tray: SUBSET Cards]
  <2>1. order \in Seq(Cards) /\ Available \subseteq ToSet(order)
    BY <1>1, OrderOf
  <2>2. Resolve(order) = [shown |-> order, tray |-> Available \ ToSet(order)]
    BY <1>1 DEF Resolve
  <2>3. Available \subseteq Cards
    BY <1>1 DEF Available, Cards
  <2> QED  BY <2>1, <2>2, <2>3
<1>3. page \in [Tabs -> {Resolve(order) : order \in Orders}]
  BY DEF LayoutInit
<1>4. \A t \in Tabs : \E order \in Orders : page[t] = Resolve(order)
  BY <1>3
<1>5. page \in [Tabs -> [shown: Seq(Cards), tray: SUBSET Cards]]
  BY <1>2, <1>3
<1>6. LayoutType
  BY <1>1, <1>5 DEF LayoutType
<1>7. \A t \in Tabs : Agrees(t)
  BY <1>1, <1>2, <1>4 DEF Agrees
<1> QED  BY <1>1, <1>6, <1>7 DEF LayoutInv, CalmTab

\* A page is loaded, and posts of it are left behind or forgotten.
LEMMA LoadKeeps ==
  ASSUME LayoutInv, NEW t \in Tabs, NEW atWork \in SUBSET Posted, Waited(atWork),
         Load(t, atWork),
         \A s \in Tabs \ {t} : calm[s] => atWork = posts
  PROVE  LayoutInv'
<1>1. /\ page' \in [Tabs -> [shown: Seq(Cards), tray: SUBSET Cards]]
      /\ calm' \in [Tabs -> BOOLEAN]
      /\ Agrees(t)'
      /\ \A s \in Tabs \ {t} : page'[s] = page[s] /\ calm'[s] = calm[s]
      /\ calm'[t] => atWork = {}
  BY LoadAgrees DEF LayoutInv
<1>2. UNCHANGED <<subscribed, stored, sent>> /\ posts' = atWork
  BY DEF Load
<1>3. Waited(posts)'
  BY <1>2 DEF Waited
<1>4. LayoutType'
  BY <1>1, <1>2, <1>3 DEF LayoutInv, LayoutType
<1>5. calm'[t] => CalmTab(t)'
  BY <1>1, <1>2 DEF CalmTab
<1>6. ASSUME NEW s \in Tabs \ {t}, calm'[s] PROVE CalmTab(s)'
  <2>1. calm[s] /\ page'[s] = page[s] /\ posts' = posts
    BY <1>1, <1>2, <1>6
  <2>2. CalmTab(s)
    BY <2>1 DEF LayoutInv
  <2> QED  BY <1>2, <2>1, <2>2, CalmTabSame
<1> QED  BY <1>4, <1>5, <1>6 DEF LayoutInv

LEMMA OpenKeeps ==
  ASSUME LayoutInv, NEW t \in Tabs, Open(t)
  PROVE  LayoutInv'
<1>1. LayoutType /\ Load(t, LeftBehind(t))
  BY DEF Open, LayoutInv
<1>2. ASSUME NEW s \in Tabs \ {t}, calm[s] PROVE LeftBehind(t) = posts
  <2>1. CASE posts = {}
    BY <1>1, <2>1, LeftBehindType
  <2>2. CASE posts # {}
    <3>1. PICK p \in posts : posts = {p} /\ p.tab = s
      BY <1>2, <2>2, OnePost
    <3> QED  BY <1>1, <3>1, LeftBehindType
  <2> QED  BY <2>1, <2>2
<1> QED  BY <1>1, <1>2, LeftBehindType, LoadKeeps

\* A change of tab t: whatever it shows now, it posts all of it, or a reset.
LEMMA PostKeeps ==
  ASSUME LayoutInv, NEW t \in Tabs, NEW body, Post(t, body),
         page' \in [Tabs -> [shown: Seq(Cards), tray: SUBSET Cards]],
         \/ body = Unset /\ page' = page
         \/ body \in Seq(Cards) /\ body = page'[t].shown
  PROVE  LayoutInv'
<1>0. PICK p : p = [nr |-> sent, tab |-> t, body |-> body, step |-> "sent"]
  OBVIOUS
<1>1. p \in Posted
  BY <1>0 DEF LayoutInv, LayoutType, Posted
<1>2. calm' \in [Tabs -> BOOLEAN]
  <2>1. \A s \in Tabs : (s = t /\ calm[t] /\ posts = {}) \in BOOLEAN
    OBVIOUS
  <2> QED  BY <2>1 DEF Post
<1>3. LayoutType'
  BY <1>0, <1>1, <1>2 DEF Post, LayoutInv, LayoutType, Waited
<1>4. ASSUME NEW s \in Tabs, calm'[s] PROVE CalmTab(s)'
  <2>1. s = t /\ posts = {}
    BY <1>4 DEF Post
  <2>2. posts' = {p}
    BY <1>0, <2>1 DEF Post
  <2>5. p.body = body /\ p.step = "sent"
    BY <1>0
  <2>3. PostOk(t, p)'
    <3>1. CASE body = Unset /\ page' = page
      <4>1. Agrees(t)
        BY <1>4, <2>1 DEF Post, LayoutInv, CalmTab
      <4>2. Agrees(t)'
        BY <3>1, <4>1 DEF Post, Agrees, Shown, Available
      <4> QED  BY <2>5, <3>1, <4>2 DEF PostOk
    <3>2. CASE body \in Seq(Cards) /\ body = page'[t].shown
      BY <2>5, <3>2, CardsAssumption DEF PostOk
    <3> QED  BY <3>1, <3>2
  <2>4. p.tab = t /\ p \in posts'
    BY <1>0, <2>2
  <2> QED  BY <2>1, <2>2, <2>3, <2>4 DEF CalmTab
<1> QED  BY <1>3, <1>4 DEF LayoutInv

LEMMA SaveKeeps ==
  ASSUME LayoutInv, NEW t \in Tabs, NEW shown \in Seq(Cards), NEW tray \in SUBSET Cards,
         Save(t, shown, tray)
  PROVE  LayoutInv'
<1>1. [shown |-> shown, tray |-> tray] \in [shown: Seq(Cards), tray: SUBSET Cards]
  OBVIOUS
<1>2. page' = [page EXCEPT ![t] = [shown |-> shown, tray |-> tray]] /\ Post(t, shown)
  BY DEF Save
<1>3. page' \in [Tabs -> [shown: Seq(Cards), tray: SUBSET Cards]] /\ page'[t].shown = shown
  BY <1>1, <1>2 DEF LayoutInv, LayoutType
<1> QED  BY <1>2, <1>3, PostKeeps

\* The cards of a dashboard in another order.
LEMMA ArrangeType ==
  ASSUME NEW x \in Seq(Cards), NEW i \in DOMAIN x, NEW j \in DOMAIN x
  PROVE  InsertAt(RemoveAt(x, i), j, x[i]) \in Seq(Cards)
<1>1. /\ Len(x) \in Nat /\ i \in 1 .. Len(x) /\ j \in 1 .. Len(x)
      /\ \A k \in 1 .. Len(x) : x[k] \in Cards
  OBVIOUS
<1>2. SubSeq(x, 1, i - 1) \in Seq(Cards) /\ Len(SubSeq(x, 1, i - 1)) = i - 1
  <2>1. \A k \in 1 .. i - 1 : x[k] \in Cards
    BY <1>1
  <2>2. 1 \in Int /\ i - 1 \in Int
    BY <1>1
  <2>3. /\ SubSeq(x, 1, i - 1) \in Seq(Cards)
        /\ Len(SubSeq(x, 1, i - 1)) = IF 1 <= i - 1 THEN (i - 1) - 1 + 1 ELSE 0
    BY <2>1, <2>2, SubSeqProperties
  <2> QED  BY <1>1, <2>3
<1>3. /\ SubSeq(x, i + 1, Len(x)) \in Seq(Cards)
      /\ Len(SubSeq(x, i + 1, Len(x))) = Len(x) - i
  <2>1. \A k \in i + 1 .. Len(x) : x[k] \in Cards
    BY <1>1
  <2>2. i + 1 \in Int /\ Len(x) \in Int
    BY <1>1
  <2>3. /\ SubSeq(x, i + 1, Len(x)) \in Seq(Cards)
        /\ Len(SubSeq(x, i + 1, Len(x))) = IF i + 1 <= Len(x) THEN Len(x) - (i + 1) + 1 ELSE 0
    BY <2>1, <2>2, SubSeqProperties
  <2> QED  BY <1>1, <2>3
<1> DEFINE y == RemoveAt(x, i)
<1>4. y \in Seq(Cards) /\ Len(y) = Len(x) - 1
  <2> HIDE DEF y
  <2>1. y = SubSeq(x, 1, i - 1) \o SubSeq(x, i + 1, Len(x))
    BY DEF y, RemoveAt
  <2>2. /\ y \in Seq(Cards)
        /\ Len(y) = Len(SubSeq(x, 1, i - 1)) + Len(SubSeq(x, i + 1, Len(x)))
    BY <1>2, <1>3, <2>1, ConcatProperties
  <2>3. Len(y) = (i - 1) + (Len(x) - i)
    BY <1>2, <1>3, <2>2
  <2>4. i \in Int /\ Len(x) \in Int
    BY <1>1
  <2>5. (i - 1) + (Len(x) - i) = Len(x) - 1
    BY <2>4
  <2> QED  BY <2>2, <2>3, <2>5
<1> HIDE DEF y
<1>5. \A k \in 1 .. Len(y) : y[k] \in Cards
  BY <1>4
<1>6. SubSeq(y, 1, j - 1) \in Seq(Cards)
  <2>1. \A k \in 1 .. j - 1 : y[k] \in Cards
    BY <1>1, <1>4, <1>5
  <2>2. 1 \in Int /\ j - 1 \in Int
    BY <1>1
  <2> QED  BY <2>1, <2>2, SubSeqProperties
<1>7. SubSeq(y, j, Len(y)) \in Seq(Cards)
  <2>1. \A k \in j .. Len(y) : y[k] \in Cards
    BY <1>1, <1>4, <1>5
  <2>2. j \in Int /\ Len(y) \in Int
    BY <1>1, <1>4
  <2> QED  BY <2>1, <2>2, SubSeqProperties
<1>8. <<x[i]>> \in Seq(Cards)
  BY <1>1
<1>9. InsertAt(y, j, x[i]) \in Seq(Cards)
  BY <1>6, <1>7, <1>8, ConcatProperties DEF InsertAt
<1> QED  BY <1>9 DEF y

\* A step of the handling of one post.
LEMMA HandleKeeps ==
  ASSUME LayoutInv, NEW p \in posts, Handle(p)
  PROVE  LayoutInv'
<1> DEFINE new == IF p.body = Unset THEN Unset ELSE Kept(p.body, Available)
<1>0. PICK q : q = [p EXCEPT !.body = new, !.step = IF new = stored THEN "same" ELSE "new"]
  OBVIOUS
<1>1. /\ p.step = "sent" /\ posts' = (posts \ {p}) \cup {q}
      /\ UNCHANGED <<subscribed, stored, page, sent, calm>>
  BY <1>0 DEF Handle, Sanitize
<1>2. p \in Posted
  BY DEF LayoutInv, LayoutType
<1>3. new \in Seq(Cards) \cup {Unset} /\ (p.body = Unset <=> new = Unset)
  <2>1. p.body # Unset => p.body \in Seq(Cards) /\ Kept(p.body, Available) \in Seq(Cards)
    BY <1>2, KeptType DEF Posted
  <2> QED  BY <2>1, CardsAssumption
<1>4. Kept(new, Available) = Kept(p.body, Available) \/ new = Unset
  BY <1>2, KeptOfKept DEF Posted
<1> HIDE DEF new
<1>5. q \in Posted /\ q.tab = p.tab /\ q.body = new
      /\ q.step = IF new = stored THEN "same" ELSE "new"
  BY <1>0, <1>2, <1>3 DEF Posted
<1>6. LayoutType'
  BY <1>1, <1>5 DEF LayoutInv, LayoutType, Waited
<1>7. ASSUME NEW t \in Tabs, calm'[t] PROVE CalmTab(t)'
  <2>1. posts = {p} /\ p.tab = t /\ PostOk(t, p)
    BY <1>1, <1>7, OnePost
  <2>2. posts' = {q}
    BY <1>1, <2>1
  <2>3. PostOk(t, q)'
    <3>1. stored' = stored /\ page' = page /\ Available' = Available
      BY <1>1 DEF Available
    <3>2. CASE p.body = Unset
      <4>1. Agrees(t)
        BY <1>1, <2>1, <3>2 DEF PostOk
      <4>2. Agrees(t)'
        BY <1>1, <3>1, <4>1 DEF Agrees, Shown
      <4> QED  BY <1>3, <1>5, <3>2, <4>2 DEF PostOk
    <3>3. CASE p.body # Unset
      <4>1. p.body = page[t].shown
        BY <1>1, <2>1, <3>3 DEF PostOk
      <4>2. Kept(q.body, Available) = Kept(page[t].shown, Available)
        BY <1>3, <1>4, <1>5, <3>3, <4>1
      <4> QED  BY <1>3, <1>5, <3>1, <3>3, <4>2 DEF PostOk
    <3> QED  BY <3>2, <3>3
  <2>4. q.tab = t /\ q \in posts'
    BY <1>5, <2>1, <2>2
  <2> QED  BY <2>2, <2>3, <2>4 DEF CalmTab
<1> QED  BY <1>6, <1>7 DEF LayoutInv

LEMMA CommitKeeps ==
  ASSUME LayoutInv, NEW p \in posts, CommitLayout(p)
  PROVE  LayoutInv'
<1> DEFINE q == [p EXCEPT !.step = "saved", !.body = IF @ = Unset THEN Unset ELSE <<>>]
<1>1. /\ p.step \in {"same", "new"} /\ stored' = (IF p.step = "same" THEN stored ELSE p.body)
      /\ posts' = (posts \ {p}) \cup (IF p.tab = Closed THEN {} ELSE {q})
      /\ UNCHANGED <<subscribed, page, sent, calm>>
  BY DEF CommitLayout
<1>2. p \in Posted
  BY DEF LayoutInv, LayoutType
<1>3. /\ q \in Posted /\ q.tab = p.tab /\ q.step = "saved"
      /\ q.body # Unset => p.body # Unset
  <2>1. <<>> \in Seq(Cards)
    OBVIOUS
  <2> QED  BY <1>2, <2>1 DEF Posted
<1> HIDE DEF q
<1>4. LayoutType'
  BY <1>1, <1>2, <1>3 DEF LayoutInv, LayoutType, Posted, Waited
<1>5. ASSUME NEW t \in Tabs, calm'[t] PROVE CalmTab(t)'
  <2>1. posts = {p} /\ p.tab = t /\ PostOk(t, p)
    BY <1>1, <1>5, OnePost
  <2>2. posts' = {q}
    BY <1>1, <2>1, CardsAssumption
  <2>3. PostOk(t, q)'
    BY <1>1, <1>3, <2>1 DEF PostOk, Shown, Available
  <2> QED  BY <1>3, <2>1, <2>2, <2>3 DEF CalmTab
<1> QED  BY <1>4, <1>5 DEF LayoutInv

\* The page of a post is loaded again.
LEMMA ReloadKeeps ==
  ASSUME LayoutInv, NEW p \in posts, p.tab # Closed, NEW atWork \in SUBSET LeftBehind(p.tab),
         Load(p.tab, atWork)
  PROVE  LayoutInv'
<1>1. p.tab \in Tabs /\ LayoutType
  BY DEF LayoutInv, LayoutType, Posted
<1>2. atWork \in SUBSET Posted /\ Waited(atWork)
  BY <1>1, LeftBehindType DEF Waited
<1>3. \A s \in Tabs \ {p.tab} : ~ calm[s]
  BY OnePost
<1> QED  BY <1>1, <1>2, <1>3, LoadKeeps

\* A post is gone without a change: the tab shows what is stored.
LEMMA GoneKeeps ==
  ASSUME LayoutInv, NEW p \in posts, posts' = posts \ {p},
         UNCHANGED <<subscribed, stored, page, sent, calm>>,
         \A t \in Tabs : p.tab = t /\ PostOk(t, p) => Agrees(t)
  PROVE  LayoutInv'
<1>1. LayoutType'
  BY DEF LayoutInv, LayoutType, Waited
<1>2. ASSUME NEW t \in Tabs, calm'[t] PROVE CalmTab(t)'
  <2>1. posts = {p} /\ p.tab = t /\ PostOk(t, p)
    BY <1>2, OnePost
  <2>2. Agrees(t)' /\ posts' = {}
    BY <2>1 DEF Agrees, Shown, Available
  <2> QED  BY <2>2 DEF CalmTab
<1> QED  BY <1>1, <1>2 DEF LayoutInv

LEMMA ConfirmKeeps ==
  ASSUME LayoutInv, NEW p \in posts, Confirm(p)
  PROVE  LayoutInv'
<1>0. p.step = "saved" /\ p.tab # Closed
  BY DEF Confirm, LayoutInv, LayoutType, Waited
<1>1. CASE p.body = Unset
  BY <1>0, <1>1, ReloadKeeps DEF Confirm
<1>2. CASE p.body # Unset
  <2>1. posts' = posts \ {p} /\ UNCHANGED <<subscribed, stored, page, sent, calm>>
    BY <1>2 DEF Confirm
  <2>2. ASSUME NEW t \in Tabs, PostOk(t, p) PROVE Agrees(t)
    BY <1>0, <1>2, <2>2 DEF PostOk, Agrees, Shown
  <2> QED  BY <2>1, <2>2, GoneKeeps
<1> QED  BY <1>1, <1>2

LEMMA RefuseKeeps ==
  ASSUME LayoutInv, NEW p \in posts, Refuse(p)
  PROVE  LayoutInv'
<1>1. CASE p.body # Unset /\ p.tab # Closed
  BY <1>1, ReloadKeeps DEF Refuse
<1>2. CASE ~ (p.body # Unset /\ p.tab # Closed)
  <2>1. /\ p.step # "saved" /\ posts' = posts \ {p}
        /\ UNCHANGED <<subscribed, stored, page, sent, calm>>
    BY <1>2 DEF Refuse
  <2>2. ASSUME NEW t \in Tabs, p.tab = t, PostOk(t, p) PROVE Agrees(t)
    BY <1>2, <2>1, <2>2, CardsAssumption DEF PostOk
  <2> QED  BY <2>1, <2>2, GoneKeeps
<1> QED  BY <1>1, <1>2

LEMMA LoseKeeps ==
  ASSUME LayoutInv, NEW p \in posts, Lose(p)
  PROVE  LayoutInv'
<1>0. p.tab # Closed /\ p.tab \in Tabs /\ LayoutType
  BY DEF Lose, LayoutInv, LayoutType, Posted
<1>1. CASE p.body # Unset
  BY <1>0, <1>1, ReloadKeeps DEF Lose
<1>2. CASE p.body = Unset
  <2>1. /\ posts' = (posts \ {p}) \cup Close({p})
        /\ calm' = [calm EXCEPT ![p.tab] = FALSE]
        /\ UNCHANGED <<subscribed, stored, page, sent>>
    BY <1>2 DEF Lose
  <2>2. calm' \in [Tabs -> BOOLEAN] /\ ~ calm'[p.tab] /\ \A t \in Tabs \ {p.tab} : calm'[t] = calm[t]
    BY <1>0, <2>1 DEF LayoutType
  <2>3. LayoutType'
    <3>1. Close({p}) \subseteq Posted /\ Waited(Close({p}))
      BY <1>0, LeftBehindType
    <3>2. posts' \subseteq Posted /\ Waited(posts)'
      BY <1>0, <2>1, <3>1 DEF LayoutType, Waited
    <3> QED  BY <1>0, <2>1, <2>2, <3>2 DEF LayoutType
  <2>4. ASSUME NEW t \in Tabs, calm'[t] PROVE FALSE
    <3>1. calm[t] /\ t # p.tab
      BY <2>2, <2>4
    <3> QED  BY <3>1, OnePost
  <2> QED  BY <2>3, <2>4 DEF LayoutInv
<1> QED  BY <1>1, <1>2

LEMMA SubscribeKeeps == LayoutInv /\ Subscribe => LayoutInv'
  BY DEF LayoutInv, LayoutType, Subscribe, Waited

\* Of what is stored and of what is shown, the same cards go.
LEMMA UnsubscribeKeeps ==
  ASSUME LayoutInv, Unsubscribe
  PROVE  LayoutInv'
<1>1. subscribed' \subseteq subscribed /\ UNCHANGED <<stored, page, posts, sent, calm>>
  BY DEF Unsubscribe
<1>2. LayoutType'
  BY <1>1 DEF LayoutInv, LayoutType, Waited
<1>3. Available' \subseteq Available
  BY <1>1 DEF Available
<1>4. ASSUME NEW x \in Seq(Cards), NEW y \in Seq(Cards), Kept(x, Available) = Kept(y, Available)
      PROVE  Kept(x, Available') = Kept(y, Available')
  <2>1. /\ Kept(Kept(x, Available), Available') = Kept(x, Available')
        /\ Kept(Kept(y, Available), Available') = Kept(y, Available')
    BY <1>3, KeptOfKept
  <2> QED  BY <1>4, <2>1
<1>5. ASSUME NEW t \in Tabs, calm'[t] PROVE CalmTab(t)'
  <2>1. CalmTab(t)
    BY <1>1, <1>5 DEF LayoutInv
  <2>2. page[t].shown \in Seq(Cards) /\ stored \in Seq(Cards) \cup {Unset}
    BY DEF LayoutInv, LayoutType
  <2>3. Shown(page[t].shown) => Shown(page[t].shown)'
    BY <1>1, <1>4, <2>2 DEF Shown
  <2>4. Agrees(t) => Agrees(t)'
    BY <1>1, <1>3, <2>3 DEF Agrees
  <2>5. \A p \in posts : p.body # Unset => p.body \in Seq(Cards)
    BY DEF LayoutInv, LayoutType, Posted
  <2>6. \A p \in posts : PostOk(t, p) => PostOk(t, p)'
    BY <1>1, <1>4, <2>2, <2>3, <2>4, <2>5 DEF PostOk
  <2> QED  BY <1>1, <2>1, <2>4, <2>6 DEF CalmTab
<1> QED  BY <1>2, <1>5 DEF LayoutInv

LEMMA LayoutStep == LayoutInv /\ [LayoutNext]_layoutVars => LayoutInv'
<1> SUFFICES ASSUME LayoutInv, [LayoutNext]_layoutVars PROVE LayoutInv'
  OBVIOUS
<1>0. page \in [Tabs -> [shown: Seq(Cards), tray: SUBSET Cards]] /\ LayoutType
  BY DEF LayoutInv, LayoutType
<1>1. ASSUME NEW t \in Tabs, Open(t) PROVE LayoutInv'
  BY <1>1, OpenKeeps
<1>2. ASSUME NEW t \in Tabs, Reset(t) PROVE LayoutInv'
  <2>1. Post(t, Unset) /\ page' = page
    BY <1>2 DEF Reset
  <2>2. page' \in [Tabs -> [shown: Seq(Cards), tray: SUBSET Cards]]
    BY <1>0, <2>1
  <2> QED  BY <2>1, <2>2, PostKeeps
<1>3. ASSUME NEW t \in Tabs, NEW k \in Cards, Hide(t, k) PROVE LayoutInv'
  <2>1. Kept(page[t].shown, Cards \ {k}) \in Seq(Cards) /\ page[t].tray \cup {k} \in SUBSET Cards
    BY <1>0, KeptType
  <2> QED  BY <1>3, <2>1, SaveKeeps DEF Hide
<1>4. ASSUME NEW t \in Tabs, NEW k \in Cards, AddBack(t, k) PROVE LayoutInv'
  <2>1. Append(page[t].shown, k) \in Seq(Cards) /\ page[t].tray \ {k} \in SUBSET Cards
    BY <1>0
  <2> QED  BY <1>4, <2>1, SaveKeeps DEF AddBack
<1>5. ASSUME NEW t \in Tabs, NEW i, NEW j, Arrange(t, i, j) PROVE LayoutInv'
  <2>1. InsertAt(RemoveAt(page[t].shown, i), j, page[t].shown[i]) \in Seq(Cards)
    BY <1>0, <1>5, ArrangeType DEF Arrange
  <2>2. page[t].tray \in SUBSET Cards
    BY <1>0
  <2> QED  BY <1>5, <2>1, <2>2, SaveKeeps DEF Arrange
<1>6. ASSUME NEW p \in posts, Handle(p) PROVE LayoutInv'
  BY <1>6, HandleKeeps
<1>7. ASSUME NEW p \in posts, CommitLayout(p) PROVE LayoutInv'
  BY <1>7, CommitKeeps
<1>8. ASSUME NEW p \in posts, Confirm(p) PROVE LayoutInv'
  BY <1>8, ConfirmKeeps
<1>9. ASSUME NEW p \in posts, Refuse(p) \/ Lose(p) PROVE LayoutInv'
  BY <1>9, RefuseKeeps, LoseKeeps
<1>10. CASE Subscribe
  BY <1>10, SubscribeKeeps
<1>11. CASE Unsubscribe
  BY <1>11, UnsubscribeKeeps
<1>12. CASE UNCHANGED layoutVars
  <2>1. UNCHANGED <<subscribed, stored, page, posts, sent, calm>>
    BY <1>12 DEF layoutVars
  <2>2. LayoutType'
    BY <1>0, <2>1 DEF LayoutType, Waited
  <2>3. \A t \in Tabs : calm'[t] => CalmTab(t)'
    BY <2>1, CalmTabSame DEF LayoutInv
  <2> QED  BY <2>2, <2>3 DEF LayoutInv
<1> QED
  BY <1>1, <1>2, <1>3, <1>4, <1>5, <1>6, <1>7, <1>8, <1>9, <1>10, <1>11, <1>12 DEF LayoutNext

\* Of the dashboards of a user, whatever is moved, lost, taken away or opened
\* in another tab.
THEOREM LayoutInvariant == LayoutSpec => []LayoutInv
<1>1. LayoutInit => LayoutInv
  BY LayoutInitOk
<1>2. LayoutInv /\ [LayoutNext]_layoutVars => LayoutInv'
  BY LayoutStep
<1> QED  BY <1>1, <1>2, PTL DEF LayoutSpec

\* A tab in which one change follows the answer to the one before, and which was not
\* loaded while a request was at work, once all is answered, shows what loading it
\* again would show: whatever failed at the server, and whichever services went.
THEOREM CalmSavesAreShown == LayoutSpec => []CalmSaveIsShown
<1>1. LayoutInv => CalmSaveIsShown
  <2> SUFFICES ASSUME LayoutInv, NEW t \in Tabs, calm[t], posts = {}
               PROVE  IF stored = Unset THEN Available \subseteq ToSet(page[t].shown)
                      ELSE Resolve(<<>>).shown = Sanitize(page[t].shown)
    BY DEF CalmSaveIsShown
  <2>1. Agrees(t)
    BY DEF LayoutInv, CalmTab
  <2>2. stored # Unset => Resolve(<<>>).shown = Kept(stored, Available)
    BY DEF Resolve, Sanitize
  <2> QED  BY <2>1, <2>2 DEF Agrees, Shown, Sanitize
<1> QED  BY <1>1, LayoutInvariant, PTL
=============================================================================
