----------------------------- MODULE PortalAccess -----------------------------
(***************************************************************************)
(* Who may use what: the users, services, devices, subscriptions and       *)
(* device assignments that administrators keep (admin/routes.py), and the  *)
(* checks a client's evaluation request passes (client/access.py).         *)
(*                                                                         *)
(* Several workers handle requests on one PostgreSQL database at its       *)
(* default isolation: each query of a request sees what is committed by    *)
(* then, and the request's writes appear together when it commits          *)
(* (database_transactions.py).  Foreign keys cascade on deletion; ids are  *)
(* never given out twice.                                                  *)
(***************************************************************************)
EXTENDS Naturals, FiniteSets

CONSTANTS Users, Services, Devices, Workers, None

ASSUME ObjectsAssumption ==
  /\ Users \cap Services = {} /\ Users \cap Devices = {} /\ Services \cap Devices = {}
  /\ None \notin Users \cup Services \cup Devices
ASSUME UsersAssumption == IsFiniteSet(Users)

Objects == Users \cup Services \cup Devices
Things == Services \cup Devices

VARIABLES
  status,   \* of every object: its role or "on"/"off" while its row exists
  grants,   \* rows <<user, service>> (subscriptions), <<user, device>> (assignments)
  work      \* the request each worker handles, or the last one it ended

vars == <<status, grants, work>>

Roles == {"admin", "client"}
States(o) == IF o \in Users THEN Roles ELSE {"on", "off"}
Exists(o) == status[o] \in States(o)
Admins == {u \in Users : status[u] = "admin"}

\* The grants that let a user in: to a service or a device that is active.
EffectiveIn(st, rows, u) == {g \in rows : g[1] = u /\ st[g[2]] = "on"}
Effective(u) == EffectiveIn(status, grants, u)

\* Faulty: the columns of a pair are swapped.
ScopeOfSwapped(o) == IF o \in Users THEN Services \X {o} ELSE {o} \X Users

\* The rows a save replaces: a user's subscriptions, a device's assignments.
ScopeOf(o) == IF o \in Users THEN {o} \X Services ELSE Users \X {o}
Ends(g) == {g[1], g[2]}

Idle == [step |-> "idle", kind |-> "none", on |-> None, value |-> "", was |-> "",
         count |-> 0, selected |-> {}, removed |-> {}, added |-> {},
         touched |-> FALSE, had |-> {}]

\* seed_defaults: an administrator, and the services and the device it finds
\* missing; the others are created later.
Init ==
  /\ \E a \in Users, seeded \in SUBSET Things :
       status = [o \in Objects |-> IF o = a THEN "admin" ELSE IF o \in seeded THEN "on" ELSE "new"]
  /\ grants = {}
  /\ work = [w \in Workers |-> Idle]

(***************************************************************************)
(* A request: its first reads                                              *)
(***************************************************************************)

Begin(w, request) ==
  /\ work[w].step = "idle"
  /\ work' = [work EXCEPT ![w] = request]
  /\ UNCHANGED <<status, grants>>

\* user_create, service_create, device_create.
OpenCreate(w) ==
  \E o \in Objects : \E v \in States(o) :
    /\ Admins # {} /\ status[o] = "new"
    /\ Begin(w, [Idle EXCEPT !.step = "ready", !.kind = "create", !.on = o, !.value = v])

\* user_edit, service_edit, device_edit: the row is loaded.
OpenEdit(w) ==
  \E o \in Objects : \E v \in States(o) :
    /\ Admins # {} /\ Exists(o)
    /\ Begin(w, [Idle EXCEPT !.step = IF o \in Users THEN "open" ELSE "ready",
                             !.kind = "edit", !.on = o, !.value = v, !.was = status[o]])

\* user_delete, service_delete, device_delete: nobody deletes themselves.
OpenDelete(w) ==
  \E o \in Objects :
    /\ Exists(o) /\ Admins \ {o} # {}
    /\ Begin(w, [Idle EXCEPT !.step = IF o \in Users THEN "open" ELSE "ready",
                             !.kind = "delete", !.on = o, !.was = status[o]])

\* The rows a save may leave: any service, the users who are clients.
Allowed(o) ==
  {g \in ScopeOf(o) : Exists(g[2]) /\ (o \in Users \/ status[g[1]] = "client")}

\* user_subscriptions, device_assignments: the rows not selected are found.
OpenSave(w) ==
  \E o \in Users \cup Devices :
    /\ Admins # {} /\ Exists(o)
    /\ \E selected \in SUBSET Allowed(o) :
         Begin(w, [Idle EXCEPT !.step = "open", !.kind = "save", !.on = o, !.selected = selected,
                               !.removed = (grants \cap ScopeOf(o)) \ selected])

(***************************************************************************)
(* Its later reads                                                         *)
(***************************************************************************)

\* Faulty: refuses only when there is no administrator left.
CountRefusesNone(r, count) ==
  r.was = "admin" /\ (r.kind = "delete" \/ r.value # "admin") /\ count < 1

CountRefuses(r, count) ==
  r.was = "admin" /\ (r.kind = "delete" \/ r.value # "admin") /\ count <= 1

\* The last administrator is kept.
CountAdmins(w) ==
  LET r == work[w]
      count == Cardinality(Admins)
  IN  /\ r.step = "open" /\ r.kind \in {"edit", "delete"}
      /\ work' = [work EXCEPT ![w] = IF CountRefuses(r, count) THEN Idle
                                     ELSE [r EXCEPT !.step = "ready", !.count = count]]
      /\ UNCHANGED <<status, grants>>

\* Faulty: the rows that are there already are added again.
AddedBlindly(r) == r.selected

Added(r) == r.selected \ (grants \ r.removed)

\* The rows are read again, and the selected ones not among them are added.
FindMissing(w) ==
  LET r == work[w]
  IN  /\ r.step = "open" /\ r.kind = "save"
      /\ work' = [work EXCEPT ![w] = [r EXCEPT !.step = "ready", !.added = Added(r)]]
      /\ UNCHANGED <<status, grants>>

(***************************************************************************)
(* Its commit                                                              *)
(***************************************************************************)

\* Faulty: without the foreign keys.
RefusedByUniqueness(r) ==
  \/ r.kind = "create" /\ status[r.on] # "new"
  \/ r.kind = "edit" /\ r.value # r.was /\ ~ Exists(r.on)
  \/ r.kind = "save" /\ r.added \cap grants # {}

\* The database refuses a second row for one name or pair and a row whose
\* user, service or device is gone; an update that finds no row is an error.
Refused(r) ==
  \/ r.kind = "create" /\ status[r.on] # "new"
  \/ r.kind = "edit" /\ r.value # r.was /\ ~ Exists(r.on)
  \/ r.kind = "save" /\ (r.added \cap grants # {} \/ \E g \in r.added : \E o \in Ends(g) : ~ Exists(o))

StatusAfter(r) ==
  IF r.kind = "delete" THEN [status EXCEPT ![r.on] = "gone"]
  ELSE IF r.kind = "create" \/ (r.kind = "edit" /\ r.value # r.was)
    THEN [status EXCEPT ![r.on] = r.value]
  ELSE status

GrantsAfter(r) ==
  IF r.kind = "delete" THEN {g \in grants : r.on \notin Ends(g)}
  ELSE IF r.kind = "save" THEN (grants \ r.removed) \cup r.added
  ELSE grants

\* What a commit means to another request that is open: a row it wanted to
\* remove is gone; the rows of its scope, or their ends, are touched; a grant
\* its user has from now on is one that was held while it ran.
Seen(r) ==
  IF r.step = "idle" THEN r
  ELSE IF r.kind = "save" THEN
    LET scope == ScopeOf(r.on)
    IN  [r EXCEPT !.removed = @ \cap grants',
                  !.touched = \/ @ \/ grants' \cap scope # grants \cap scope
                              \/ \E g \in scope : \E o \in Ends(g) : status'[o] # status[o]]
  ELSE IF r.kind = "use" THEN [r EXCEPT !.had = @ \cup EffectiveIn(status', grants', r.on)]
  ELSE r

Commit(w) ==
  LET r == work[w]
  IN  /\ r.step = "ready" /\ r.kind # "use" /\ ~ Refused(r)
      /\ status' = StatusAfter(r)
      /\ grants' = GrantsAfter(r)
      /\ work' = [v \in Workers |-> IF v = w THEN Idle ELSE Seen(work[v])]

Conflict(w) ==
  /\ work[w].step = "ready" /\ work[w].kind # "use" /\ Refused(work[w])
  /\ work' = [work EXCEPT ![w] = Idle]
  /\ UNCHANGED <<status, grants>>

\* The database fails, or the worker is killed: everything is rolled back.
Fail(w) ==
  /\ work[w].step # "idle"
  /\ work' = [work EXCEPT ![w] = Idle]
  /\ UNCHANGED <<status, grants>>

(***************************************************************************)
(* A client's evaluation request                                           *)
(***************************************************************************)

OpenUse(w) ==
  \E u \in Users :
    /\ Exists(u)
    /\ Begin(w, [Idle EXCEPT !.step = "open", !.kind = "use", !.on = u, !.had = Effective(u)])

\* has_active_service_subscription.
CheckSubscription(w) ==
  LET r == work[w]
      subscribed == \E s \in Services : <<r.on, s>> \in Effective(r.on)
  IN  /\ r.step = "open" /\ r.kind = "use"
      /\ work' = [work EXCEPT ![w] = IF subscribed THEN [r EXCEPT !.step = "ready"] ELSE Idle]
      /\ UNCHANGED <<status, grants>>

\* Faulty: a device that is switched off can still be used.
AssignedAtAll(u) == {d \in Devices : <<u, d>> \in grants}

AssignedDevices(u) == {d \in Devices : <<u, d>> \in Effective(u)}

\* get_assigned_devices and resolve_selected_device: the device served is kept
\* in the record the request leaves.
PickDevice(w) ==
  LET r == work[w]
  IN  /\ r.step = "ready" /\ r.kind = "use"
      /\ \/ \E d \in AssignedDevices(r.on) :
              work' = [work EXCEPT ![w] = [r EXCEPT !.step = "idle", !.selected = {<<r.on, d>>}]]
         \/ work' = [work EXCEPT ![w] = Idle]
      /\ UNCHANGED <<status, grants>>

Next ==
  \E w \in Workers :
    \/ OpenCreate(w) \/ OpenEdit(w) \/ OpenDelete(w) \/ OpenSave(w) \/ OpenUse(w)
    \/ CountAdmins(w) \/ FindMissing(w) \/ Commit(w) \/ Conflict(w) \/ Fail(w)
    \/ CheckSubscription(w) \/ PickDevice(w)

Spec == Init /\ [][Next]_vars

(***************************************************************************)
(* Properties                                                              *)
(***************************************************************************)

Steps == {"idle", "open", "ready"}
Kinds == {"none", "create", "edit", "delete", "save", "use"}
Pairs == Users \X Things
Requests ==
  [step: Steps, kind: Kinds, on: Objects \cup {None}, value: Roles \cup {"on", "off", ""},
   was: Roles \cup {"on", "off", ""}, count: Nat, selected: SUBSET Pairs, removed: SUBSET Pairs,
   added: SUBSET Pairs, touched: BOOLEAN, had: SUBSET Pairs]

TypeOK ==
  /\ status \in [Objects -> Roles \cup {"on", "off", "new", "gone"}]
  /\ grants \subseteq Pairs
  /\ work \in [Workers -> Requests]

\* A subscription or an assignment never outlives its user, its service or its
\* device, whichever worker deletes one while another saves the other: the
\* late save is refused as a whole (commit_transaction).
NoDanglingGrant == \A g \in grants : \A o \in Ends(g) : Exists(o)

\* The last administrator is lost only to a count, or to a role of the row to
\* remove, that another commit has made old since it was read (user_edit and
\* user_delete read before they write, without a lock).
LastAdminLostToRace ==
  [][(Admins # {} /\ Admins' = {}) =>
       \E w \in Workers : /\ work[w].step = "ready" /\ work'[w].step = "idle"
                          /\ \/ work[w].count > Cardinality(Admins)
                             \/ work[w].was # "admin"]_vars

\* Saving subscriptions or assignments while nobody changes the same rows
\* leaves exactly what was selected, and is not refused.
UndisturbedSaveIsExact ==
  [][\A w \in Workers :
       LET r == work[w]
       IN  r.kind = "save" /\ r.step = "ready" /\ ~ r.touched =>
             /\ ~ Refused(r)
             /\ grants' # grants /\ work'[w] = Idle => grants' \cap ScopeOf(r.on) = r.selected]_vars

\* A device is served only to a user who, while the request was handled, held
\* the device and some service: what was taken back before the request began
\* does not let it in.
ServedWasEntitled ==
  \A w \in Workers :
    LET r == work[w]
    IN  r.kind = "use" /\ r.step = "idle" =>
          /\ r.selected \subseteq r.had
          /\ \E s \in Services : <<r.on, s>> \in r.had

\* "The last administrator cannot be deleted or demoted."
AdminRemains == Admins # {}

=============================================================================
