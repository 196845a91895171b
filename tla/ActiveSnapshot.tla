--------------------------- MODULE ActiveSnapshot ---------------------------
(***************************************************************************)
(* What a device's snapshot directory promises its readers: a register     *)
(* that names one intact snapshot at a time.  SnapshotStore implements it  *)
(* file by file; EngineCache reads it.                                     *)
(***************************************************************************)
EXTENDS Naturals

CONSTANTS Ids, None

VARIABLES
  active,   \* the snapshot in force, None before the first publication
  intact,   \* snapshots every file of which is present
  spent     \* ids that can no longer become intact

storeVars == <<active, intact, spent>>

StoreInit == active = None /\ intact = {} /\ spent = {}

\* A snapshot appears whole, once.
Appear(i) ==
  /\ i \notin spent
  /\ intact' = intact \cup {i}
  /\ spent' = spent \cup {i}
  /\ UNCHANGED active

\* A collection under the id i is given up.
GiveUp(i) ==
  /\ i \notin spent
  /\ spent' = spent \cup {i}
  /\ UNCHANGED <<active, intact>>

\* Publication of a new snapshot, or rollback to an older one.
Activate(i) ==
  /\ i \in intact
  /\ active' = i
  /\ UNCHANGED <<intact, spent>>

\* Only a snapshot that is not in force is ever taken apart.
Discard(i) ==
  /\ i \in intact \ {active}
  /\ intact' = intact \ {i}
  /\ UNCHANGED <<active, spent>>

StoreStep(i) == Appear(i) \/ GiveUp(i) \/ Activate(i) \/ Discard(i)

StoreSpec == StoreInit /\ [][\E i \in Ids : StoreStep(i)]_storeVars
=============================================================================
