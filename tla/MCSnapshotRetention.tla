------------------------- MODULE MCSnapshotRetention -------------------------
(* SnapshotRetention with one collector, started on a directory in which   *)
(* two snapshots were published, the newest of them active.                *)
EXTENDS SnapshotRetention

CONSTANT web

MCCollectors == {web}
MCIds == 1 .. 3
MCKeep == [c \in Collectors |-> 2]

Published == 1 .. 2

MCInit ==
  /\ pointer = 2 /\ tmps = {} /\ staging = {}
  /\ dirs = Published /\ used = Published
  /\ content = [i \in Ids |-> IF i \in Published THEN Entries ELSE {}]
  /\ lock = None
  /\ pc = [c \in Collectors |-> "idle"]
  /\ sid = [c \in Collectors |-> None]
  /\ step = [c \in Collectors |-> 1]
  /\ victims = [c \in Collectors |-> {}]
  /\ base = [c \in Collectors |-> None]
  /\ byMtime = <<1, 2>>
  /\ age = [i \in Ids |-> 0] /\ elapsed = [c \in Collectors |-> 0]
  /\ rpc = "idle" /\ rActive = None /\ rStaging = FALSE /\ rVictims = <<>>

MCSpec == MCInit /\ [][RNext]_allVars
=============================================================================
