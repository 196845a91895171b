--------------------------- MODULE MCSnapshotStore ---------------------------
(* SnapshotStore with two collectors that retain different numbers of     *)
(* snapshots, as a device form edited between two syncs, or a command-line *)
(* collector beside the web application, makes them.                       *)
EXTENDS SnapshotStore

CONSTANTS web, cli

MCCollectors == {web, cli}
MCIds == 1 .. 4
MCKeep == [c \in Collectors |-> IF c = web THEN 2 ELSE 3]
=============================================================================
