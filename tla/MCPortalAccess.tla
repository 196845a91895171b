---------------------------- MODULE MCPortalAccess ----------------------------
(* Two workers, two users who may both become administrators, one service    *)
(* and one device.                                                           *)
EXTENDS PortalAccess, TLC

WorkerSymmetry == Permutations(Workers)

=============================================================================
