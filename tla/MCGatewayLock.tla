-------------------------- MODULE MCGatewayLock --------------------------
(* Three gateway processes that may all be replaced by one another. *)
EXTENDS GatewayLock, TLC

CONSTANTS p1, p2, p3

Symmetry == Permutations(Procs)
===========================================================================
