------------------------- MODULE MCServiceProcess -------------------------
(* Two start calls for one service. *)
EXTENDS ServiceProcess

CONSTANTS r1, r2, s1

MCServiceOf == [r \in Runs |-> s1]
===========================================================================
