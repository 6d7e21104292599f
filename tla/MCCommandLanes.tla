-------------------------- MODULE MCCommandLanes --------------------------
(* A session lane, one of whose runs (a1) nests into the global lane (am1),
   and the global lane with commands of its own (m1, m2). *)
EXTENDS CommandLanes

CONSTANTS main, session, a1, a2, am1, m1, m2

MCLaneOf == [c \in Cmds |-> IF c \in {a1, a2} THEN session ELSE main]
MCNested == [c \in Cmds |-> IF c = a1 THEN am1 ELSE NoCmd]
===========================================================================
