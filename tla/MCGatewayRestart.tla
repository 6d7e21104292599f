------------------------- MODULE MCGatewayRestart -------------------------
(* One session lane with two runs that do not nest. *)
EXTENDS GatewayRestart

CONSTANTS session, a1, a2

MCLaneOf == [c \in Cmds |-> session]
MCNested == [c \in Cmds |-> NoCmd]
===========================================================================
