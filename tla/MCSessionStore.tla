------------------------- MODULE MCSessionStore -------------------------
(* A gateway and a command line that share the store. *)
EXTENDS SessionStore, TLC

CONSTANTS gw, cli, u1, u2, r1, b1

HomeMC == [x \in Calls |-> IF x = u2 THEN cli ELSE gw]
KindMC == [x \in Calls |->
  CASE x \in {u1, u2} -> "update" [] x = r1 -> "route" [] OTHER -> "beat"]
===========================================================================
