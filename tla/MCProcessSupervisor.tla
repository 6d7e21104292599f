------------------------ MODULE MCProcessSupervisor ------------------------
(* Two runs that replace one another in a scope: one with both timeouts, and one
   in a pty with the overall timeout. *)
EXTENDS ProcessSupervisor

CONSTANTS r1, r2, s1

MCScopeOf == [r \in Runs |-> s1]
MCLimits == [r \in Runs |-> IF r = r1 THEN Timeouts ELSE {"overall-timeout"}]
=============================================================================
