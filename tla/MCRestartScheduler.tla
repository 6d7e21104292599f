------------------------ MODULE MCRestartScheduler ------------------------
(* Two delays, on both sides of the cooldown, and room for two deferrals.  *)
EXTENDS RestartScheduler

MCDelays == {0, 3}
===========================================================================
