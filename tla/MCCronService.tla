-------------------------- MODULE MCCronService --------------------------
(* A one-shot job and one that repeats. *)
EXTENDS CronService

MCKindOf == [j \in Jobs |-> IF j = 1 THEN "at" ELSE "every"]
===========================================================================
