--------------------------- MODULE ManagedRuns ---------------------------
(***************************************************************************)
(* What the supervisor promises of each run, whatever happens to others: a *)
(* run starts, comes up or fails; while it is up the first request to      *)
(* terminate it decides the reason it ends with, and a run that was asked  *)
(* to terminate ends; an ended run never changes.                          *)
(***************************************************************************)
CONSTANTS Runs, None, Reasons

VARIABLES phase, verdict

vars == <<phase, verdict>>

Init ==
  /\ phase = [r \in Runs |-> "absent"]
  /\ verdict = [r \in Runs |-> None]

Moves(r, from, to) == phase[r] = from /\ phase'[r] = to
Keeps(r) == verdict'[r] = verdict[r]

Rests(r) == phase'[r] = phase[r] /\ Keeps(r)
Starts(r) == (Moves(r, "absent", "starting") \/ Moves(r, "failed", "starting")) /\ Keeps(r)
Fails(r) == Moves(r, "starting", "failed") /\ Keeps(r)
ComesUp(r) == Moves(r, "starting", "running") /\ Keeps(r)
IsAsked(r) ==
  Moves(r, "running", "running") /\ verdict[r] = None /\ verdict'[r] \in Reasons
Ends(r) ==
  /\ Moves(r, "running", "ended")
  /\ verdict'[r] \in IF verdict[r] = None THEN {"exit", "signal"} ELSE {verdict[r]}

\* One step of the supervisor may ask several runs to terminate and start one.
Next ==
  \A r \in Runs :
    Rests(r) \/ Starts(r) \/ Fails(r) \/ ComesUp(r) \/ IsAsked(r) \/ Ends(r)

AskedEnds ==
  \A r \in Runs : phase[r] = "running" /\ verdict[r] # None ~> phase[r] = "ended"

Spec == Init /\ [][Next]_vars /\ AskedEnds
===========================================================================
