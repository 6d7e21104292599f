----------------------------- MODULE MCScpLink -----------------------------
(* A call of the gateway and one of the service; MaxCalls says how many are
   made. *)
EXTENDS ScpLink

CONSTANTS a, b
===========================================================================
