---------------------------- MODULE RemoteCalls ----------------------------
(***************************************************************************)
(* What the service protocol promises to those who call through it: a call *)
(* that is made is carried out at most once, ends exactly once, and is     *)
(* answered only if it was carried out.  A call that has failed may still  *)
(* be carried out.                                                         *)
(***************************************************************************)
EXTENDS Naturals

CONSTANT Calls

VARIABLES
  outcome, \* of each call
  carried  \* how often the other side has carried out each call

vars == <<outcome, carried>>

Init ==
  /\ outcome = [c \in Calls |-> "none"]
  /\ carried = [c \in Calls |-> 0]

Ask(c) ==
  /\ outcome[c] = "none"
  /\ \E o \in {"open", "failed"} : outcome' = [outcome EXCEPT ![c] = o]
  /\ UNCHANGED carried

CarryOut(c) ==
  /\ outcome[c] # "none" /\ carried[c] = 0
  /\ carried' = [carried EXCEPT ![c] = @ + 1]
  /\ UNCHANGED outcome

Answer(c) ==
  /\ outcome[c] = "open" /\ carried[c] > 0
  /\ outcome' = [outcome EXCEPT ![c] = "answered"]
  /\ UNCHANGED carried

\* A connection that ends fails all calls of its owner at once.
Fail ==
  /\ \E cs \in SUBSET {c \in Calls : outcome[c] = "open"} :
       outcome' = [c \in Calls |-> IF c \in cs THEN "failed" ELSE outcome[c]]
  /\ UNCHANGED carried

Next == Fail \/ \E c \in Calls : Ask(c) \/ CarryOut(c) \/ Answer(c)

Settles(c) == outcome[c] = "open" ~> outcome[c] \in {"answered", "failed"}

Spec == Init /\ [][Next]_vars /\ \A c \in Calls : Settles(c)
===========================================================================
