--------------------------- MODULE FifoExecutor ---------------------------
(***************************************************************************)
(* What process/command-queue.ts promises its callers, without pumps,      *)
(* flags, generations or call stacks: a lane runs its commands in arrival  *)
(* order, at most "limit" at a time; every accepted command gets exactly   *)
(* one outcome; a restart abandons what is running (it may still finish)   *)
(* and keeps what is waiting; a free slot and a waiting command meet.      *)
(***************************************************************************)
EXTENDS Integers, Sequences, FiniteSets

CONSTANTS Lanes, Cmds, LaneOf, MaxLimit

VARIABLES
  waiting,   \* the waiting commands of each lane, in arrival order
  phase,     \* where each command is in its life
  limit      \* how many commands of the lane may run at a time

vars == <<waiting, phase, limit>>

Outcomes == {"done", "failed", "cleared", "refused"}
Running(l) == {c \in Cmds : LaneOf[c] = l /\ phase[c] = "running"}

Init ==
  /\ waiting = [l \in Lanes |-> <<>>]
  /\ phase = [c \in Cmds |-> "new"]
  /\ limit = [l \in Lanes |-> 1]

Submit(c) ==
  /\ phase[c] = "new"
  /\ phase' = [phase EXCEPT ![c] = "waiting"]
  /\ waiting' = [waiting EXCEPT ![LaneOf[c]] = Append(@, c)]
  /\ UNCHANGED limit

Refuse(c) ==
  /\ phase[c] = "new"
  /\ phase' = [phase EXCEPT ![c] = "refused"]
  /\ UNCHANGED <<waiting, limit>>

CanStart(l) == waiting[l] # <<>> /\ Cardinality(Running(l)) < limit[l]

Start(l) ==
  /\ CanStart(l)
  /\ phase' = [phase EXCEPT ![Head(waiting[l])] = "running"]
  /\ waiting' = [waiting EXCEPT ![l] = Tail(@)]
  /\ UNCHANGED limit

Finish(c) ==
  /\ phase[c] \in {"running", "abandoned"}
  /\ \E o \in {"done", "failed"} : phase' = [phase EXCEPT ![c] = o]
  /\ UNCHANGED <<waiting, limit>>

Clear(l) ==
  /\ phase' = [c \in Cmds |->
       IF \E i \in DOMAIN waiting[l] : waiting[l][i] = c THEN "cleared"
       ELSE phase[c]]
  /\ waiting' = [waiting EXCEPT ![l] = <<>>]
  /\ UNCHANGED limit

SetLimit(l) ==
  /\ \E n \in 1..MaxLimit : limit' = [limit EXCEPT ![l] = n]
  /\ UNCHANGED <<waiting, phase>>

AbandonAll ==
  /\ phase' = [c \in Cmds |->
       IF phase[c] = "running" THEN "abandoned" ELSE phase[c]]
  /\ UNCHANGED <<waiting, limit>>

Next ==
  \/ \E c \in Cmds : Submit(c) \/ Refuse(c) \/ Finish(c)
  \/ \E l \in Lanes : Start(l) \/ Clear(l) \/ SetLimit(l)
  \/ AbandonAll

\* Weak fairness of Start(l) and Finish(c), written with their guards so that
\* it can be evaluated through a refinement mapping.
FairStart(l) == []<>(~CanStart(l)) \/ []<><<Start(l)>>_vars
FairFinish(c) ==
  []<>(phase[c] \notin {"running", "abandoned"}) \/ []<><<Finish(c)>>_vars

\* A command that was accepted does not wait for ever.
Settles(c) == phase[c] = "waiting" ~> phase[c] \in Outcomes

Spec ==
  /\ Init /\ [][Next]_vars
  /\ \A l \in Lanes : FairStart(l)
  /\ \A c \in Cmds : FairFinish(c) /\ Settles(c)
===========================================================================
