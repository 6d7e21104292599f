-------------------------- MODULE GatewayRestart --------------------------
(***************************************************************************)
(* The gateway's run loop, cli/gateway-cli/run-loop.ts, composed with the  *)
(* command lanes it drains and resets: SIGUSR1 drains the lanes, closes    *)
(* the server and either replaces the process or starts the next iteration *)
(* of the loop in the same process; SIGTERM and SIGINT close and exit.     *)
(*                                                                         *)
(* The loop and the shutdown sequence are two async functions: they        *)
(* interleave at every await, with each other, with signals, and with the  *)
(* tasks in the lanes.                                                     *)
(***************************************************************************)
EXTENDS Integers, Sequences, FiniteSets

CONSTANTS Lanes, Cmds, NoCmd, LaneOf, Nested, MaxLimit,
          MaxReset     \* bound: restarts within the process

\* The lanes are those of CommandLanes, with the nesting of agent runs.
ASSUME LaneConstants ==
  /\ IsFiniteSet(Cmds) /\ IsFiniteSet(Lanes)
  /\ NoCmd \notin Cmds
  /\ LaneOf \in [Cmds -> Lanes]
  /\ Nested \in [Cmds -> Cmds \cup {NoCmd}]
  /\ MaxLimit \in Nat \ {0} /\ MaxReset \in Nat

VARIABLES queue, activeTaskIds, maxConcurrent, draining, generation,
          gatewayDraining, taskGeneration, status, calls, entering, waiter,
          arrival

VARIABLES
  loop,          \* where runGatewayLoop is
  request,       \* where the shutdown sequence started by request() is
  action,        \* what that request asks for
  shuttingDown,  \* the variable of that name
  resolver,      \* restartResolver: unset, of a past iteration, or armed
  server,        \* the variable of that name: closed, or a running server
  lock,          \* the variable of that name: is a lock handle held
  startFailed,   \* history: a start after the first one has failed
  early          \* history: the request came when the loop was not waiting

lanes == INSTANCE CommandLanes
laneVars == <<queue, activeTaskIds, maxConcurrent, draining, generation,
              gatewayDraining, taskGeneration, status, calls, entering, waiter,
              arrival>>
loopVars == <<loop, request, action, shuttingDown, resolver, server, lock,
              startFailed, early>>
vars == <<laneVars, loopVars>>

LoopState == {"starting", "releasing", "waiting", "exited"}
RequestState == {"none", "draining", "closing", "releasing", "unlocked",
                 "reacquiring"}

TypeOK ==
  /\ lanes!TypeOK
  /\ loop \in LoopState
  /\ request \in RequestState
  /\ action \in {"stop", "restart"}
  /\ shuttingDown \in BOOLEAN
  /\ resolver \in {"unset", "past", "armed"}
  /\ server \in {"closed", "up"}
  /\ lock \in {"none", "held"}
  /\ startFailed \in BOOLEAN
  /\ early \in BOOLEAN
  /\ loop = "waiting" => resolver = "armed"
  /\ request # "none" => shuttingDown

\* The lock is acquired before the loop begins.
Init ==
  /\ lanes!Init
  /\ loop = "starting"
  /\ request = "none"
  /\ action = "stop"
  /\ shuttingDown = FALSE
  /\ resolver = "unset"
  /\ server = "closed"
  /\ lock = "held"
  /\ startFailed = FALSE
  /\ early = FALSE

Alive == loop # "exited"
FirstIteration == \A l \in Lanes : generation[l] = 0
---------------------------------------------------------------------------
(* The loop *)

\* Mutant: the loop waits on the promise of the iteration before.
StartKeepsResolver ==
  /\ loop = "starting"
  /\ server' = "up"
  /\ loop' = "waiting"
  /\ UNCHANGED <<laneVars, request, action, shuttingDown, resolver, lock,
                 startFailed, early>>

StartSucceeds ==
  /\ loop = "starting"
  /\ server' = "up"
  /\ loop' = "waiting"
  /\ resolver' = "armed"
  /\ UNCHANGED <<laneVars, request, action, shuttingDown, lock, startFailed,
                 early>>

\* A failed first start ends the process; a later one gives up the lock and
\* keeps the process for the next restart.
StartFails ==
  /\ loop = "starting"
  /\ IF FirstIteration
     THEN /\ loop' = "exited"
          /\ lock' = "none"
          /\ UNCHANGED <<server, resolver, startFailed>>
     ELSE /\ server' = "closed"
          /\ startFailed' = TRUE
          /\ UNCHANGED lock
          /\ IF lock = "held"
             THEN loop' = "releasing" /\ UNCHANGED resolver
             ELSE loop' = "waiting" /\ resolver' = "armed"
  /\ UNCHANGED <<laneVars, request, action, shuttingDown, early>>

LockReleasedAfterFailure ==
  /\ loop = "releasing"
  /\ lock' = "none"
  /\ loop' = "waiting"
  /\ resolver' = "armed"
  /\ UNCHANGED <<laneVars, request, action, shuttingDown, server, startFailed,
                 early>>
---------------------------------------------------------------------------
(* The shutdown sequence of request() *)

\* A running server is closed first; then the lock is released, if it is held.
\* Until its first await the sequence runs in the handler of the signal.
ReleaseLock == request' = IF lock = "held" THEN "releasing" ELSE "unlocked"

\* Mutant: the server is left to the next iteration.
CloseNothing == ReleaseLock

Close ==
  IF server = "up" THEN request' = "closing" ELSE ReleaseLock

Accept(kind) ==
  /\ Alive /\ lanes!Quiescent
  /\ ~shuttingDown
  /\ shuttingDown' = TRUE
  /\ action' = kind
  /\ early' = (loop # "waiting")

RequestStop ==
  /\ Accept("stop")
  /\ Close
  /\ UNCHANGED <<laneVars, loop, resolver, server, lock, startFailed>>

RequestRestart ==
  /\ \A l \in Lanes : generation[l] < MaxReset
  /\ Accept("restart")
  /\ gatewayDraining' = TRUE
  /\ IF lanes!AllActive = {}
     THEN Close /\ UNCHANGED waiter
     ELSE request' = "draining" /\ waiter' = lanes!WaitFor(lanes!AllActive)
  /\ UNCHANGED <<queue, activeTaskIds, maxConcurrent, draining, generation,
                 taskGeneration, status, calls, entering, arrival, loop,
                 resolver, server, lock, startFailed>>

\* Mutant: the answer of waitForActiveTasks is not awaited.
DrainNotAwaited ==
  /\ request = "draining"
  /\ Close
  /\ UNCHANGED <<laneVars, loop, action, shuttingDown, resolver, server, lock,
                 startFailed, early>>

\* waitForActiveTasks answers, drained or not, and the restart goes on.
Drained ==
  /\ request = "draining"
  /\ \E result \in {"drained", "timeout"} : lanes!WaitCheck(result)
  /\ Close
  /\ UNCHANGED <<loop, action, shuttingDown, resolver, server, lock,
                 startFailed, early>>

ServerClosed ==
  /\ request = "closing"
  /\ server' = "closed"
  /\ ReleaseLock
  /\ UNCHANGED <<laneVars, loop, action, shuttingDown, resolver, lock,
                 startFailed, early>>

ExitProcess ==
  /\ loop' = "exited"
  /\ request' = "none"
  /\ UNCHANGED <<laneVars, shuttingDown, resolver>>

\* Mutant: the next iteration starts on the lanes as they are.
ResolveWithoutReset ==
  /\ shuttingDown' = FALSE
  /\ request' = "none"
  /\ UNCHANGED laneVars
  /\ IF resolver = "armed"
     THEN loop' = "starting" /\ resolver' = "past"
     ELSE UNCHANGED <<loop, resolver>>

\* A restart in the process ends: a loop that waits for it starts its next
\* iteration with idle lanes.  restartResolver is never unset, so with a loop
\* that does not wait, the call resolves an old promise, or nothing.
ResolveRestart ==
  /\ shuttingDown' = FALSE
  /\ request' = "none"
  /\ IF resolver = "armed"
     THEN /\ loop' = "starting"
          /\ resolver' = "past"
          /\ lanes!ResetAllLanes
     ELSE UNCHANGED <<laneVars, loop, resolver>>

\* The lock is released.  A stop exits; a restart exits in favour of a fresh
\* process, or takes the lock again to restart in place.
LockReleased ==
  /\ request = "releasing"
  /\ lock' = "none"
  /\ \/ ExitProcess
     \/ /\ action = "restart"
        /\ request' = "reacquiring"
        /\ UNCHANGED <<laneVars, loop, shuttingDown, resolver>>
  /\ UNCHANGED <<action, server, startFailed, early>>

\* There was no lock to release: a restart in place does not take one either.
NoLockToRelease ==
  /\ request = "unlocked"
  /\ ExitProcess \/ (action = "restart" /\ ResolveRestart)
  /\ UNCHANGED <<action, server, lock, startFailed, early>>

\* Mutant: the handle of the new lock is not kept.
ReacquiredNotKept ==
  /\ request = "reacquiring"
  /\ \/ UNCHANGED lock /\ ResolveRestart
     \/ ExitProcess /\ UNCHANGED lock
  /\ UNCHANGED <<action, server, startFailed, early>>

LockReacquired ==
  /\ request = "reacquiring"
  /\ \/ lock' = "held" /\ ResolveRestart
     \/ ExitProcess /\ UNCHANGED lock
  /\ UNCHANGED <<action, server, startFailed, early>>

\* Mutant: the timer is cleared before the server is closed.
ForceExitDraining ==
  /\ request = "draining"
  /\ ExitProcess
  /\ UNCHANGED <<action, server, lock, startFailed, early>>

\* The timer that bounds draining and closing.
ForceExit ==
  /\ request \in {"draining", "closing"}
  /\ ExitProcess
  /\ UNCHANGED <<action, server, lock, startFailed, early>>
---------------------------------------------------------------------------
LaneStep ==
  /\ \/ lanes!PumpStep
     \/ \E c \in Cmds : lanes!Enqueue(c) \/ lanes!TaskSettles(c)
     \/ \E l \in Lanes : \/ lanes!ClearCommandLane(l)
                         \/ \E n \in 0..MaxLimit :
                              lanes!SetCommandLaneConcurrency(l, n)
  /\ UNCHANGED loopVars

LoopStep == StartSucceeds \/ StartFails \/ LockReleasedAfterFailure
ShutdownStep ==
  Drained \/ LockReleased \/ NoLockToRelease \/ LockReacquired \/ ForceExit

Next ==
  /\ Alive
  /\ \/ LaneStep
     \/ /\ lanes!Quiescent
        /\ LoopStep \/ RequestStop \/ RequestRestart \/ ServerClosed \/ ShutdownStep

\* start() and the file operations on the lock end, timers fire, tasks settle;
\* server.close() need not: the force-exit timer is there because it may hang.
Fairness ==
  /\ WF_vars(Alive /\ lanes!PumpStep /\ UNCHANGED loopVars)
  /\ \A c \in Cmds : SF_vars(Alive /\ lanes!TaskSettles(c) /\ UNCHANGED loopVars)
  /\ SF_vars(Alive /\ lanes!Quiescent /\ LoopStep)
  /\ SF_vars(Alive /\ lanes!Quiescent /\ ShutdownStep)

Spec == Init /\ [][Next]_vars
FairSpec == Spec /\ Fairness
---------------------------------------------------------------------------
(* Properties *)

\* An iteration of the loop starts only when the server of the one before has
\* closed, and with lanes that accept commands, however signals, drains, failed
\* starts and restarts interleave; except for a restart that was asked for while
\* the loop was not waiting, which may find a server up that it did not close.
StartsAlone ==
  [][loop # "starting" /\ loop' = "starting" =>
       (server = "closed" \/ early) /\ ~gatewayDraining']_vars

\* A gateway that serves holds the lock, as long as no restart has failed to
\* start: while its lock is being released and taken again it serves nobody,
\* or was still starting when the restart was asked for.
LockHeldWhileServing ==
  server = "up" /\ loop = "waiting" /\ ~startFailed
    /\ request \in {"none", "draining", "closing"} => lock = "held"

\* The lanes are left refusing commands only by a restart that was asked for
\* while the loop was not waiting.
RefusalHasCause == gatewayDraining => shuttingDown \/ early

\* Neither the lock nor the lanes are lost to a shutdown sequence and a loop that
\* interleave.
LoopSound == LockHeldWhileServing /\ RefusalHasCause

\* A restart gives up a run only when it waited for it until the timeout, or
\* when the run was still queued as the wait began.  A run given up executes on
\* beside the runs that the next iteration starts in the same session.
GivesUpOnlyAfterWait ==
  [][\A c \in lanes!AllActive :
       generation' # generation /\ c \in waiter.activeAtStart
         => waiter.state = "timeout"]_vars

\* Every accepted signal ends in an exit or a gateway that takes signals again,
\* even when tasks never drain and the server never closes.
ShutdownEnds == shuttingDown ~> ~shuttingDown \/ ~Alive

\* Queued commands survive the restarts: they are settled unless the process
\* ends.
QueuedWorkSurvives ==
  \A c \in Cmds : status[c] = "queued" ~> status[c] \in lanes!Settled \/ ~Alive

\* "SIGUSR1 triggers an in-process restart" (run-loop.ts): an accepted restart
\* leads to a new iteration of the loop, or to the end of the process.
RestartHappens ==
  \A n \in 0..MaxReset - 1 :
    (shuttingDown /\ action = "restart" /\ \A l \in Lanes : generation[l] = n)
      ~> (~Alive \/ \A l \in Lanes : generation[l] > n)

\* A session lane guarantees "only one active run per session" (docs).
OneRunPerSession ==
  \A c, d \in Cmds :
    status[c] = "running" /\ status[d] = "running" /\ LaneOf[c] = LaneOf[d] => c = d
===========================================================================
