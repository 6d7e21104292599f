--------------------------- MODULE CommandLanes ---------------------------
(***************************************************************************)
(* The in-process command queue of the gateway, process/command-queue.ts:  *)
(* named lanes, each a FIFO queue drained by a pump that keeps at most     *)
(* maxConcurrent tasks of the lane executing.                              *)
(*                                                                         *)
(* JavaScript runs one call to completion before the next, so a call is a  *)
(* run of small steps that nothing else interrupts.  "calls" is the stack  *)
(* of drainLane calls and pump loops in progress, "entering" the command   *)
(* whose task function pump is calling.  An operation of the module        *)
(* starts only when both are empty.                                        *)
(***************************************************************************)
EXTENDS Integers, Sequences, FiniteSets

CONSTANTS
  Lanes,      \* the lanes (every lane a caller may name; created lazily)
  Cmds,       \* the commands: one call of enqueueCommandInLane each
  NoCmd,      \* not a command
  LaneOf,     \* LaneOf[c]: the lane c is enqueued in
  Nested,     \* Nested[c]: the command c's task enqueues and awaits, or NoCmd
  MaxLimit,   \* bound: the largest concurrency a lane is configured with
  MaxReset    \* bound: how many times resetAllLanes is called

ASSUME Finiteness == IsFiniteSet(Cmds) /\ IsFiniteSet(Lanes)
ASSUME NoCmdType == NoCmd \notin Cmds
ASSUME LaneOfType == LaneOf \in [Cmds -> Lanes]
ASSUME NestedType ==
  /\ Nested \in [Cmds -> Cmds \cup {NoCmd}]
  /\ \A c, d \in Cmds : Nested[c] = Nested[d] /\ Nested[c] # NoCmd => c = d
ASSUME LimitType == MaxLimit \in Nat \ {0} /\ MaxReset \in Nat

VARIABLES
  queue,            \* LaneState.queue of every lane
  activeTaskIds,    \* LaneState.activeTaskIds; the id of a task is its command
  maxConcurrent,    \* LaneState.maxConcurrent
  draining,         \* LaneState.draining
  generation,       \* LaneState.generation
  gatewayDraining,  \* the module variable of that name
  taskGeneration,   \* the generation each started task captured
  status,           \* what became of the promise of each command
  calls,            \* the stack of drainLane / pump calls in progress
  entering,         \* the command whose task function is being called
  waiter,           \* the pending or last waitForActiveTasks call
  arrival           \* history: the commands each lane accepted, in order

laneVars == <<queue, activeTaskIds, maxConcurrent, draining, generation>>
vars == <<laneVars, gatewayDraining, taskGeneration, status, calls, entering,
          waiter, arrival>>

Settled == {"done", "failed", "cleared", "refused"}
Status == {"idle", "queued", "running"} \cup Settled
Frame == [at : {"drain", "pump"}, lane : Lanes]

TypeOK ==
  /\ queue \in [Lanes -> Seq(Cmds)]
  /\ activeTaskIds \in [Lanes -> SUBSET Cmds]
  /\ maxConcurrent \in [Lanes -> 1..MaxLimit]
  /\ draining \in [Lanes -> BOOLEAN]
  /\ generation \in [Lanes -> 0..MaxReset]
  /\ gatewayDraining \in BOOLEAN
  /\ taskGeneration \in [Cmds -> 0..MaxReset]
  /\ status \in [Cmds -> Status]
  /\ calls \in Seq(Frame)
  /\ entering \in {c \in Cmds : Nested[c] # NoCmd} \cup {NoCmd}
  /\ waiter \in [state : {"none", "waiting", "drained", "timeout"},
                 activeAtStart : SUBSET Cmds]
  /\ arrival \in [Lanes -> Seq(Cmds)]

Init ==
  /\ queue = [l \in Lanes |-> <<>>]
  /\ activeTaskIds = [l \in Lanes |-> {}]
  /\ maxConcurrent = [l \in Lanes |-> 1]
  /\ draining = [l \in Lanes |-> FALSE]
  /\ generation = [l \in Lanes |-> 0]
  /\ gatewayDraining = FALSE
  /\ taskGeneration = [c \in Cmds |-> 0]
  /\ status = [c \in Cmds |-> "idle"]
  /\ calls = <<>>
  /\ entering = NoCmd
  /\ waiter = [state |-> "none", activeAtStart |-> {}]
  /\ arrival = [l \in Lanes |-> <<>>]

---------------------------------------------------------------------------
(* The call stack *)

Quiescent == calls = <<>> /\ entering = NoCmd
Top == calls[Len(calls)]
Popped == SubSeq(calls, 1, Len(calls) - 1)
InCall(at) == calls # <<>> /\ entering = NoCmd /\ Top.at = at

\* The commands that callers enqueue themselves, not from inside a task.
Roots == {c \in Cmds : \A d \in Cmds : Nested[d] # c}
AllActive == UNION {activeTaskIds[l] : l \in Lanes}

---------------------------------------------------------------------------
(* enqueueCommandInLane: accepted commands join the queue of their lane and
   the lane is drained; a draining gateway refuses the command at once. *)

\* Mutant: the entry is unshifted instead of pushed.
AcceptInFront(c) ==
  /\ ~gatewayDraining
  /\ queue' = [queue EXCEPT ![LaneOf[c]] = <<c>> \o @]
  /\ arrival' = [arrival EXCEPT ![LaneOf[c]] = Append(@, c)]
  /\ status' = [status EXCEPT ![c] = "queued"]
  /\ calls' = Append(calls, [at |-> "drain", lane |-> LaneOf[c]])

Accept(c) ==
  /\ ~gatewayDraining
  /\ queue' = [queue EXCEPT ![LaneOf[c]] = Append(@, c)]
  /\ arrival' = [arrival EXCEPT ![LaneOf[c]] = Append(@, c)]
  /\ status' = [status EXCEPT ![c] = "queued"]
  /\ calls' = Append(calls, [at |-> "drain", lane |-> LaneOf[c]])

Refuse(c) ==
  /\ gatewayDraining
  /\ status' = [status EXCEPT ![c] = "refused"]
  /\ UNCHANGED <<queue, arrival, calls>>

Enqueue(c) ==
  /\ Quiescent
  /\ c \in Roots
  /\ status[c] = "idle"
  /\ Accept(c) \/ Refuse(c)
  /\ UNCHANGED <<activeTaskIds, maxConcurrent, draining, generation,
                 gatewayDraining, taskGeneration, entering, waiter>>

---------------------------------------------------------------------------
(* drainLane and the pump loop *)

DrainLane ==
  /\ InCall("drain")
  /\ IF draining[Top.lane]
     THEN calls' = Popped /\ UNCHANGED draining
     ELSE /\ draining' = [draining EXCEPT ![Top.lane] = TRUE]
          /\ calls' = Append(Popped, [at |-> "pump", lane |-> Top.lane])
  /\ UNCHANGED <<queue, activeTaskIds, maxConcurrent, generation,
                 gatewayDraining, taskGeneration, status, entering, waiter,
                 arrival>>

CanPump(l) ==
  Cardinality(activeTaskIds[l]) < maxConcurrent[l] /\ queue[l] # <<>>

\* One round of the loop: shift the head, record it active, call its task.
PumpStart ==
  /\ InCall("pump")
  /\ CanPump(Top.lane)
  /\ LET l == Top.lane
         c == Head(queue[l])
     IN  /\ queue' = [queue EXCEPT ![l] = Tail(@)]
         /\ activeTaskIds' = [activeTaskIds EXCEPT ![l] = @ \cup {c}]
         /\ taskGeneration' = [taskGeneration EXCEPT ![c] = generation[l]]
         /\ status' = [status EXCEPT ![c] = "running"]
         /\ entering' = IF Nested[c] = NoCmd THEN NoCmd ELSE c
  /\ UNCHANGED <<maxConcurrent, draining, generation, gatewayDraining, calls,
                 waiter, arrival>>

PumpEnd ==
  /\ InCall("pump")
  /\ ~CanPump(Top.lane)
  /\ draining' = [draining EXCEPT ![Top.lane] = FALSE]
  /\ calls' = Popped
  /\ UNCHANGED <<queue, activeTaskIds, maxConcurrent, generation,
                 gatewayDraining, taskGeneration, status, entering, waiter,
                 arrival>>

\* The task of an agent run, entered in its session lane, enqueues the run in
\* the global lane before it first awaits.
EnterTask ==
  /\ entering # NoCmd
  /\ entering' = NoCmd
  /\ Accept(Nested[entering]) \/ Refuse(Nested[entering])
  /\ UNCHANGED <<activeTaskIds, maxConcurrent, draining, generation,
                 gatewayDraining, taskGeneration, waiter>>

---------------------------------------------------------------------------
(* A task settles: completeTask, then pump if its generation is current. *)

NestedSettled(c) == \A d \in Cmds : d = Nested[c] => status[d] \in Settled

\* A task that awaits a nested command ends no better than that command.
TaskOutcomes(c) ==
  IF \A d \in Cmds : d = Nested[c] => status[d] = "done"
  THEN {"done", "failed"} ELSE {"failed"}

\* Mutant: the error path forgets completeTask.
CompleteTaskOnSuccess(c) ==
  IF taskGeneration[c] # generation[LaneOf[c]] \/ status'[c] = "failed"
  THEN UNCHANGED <<activeTaskIds, calls>>
  ELSE /\ activeTaskIds' = [activeTaskIds EXCEPT ![LaneOf[c]] = @ \ {c}]
       /\ calls' = Append(calls, [at |-> "pump", lane |-> LaneOf[c]])

\* Mutant: a completion frees its slot and does not pump.
CompleteTaskNoPump(c) ==
  /\ UNCHANGED calls
  /\ IF taskGeneration[c] # generation[LaneOf[c]]
     THEN UNCHANGED activeTaskIds
     ELSE activeTaskIds' = [activeTaskIds EXCEPT ![LaneOf[c]] = @ \ {c}]

CompleteTask(c) ==
  IF taskGeneration[c] # generation[LaneOf[c]]
  THEN UNCHANGED <<activeTaskIds, calls>>
  ELSE /\ activeTaskIds' = [activeTaskIds EXCEPT ![LaneOf[c]] = @ \ {c}]
       /\ calls' = Append(calls, [at |-> "pump", lane |-> LaneOf[c]])

TaskSettles(c) ==
  /\ Quiescent
  /\ status[c] = "running"
  /\ NestedSettled(c)
  /\ \E o \in TaskOutcomes(c) : status' = [status EXCEPT ![c] = o]
  /\ CompleteTask(c)
  /\ UNCHANGED <<queue, maxConcurrent, draining, generation, gatewayDraining,
                 taskGeneration, entering, waiter, arrival>>

---------------------------------------------------------------------------
(* The other operations *)

\* Mutant: a limit of zero is taken as it is.
SetConcurrencyUnclamped(l, n) ==
  /\ Quiescent
  /\ maxConcurrent' = [maxConcurrent EXCEPT ![l] = n]
  /\ calls' = Append(calls, [at |-> "drain", lane |-> l])
  /\ UNCHANGED <<queue, activeTaskIds, draining, generation, gatewayDraining,
                 taskGeneration, status, entering, waiter, arrival>>

\* A limit below one is raised to one.
SetCommandLaneConcurrency(l, n) ==
  /\ Quiescent
  /\ maxConcurrent' = [maxConcurrent EXCEPT ![l] = IF n < 1 THEN 1 ELSE n]
  /\ calls' = Append(calls, [at |-> "drain", lane |-> l])
  /\ UNCHANGED <<queue, activeTaskIds, draining, generation, gatewayDraining,
                 taskGeneration, status, entering, waiter, arrival>>

Queued(l) == {queue[l][i] : i \in 1..Len(queue[l])}

\* Mutant: the entries are rejected and stay queued.
ClearKeepsQueue(l) ==
  /\ Quiescent
  /\ queue[l] # <<>>
  /\ status' = [c \in Cmds |-> IF c \in Queued(l) THEN "cleared" ELSE status[c]]
  /\ UNCHANGED <<laneVars, gatewayDraining, taskGeneration, calls, entering,
                 waiter, arrival>>

\* Mutant: the entries are dropped and nobody is told.
ClearSilently(l) ==
  /\ Quiescent
  /\ queue[l] # <<>>
  /\ queue' = [queue EXCEPT ![l] = <<>>]
  /\ UNCHANGED <<activeTaskIds, maxConcurrent, draining, generation, status,
                 gatewayDraining, taskGeneration, calls, entering, waiter,
                 arrival>>

ClearCommandLane(l) ==
  /\ Quiescent
  /\ queue[l] # <<>>
  /\ status' = [c \in Cmds |-> IF c \in Queued(l) THEN "cleared" ELSE status[c]]
  /\ queue' = [queue EXCEPT ![l] = <<>>]
  /\ UNCHANGED <<activeTaskIds, maxConcurrent, draining, generation,
                 gatewayDraining, taskGeneration, calls, entering, waiter,
                 arrival>>

MarkGatewayDraining ==
  /\ Quiescent
  /\ gatewayDraining' = TRUE
  /\ UNCHANGED <<laneVars, taskGeneration, status, calls, entering, waiter,
                 arrival>>

\* Mutant: preserved entries wait for the next enqueue.
DrainNothing(D) == {<<>>}

\* The lanes are drained one after the other, in the order of the lanes Map:
\* some order of the lanes that have queued commands.
DrainOrders(D) ==
  {s \in [1..Cardinality(D) -> D] : \A l \in D : \E i \in DOMAIN s : s[i] = l}

ResetAllLanes ==
  /\ Quiescent
  /\ \A l \in Lanes : generation[l] < MaxReset
  /\ gatewayDraining' = FALSE
  /\ generation' = [l \in Lanes |-> generation[l] + 1]
  /\ activeTaskIds' = [l \in Lanes |-> {}]
  /\ draining' = [l \in Lanes |-> FALSE]
  /\ \E s \in DrainOrders({l \in Lanes : queue[l] # <<>>}) :
       calls' = [i \in DOMAIN s |-> [at |-> "drain", lane |-> s[i]]]
  /\ UNCHANGED <<queue, maxConcurrent, taskGeneration, status, entering,
                 waiter, arrival>>

---------------------------------------------------------------------------
(* waitForActiveTasks: a snapshot of the active ids, polled until none of
   them is active or the deadline has passed. *)

WaitFor(active) ==
  [state |-> IF active = {} THEN "drained" ELSE "waiting", activeAtStart |-> active]

WaitForActiveTasks ==
  /\ Quiescent
  /\ waiter.state # "waiting"
  /\ waiter' = WaitFor(AllActive)
  /\ UNCHANGED <<laneVars, gatewayDraining, taskGeneration, status, calls,
                 entering, arrival>>

\* Mutant: drained as soon as one of the tasks has finished.
WaitCheckAny(result) ==
  /\ Quiescent
  /\ waiter.state = "waiting"
  /\ IF ~(waiter.activeAtStart \subseteq AllActive)
     THEN result = "drained" ELSE result = "timeout"
  /\ waiter' = [waiter EXCEPT !.state = result]
  /\ UNCHANGED <<laneVars, gatewayDraining, taskGeneration, status, calls,
                 entering, arrival>>

WaitCheck(result) ==
  /\ Quiescent
  /\ waiter.state = "waiting"
  /\ IF waiter.activeAtStart \cap AllActive = {}
     THEN result = "drained" ELSE result = "timeout"
  /\ waiter' = [waiter EXCEPT !.state = result]
  /\ UNCHANGED <<laneVars, gatewayDraining, taskGeneration, status, calls,
                 entering, arrival>>

---------------------------------------------------------------------------
PumpStep == DrainLane \/ PumpStart \/ PumpEnd \/ EnterTask

Next ==
  \/ PumpStep
  \/ \E c \in Cmds : Enqueue(c) \/ TaskSettles(c)
  \/ \E l \in Lanes : ClearCommandLane(l)
                      \/ \E n \in 0..MaxLimit : SetCommandLaneConcurrency(l, n)
  \/ MarkGatewayDraining
  \/ ResetAllLanes
  \/ WaitForActiveTasks
  \/ \E r \in {"drained", "timeout"} : WaitCheck(r)

\* A call in progress runs on, a task whose nested command has settled settles
\* (agent runs have a timeout), and the poll timer of a waiter fires.  The last
\* two are callbacks that wait for other calls to return, again and again: the
\* event loop serves a ready callback however busy the callers are, hence SF.
Fairness ==
  /\ WF_vars(PumpStep)
  /\ \A c \in Cmds : SF_vars(TaskSettles(c))
  /\ SF_vars(\E r \in {"drained", "timeout"} : WaitCheck(r))

Spec == Init /\ [][Next]_vars
FairSpec == Spec /\ Fairness

---------------------------------------------------------------------------
(* Properties *)

\* The commands of a lane that started since the last reset and have not
\* settled; those that a reset gave up may still execute beside them.
StartedSinceReset(l) == {c \in Cmds : /\ status[c] = "running"
                              /\ LaneOf[c] = l
                              /\ taskGeneration[c] = generation[l]}

\* The active ids of a lane are exactly its commands that started since the
\* last reset and have not settled: no slot is leaked by a failing task, a
\* reset, or a stale completion that arrives after the reset, and none is freed
\* twice.
ActiveExact == \A l \in Lanes : activeTaskIds[l] = StartedSinceReset(l)

\* An accepted command is in the queue of its lane exactly once until it starts
\* or is cleared: neither pump, clearCommandLane nor resetAllLanes loses or
\* duplicates one.
QueueExact ==
  /\ \A l \in Lanes : \A i \in 1..Len(queue[l]) :
       LaneOf[queue[l][i]] = l /\ status[queue[l][i]] = "queued"
  /\ \A l \in Lanes : \A i, j \in 1..Len(queue[l]) :
       queue[l][i] = queue[l][j] => i = j
  /\ \A c \in Cmds : status[c] = "queued" => c \in Queued(LaneOf[c])

\* The two tell the same of every command, in states that have their types.
Bookkeeping == TypeOK /\ ActiveExact /\ QueueExact

\* No lost wake-up: once the call stack is empty, a lane with queued commands
\* has all its slots taken, whatever order completions, concurrency changes,
\* nested enqueues and resets came in.
NoStall ==
  Quiescent => \A l \in Lanes :
    queue[l] # <<>> => Cardinality(activeTaskIds[l]) >= maxConcurrent[l]

\* Commands leave the queue of a lane in the order they were accepted.
FifoOrder ==
  \A l \in Lanes : \A i, j \in 1..Len(arrival[l]) :
    i < j /\ status[arrival[l][i]] = "queued" => status[arrival[l][j]] = "queued"

\* waitForActiveTasks reports "drained" only when every task that was active at
\* the call has settled, or was abandoned by a reset in the meantime.
DrainedMeansFinished ==
  waiter.state = "drained" =>
    \A c \in waiter.activeAtStart :
      status[c] = "running" => taskGeneration[c] # generation[LaneOf[c]]

\* What the executor knows of a command.
Phase ==
  [c \in Cmds |->
    CASE status[c] = "idle" -> "new"
      [] status[c] = "queued" -> "waiting"
      [] status[c] = "running" ->
           IF c \in activeTaskIds[LaneOf[c]] THEN "running" ELSE "abandoned"
      [] OTHER -> status[c]]

\* The pumps, flags and generations implement the FIFO executor: every accepted
\* command is settled in the end, even when the lanes are reset while it waits.
Executor == INSTANCE FifoExecutor WITH
  waiting <- queue,
  limit <- maxConcurrent,
  phase <- Phase

ImplementsExecutor == Executor!Spec
===========================================================================
