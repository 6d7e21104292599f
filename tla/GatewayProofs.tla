--------------------------- MODULE GatewayProofs ---------------------------
(***************************************************************************)
(* The gateway process: its loop and the lanes, the lock file, and the     *)
(* requests for a restart.  Three specifications with theorems of their    *)
(* own, for any lanes, commands, processes, delays and limits.             *)
(***************************************************************************)
EXTENDS GatewayRestart, GatewayLock, RestartScheduler, FiniteSetTheorems,
        SequenceTheorems, TLAPS

---------------------------------------------------------------------------
(* The loop: restarts start alone, keep the lock and do not leave the      *)
(* lanes refusing commands, but in the cases the properties name.          *)

\* A request that came while the loop was waiting finds it waiting on an armed
\* promise until the end, and the server it closed stays closed.
RequestMeetsLoop ==
  /\ loop = "waiting" => resolver = "armed"
  /\ request # "none" => shuttingDown
  /\ Alive /\ shuttingDown /\ ~early => loop = "waiting"
  /\ ~early /\ request \in {"releasing", "unlocked", "reacquiring"} => server = "closed"

\* Failed starts aside, the lock is given up only between its release and its
\* acquisition in the same shutdown sequence.
LockIsKept ==
  Alive /\ ~startFailed =>
    /\ lock = "held" <=> request # "reacquiring"
    /\ request # "unlocked"
    /\ loop # "releasing"

Types ==
  /\ shuttingDown \in BOOLEAN
  /\ early \in BOOLEAN
  /\ startFailed \in BOOLEAN
  /\ gatewayDraining \in BOOLEAN
  /\ server \in {"closed", "up"}

IInv == Types /\ RequestMeetsLoop /\ LockIsKept /\ RefusalHasCause

USE DEF Alive

LEMMA InitInv == Init => IInv
BY DEF Init, lanes!Init, IInv, Types, RequestMeetsLoop, LockIsKept, RefusalHasCause

\* The lanes' own steps do not touch the loop, nor the flag that refuses.
LEMMA LaneKeeps == LaneStep => UNCHANGED <<loopVars, gatewayDraining>>
BY DEF LaneStep, lanes!PumpStep, lanes!DrainLane, lanes!PumpStart, lanes!PumpEnd,
       lanes!EnterTask, lanes!Enqueue, lanes!TaskSettles, lanes!ClearCommandLane,
       lanes!SetCommandLaneConcurrency

\* How a shutdown sequence ends.
LEMMA ResolveFacts ==
  ASSUME IInv, Alive, ResolveRestart
  PROVE  /\ shuttingDown' = FALSE /\ request' = "none"
         /\ \/ loop' = "starting" /\ resolver' = "past" /\ gatewayDraining' = FALSE
            \/ early /\ UNCHANGED <<loop, resolver, gatewayDraining>>
            \/ ~shuttingDown /\ UNCHANGED <<loop, resolver, gatewayDraining>>
<1>1. CASE resolver = "armed"
  BY <1>1 DEF ResolveRestart, lanes!ResetAllLanes
<1>2. CASE resolver # "armed"
  BY <1>2 DEF ResolveRestart, laneVars, IInv, Types, RequestMeetsLoop
<1> QED
  BY <1>1, <1>2

LEMMA StepInv == IInv /\ [Next]_vars => IInv'
<1> SUFFICES ASSUME IInv, [Next]_vars PROVE IInv'
  OBVIOUS
<1> USE DEF IInv, Types, RequestMeetsLoop, LockIsKept, RefusalHasCause
<1>1. ASSUME UNCHANGED <<loopVars, gatewayDraining>> PROVE IInv'
  BY <1>1 DEF loopVars
<1>2. CASE StartSucceeds
  BY <1>2 DEF StartSucceeds, laneVars
<1>3. CASE StartFails
  BY <1>3 DEF StartFails, laneVars
<1>4. CASE LockReleasedAfterFailure
  BY <1>4 DEF LockReleasedAfterFailure, laneVars
<1>5. CASE Alive /\ RequestStop
  BY <1>5 DEF RequestStop, Accept, Close, ReleaseLock, laneVars
<1>6. CASE Alive /\ RequestRestart
  BY <1>6 DEF RequestRestart, Accept, Close, ReleaseLock
<1>7. CASE Alive /\ Drained
  <2>1. UNCHANGED gatewayDraining
    BY <1>7 DEF Drained, lanes!WaitCheck
  <2> QED
    BY <1>7, <2>1 DEF Drained, Close, ReleaseLock
<1>8. CASE Alive /\ ServerClosed
  BY <1>8 DEF ServerClosed, ReleaseLock, laneVars
<1>9. ASSUME ExitProcess, UNCHANGED <<server, startFailed, early>> PROVE IInv'
  BY <1>9 DEF ExitProcess, laneVars
<1>10. CASE Alive /\ LockReleased
  <2>1. CASE /\ request' = "reacquiring"
             /\ UNCHANGED <<laneVars, loop, shuttingDown, resolver>>
    BY <1>10, <2>1 DEF LockReleased, laneVars
  <2> QED
    BY <1>9, <1>10, <2>1 DEF LockReleased
<1>11. CASE Alive /\ (NoLockToRelease \/ LockReacquired)
  <2>1. CASE ResolveRestart
    <3>1. UNCHANGED <<server, startFailed, early>>
      BY <1>11 DEF NoLockToRelease, LockReacquired
    <3>2. \/ request = "unlocked" /\ UNCHANGED lock
          \/ request = "reacquiring" /\ lock' = "held"
      BY <1>11, <2>1 DEF NoLockToRelease, LockReacquired, ResolveRestart, ExitProcess
    <3> QED
      BY <1>11, <2>1, <3>1, <3>2, ResolveFacts
  <2> QED
    BY <1>9, <1>11, <2>1 DEF NoLockToRelease, LockReacquired
<1>12. CASE Alive /\ ForceExit
  BY <1>12 DEF ForceExit, ExitProcess, laneVars
<1>13. CASE LaneStep
  BY <1>1, <1>13, LaneKeeps
<1>14. CASE UNCHANGED vars
  BY <1>1, <1>14 DEF vars, laneVars
<1> QED
  BY <1>2, <1>3, <1>4, <1>5, <1>6, <1>7, <1>8, <1>9, <1>10, <1>11, <1>12, <1>13,
     <1>14 DEF Next, LoopStep, ShutdownStep

\* A gateway that serves holds its lock, as long as no restart has failed to
\* start (reacquireLockForInProcessRestart).
THEOREM ServingHoldsLock == Spec => []LockHeldWhileServing
<1>1. IInv => LockHeldWhileServing
  BY DEF IInv, LockIsKept, LockHeldWhileServing
<1> QED
  BY InitInv, StepInv, <1>1, PTL DEF Spec

\* The lanes go on refusing commands after a restart only if it was asked for
\* while the loop was not waiting (markGatewayDraining).
THEOREM RefusalIsExplained == Spec => []RefusalHasCause
<1>1. IInv => RefusalHasCause
  BY DEF IInv
<1> QED
  BY InitInv, StepInv, <1>1, PTL DEF Spec

\* The next iteration of the loop finds the server closed and the lanes open,
\* unless the restart was asked for while the loop was not waiting.
THEOREM RestartsStartAlone == Spec => StartsAlone
<1> DEFINE A == loop # "starting" /\ loop' = "starting" =>
                  (server = "closed" \/ early) /\ ~gatewayDraining'
<1>1. ASSUME IInv, [Next]_vars PROVE [A]_vars
  <2> SUFFICES ASSUME loop # "starting", loop' = "starting"
               PROVE  (server = "closed" \/ early) /\ ~gatewayDraining'
    OBVIOUS
  <2>1. CASE ResolveRestart /\ request \in {"unlocked", "reacquiring"}
    <3>1. resolver = "armed"
      BY <2>1 DEF ResolveRestart
    <3>2. ~gatewayDraining'
      BY <2>1, <3>1 DEF ResolveRestart, lanes!ResetAllLanes
    <3> QED
      BY <1>1, <2>1, <3>2 DEF IInv, Types, RequestMeetsLoop
  <2>2. CASE NoLockToRelease \/ LockReacquired
    BY <2>1, <2>2 DEF NoLockToRelease, LockReacquired, ExitProcess
  <2>3. CASE LoopStep
    BY <2>3 DEF LoopStep, StartSucceeds, StartFails, LockReleasedAfterFailure
  <2>4. CASE RequestStop \/ RequestRestart
    BY <2>4 DEF RequestStop, RequestRestart
  <2>5. CASE Drained \/ ServerClosed \/ LockReleased \/ ForceExit
    BY <2>5 DEF Drained, ServerClosed, LockReleased, ForceExit, ExitProcess
  <2>6. CASE LaneStep \/ UNCHANGED vars
    BY <2>6, LaneKeeps DEF vars, loopVars
  <2> QED
    BY <1>1, <2>2, <2>3, <2>4, <2>5, <2>6 DEF Next, ShutdownStep
<1> QED
  BY InitInv, StepInv, <1>1, PTL DEF Spec, StartsAlone

\* Neither the lock nor the lanes are lost, for any lanes and numbers of restarts.
THEOREM LoopIsSound == Spec => []LoopSound
<1>1. LockHeldWhileServing /\ RefusalHasCause => LoopSound
  BY DEF LoopSound
<1> QED  BY ServingHoldsLock, RefusalIsExplained, <1>1, PTL

---------------------------------------------------------------------------
(* The types of the gateway: those of its lanes, under the steps that the   *)
(* loop takes of them, and its own.                                        *)

LEMMA PushLemma ==
  ASSUME NEW S, NEW s \in Seq(S), NEW f \in S
  PROVE  /\ Append(s, f) \in Seq(S)
         /\ Append(s, f) # <<>>
         /\ Len(Append(s, f)) = Len(s) + 1
         /\ Len(s) \in Nat
         /\ Append(s, f)[Len(s) + 1] = f
         /\ \A i \in 1..Len(s) : Append(s, f)[i] = s[i]
OBVIOUS

\* Dropping the last element keeps the ones before it.
LEMMA PopLemma ==
  ASSUME NEW S, NEW s \in Seq(S), s # <<>>
  PROVE  /\ SubSeq(s, 1, Len(s) - 1) \in Seq(S)
         /\ Len(SubSeq(s, 1, Len(s) - 1)) = Len(s) - 1
         /\ Len(s) \in Nat \ {0}
         /\ s[Len(s)] \in S
         /\ \A i \in 1..(Len(s) - 1) : SubSeq(s, 1, Len(s) - 1)[i] = s[i]
<1>1. Len(s) \in Nat \ {0}
  BY EmptySeq
<1>2. \A i \in 1..Len(s) : s[i] \in S
  BY ElementOfSeq
<1>3. \A i \in 1..(Len(s) - 1) : s[i] \in S
  BY <1>1, <1>2
<1> DEFINE t == SubSeq(s, 1, Len(s) - 1)
<1>4. /\ t \in Seq(S)
      /\ Len(t) = IF 1 <= Len(s) - 1 THEN Len(s) - 1 - 1 + 1 ELSE 0
      /\ \A i \in 1..(Len(s) - 1 - 1 + 1) : t[i] = s[1 + i - 1]
  BY <1>1, <1>3, SubSeqProperties
<1>5. \A i \in 1..(Len(s) - 1) : t[i] = s[i]
  BY <1>1, <1>4
<1>6. Len(t) = Len(s) - 1
  <2> HIDE DEF t
  <2>1. PICK n \in Nat : n = Len(s) /\ n # 0
    BY <1>1
  <2> QED
    BY <1>4, <2>1
<1> QED
  BY <1>1, <1>2, <1>4, <1>5, <1>6

\* Shifting a queue: its head, and every other element one place forward.
LEMMA ShiftLemma ==
  ASSUME NEW S, NEW s \in Seq(S), s # <<>>
  PROVE  /\ Head(s) = s[1]
         /\ Head(s) \in S
         /\ Tail(s) \in Seq(S)
         /\ Len(s) \in Nat \ {0}
         /\ Len(Tail(s)) = Len(s) - 1
         /\ \A i \in 1..Len(Tail(s)) : Tail(s)[i] = s[i + 1]
BY HeadTailProperties, EmptySeq

LEMMA SameCardinality == \A S : lanes!Cardinality(S) = Cardinality(S)
BY Zenon DEF lanes!Cardinality, Cardinality

\* What resetAllLanes pushes: one drain frame for every lane of D.
LEMMA ResetFrames ==
  ASSUME NEW D \in SUBSET Lanes, NEW s \in lanes!DrainOrders(D)
  PROVE  LET f == [i \in DOMAIN s |-> [at |-> "drain", lane |-> s[i]]]
         IN  /\ f \in Seq(lanes!Frame)
             /\ \A l \in D : \E i \in 1..Len(f) : f[i].lane = l
<1>1. IsFiniteSet(D) /\ Cardinality(D) \in Nat
  BY FS_Subset, FS_CardinalityType, LaneConstants
<1>2. s \in [1..Cardinality(D) -> D] /\ \A l \in D : \E i \in DOMAIN s : s[i] = l
  BY SameCardinality DEF lanes!DrainOrders
<1> DEFINE f == [i \in DOMAIN s |-> [at |-> "drain", lane |-> s[i]]]
<1>3. f \in [1..Cardinality(D) -> lanes!Frame]
  BY <1>2 DEF lanes!Frame
<1>4. f \in Seq(lanes!Frame) /\ Len(f) = Cardinality(D)
  <2> HIDE DEF f
  <2> QED BY <1>1, <1>3
<1>5. \A l \in D : \E i \in 1..Len(f) : f[i].lane = l
  BY <1>2, <1>4
<1> QED
  BY <1>4, <1>5

---------------------------------------------------------------------------
(* The types of the lanes in the loop *)

LEMMA LaneInitType == lanes!Init => lanes!TypeOK
<1> SUFFICES ASSUME lanes!Init PROVE lanes!TypeOK
  OBVIOUS
<1>1. \A S : <<>> \in Seq(S)
  OBVIOUS
<1>2. 0 \in 0..MaxReset /\ 1 \in 1..MaxLimit
  BY LaneConstants
<1> QED
  BY <1>1, <1>2 DEF lanes!Init, lanes!TypeOK, lanes!Status

\* The lane of the top frame is a lane, and pushing or popping a frame leaves
\* a stack of frames.
LEMMA LaneStackType ==
  ASSUME lanes!TypeOK
  PROVE  /\ \A l \in Lanes : Append(calls, [at |-> "drain", lane |-> l]) \in Seq(lanes!Frame)
         /\ \A l \in Lanes : Append(calls, [at |-> "pump", lane |-> l]) \in Seq(lanes!Frame)
         /\ calls # <<>> => /\ lanes!Popped \in Seq(lanes!Frame)
                            /\ lanes!Top \in lanes!Frame
                            /\ lanes!Top.lane \in Lanes
                            /\ Append(lanes!Popped, [at |-> "pump", lane |-> lanes!Top.lane])
                                 \in Seq(lanes!Frame)
<1>1. \A l \in Lanes : /\ [at |-> "drain", lane |-> l] \in lanes!Frame
                       /\ [at |-> "pump", lane |-> l] \in lanes!Frame
  BY DEF lanes!Frame
<1>2. calls \in Seq(lanes!Frame)
  BY DEF lanes!TypeOK
<1>3. ASSUME calls # <<>> PROVE lanes!Popped \in Seq(lanes!Frame) /\ lanes!Top \in lanes!Frame
  BY <1>2, <1>3, PopLemma DEF lanes!Popped, lanes!Top
<1>4. calls # <<>> => lanes!Top.lane \in Lanes
  BY <1>3 DEF lanes!Frame
<1> QED
  BY <1>1, <1>2, <1>3, <1>4, PushLemma

LEMMA LaneAcceptType ==
  ASSUME lanes!TypeOK, NEW c \in Cmds, lanes!Accept(c) \/ lanes!Refuse(c)
  PROVE  /\ queue' \in [Lanes -> Seq(Cmds)]
         /\ arrival' \in [Lanes -> Seq(Cmds)]
         /\ status' \in [Cmds -> lanes!Status]
         /\ calls' \in Seq(lanes!Frame)
<1>1. \A l \in Lanes : /\ Append(queue[l], c) \in Seq(Cmds)
                       /\ Append(arrival[l], c) \in Seq(Cmds)
  BY PushLemma DEF lanes!TypeOK
<1>2. LaneOf[c] \in Lanes
  BY LaneConstants
<1>3. CASE lanes!Accept(c)
  BY <1>1, <1>2, <1>3, LaneStackType DEF lanes!Accept, lanes!TypeOK, lanes!Status
<1>4. CASE lanes!Refuse(c)
  BY <1>4 DEF lanes!Refuse, lanes!TypeOK, lanes!Status, lanes!Settled
<1> QED
  BY <1>3, <1>4

LEMMA LaneStepType ==
  ASSUME lanes!TypeOK, LaneStep
  PROVE  lanes!TypeOK'
<1> USE LaneConstants
<1>1. CASE lanes!DrainLane
  BY <1>1, LaneStackType DEF lanes!DrainLane, lanes!InCall, lanes!TypeOK
<1>2. CASE lanes!PumpStart
  <2>1. lanes!Top.lane \in Lanes
    BY <1>2, LaneStackType DEF lanes!PumpStart, lanes!InCall
  <2>2. /\ Head(queue[lanes!Top.lane]) \in Cmds
        /\ Tail(queue[lanes!Top.lane]) \in Seq(Cmds)
    BY <1>2, <2>1, ShiftLemma DEF lanes!PumpStart, lanes!CanPump, lanes!TypeOK
  <2>3. entering' \in Cmds \cup {NoCmd}
    BY <1>2, <2>2 DEF lanes!PumpStart
  <2> QED
    BY <1>2, <2>1, <2>2, <2>3 DEF lanes!PumpStart, lanes!TypeOK, lanes!Status
<1>3. CASE lanes!PumpEnd
  BY <1>3, LaneStackType DEF lanes!PumpEnd, lanes!InCall, lanes!TypeOK
<1>4. CASE lanes!EnterTask
  <2>1. entering \in Cmds /\ Nested[entering] \in Cmds
    BY <1>4, LaneConstants DEF lanes!EnterTask, lanes!TypeOK
  <2>2. lanes!Accept(Nested[entering]) \/ lanes!Refuse(Nested[entering])
    BY <1>4 DEF lanes!EnterTask
  <2>3. /\ queue' \in [Lanes -> Seq(Cmds)]
        /\ arrival' \in [Lanes -> Seq(Cmds)]
        /\ status' \in [Cmds -> lanes!Status]
        /\ calls' \in Seq(lanes!Frame)
    BY <2>1, <2>2, LaneAcceptType
  <2> QED
    BY <1>4, <2>3 DEF lanes!EnterTask, lanes!TypeOK
<1>5. ASSUME NEW c \in Cmds, lanes!Enqueue(c) PROVE lanes!TypeOK'
  <2>1. /\ queue' \in [Lanes -> Seq(Cmds)]
        /\ arrival' \in [Lanes -> Seq(Cmds)]
        /\ status' \in [Cmds -> lanes!Status]
        /\ calls' \in Seq(lanes!Frame)
    BY <1>5, LaneAcceptType DEF lanes!Enqueue
  <2> QED
    BY <1>5, <2>1 DEF lanes!Enqueue, lanes!TypeOK
<1>6. ASSUME NEW c \in Cmds, lanes!TaskSettles(c) PROVE lanes!TypeOK'
  <2>1. status' \in [Cmds -> lanes!Status]
    BY <1>6 DEF lanes!TaskSettles, lanes!TaskOutcomes, lanes!TypeOK, lanes!Status, lanes!Settled
  <2>2. activeTaskIds' \in [Lanes -> SUBSET Cmds] /\ calls' \in Seq(lanes!Frame)
    <3>1. LaneOf[c] \in Lanes
      OBVIOUS
    <3>2. CASE taskGeneration[c] # generation[LaneOf[c]]
      BY <1>6, <3>2 DEF lanes!TaskSettles, lanes!CompleteTask, lanes!TypeOK
    <3>3. CASE taskGeneration[c] = generation[LaneOf[c]]
      <4>1. /\ activeTaskIds' = [activeTaskIds EXCEPT ![LaneOf[c]] = @ \ {c}]
            /\ calls' = Append(calls, [at |-> "pump", lane |-> LaneOf[c]])
        BY <1>6, <3>3 DEF lanes!TaskSettles, lanes!CompleteTask
      <4>2. calls' \in Seq(lanes!Frame)
        BY <3>1, <4>1, LaneStackType
      <4>3. activeTaskIds' \in [Lanes -> SUBSET Cmds]
        BY <3>1, <4>1 DEF lanes!TypeOK
      <4> QED
        BY <4>2, <4>3
    <3> QED
      BY <3>2, <3>3
  <2> QED
    BY <1>6, <2>1, <2>2 DEF lanes!TaskSettles, lanes!TypeOK
<1>7. ASSUME NEW l \in Lanes, lanes!ClearCommandLane(l) PROVE lanes!TypeOK'
  <2>1. status' \in [Cmds -> lanes!Status]
    BY <1>7 DEF lanes!ClearCommandLane, lanes!TypeOK, lanes!Status, lanes!Settled
  <2>2. <<>> \in Seq(Cmds)
    OBVIOUS
  <2> QED
    BY <1>7, <2>1, <2>2 DEF lanes!ClearCommandLane, lanes!TypeOK
<1>8. ASSUME NEW l \in Lanes, NEW n \in 0..MaxLimit, lanes!SetCommandLaneConcurrency(l, n)
      PROVE lanes!TypeOK'
  <2>1. (IF n < 1 THEN 1 ELSE n) \in 1..MaxLimit
    BY LaneConstants
  <2>2. maxConcurrent' = [maxConcurrent EXCEPT ![l] = IF n < 1 THEN 1 ELSE n]
    BY <1>8 DEF lanes!SetCommandLaneConcurrency
  <2>3. maxConcurrent' \in [Lanes -> 1..MaxLimit]
    BY <2>1, <2>2 DEF lanes!TypeOK
  <2>4. QED
    BY <1>8, <2>3, LaneStackType DEF lanes!SetCommandLaneConcurrency, lanes!TypeOK
<1> QED
  BY <1>1, <1>2, <1>3, <1>4, <1>5, <1>6, <1>7, <1>8 DEF LaneStep, lanes!PumpStep

LEMMA LaneResetType ==
  ASSUME lanes!TypeOK, lanes!ResetAllLanes
  PROVE  lanes!TypeOK'
<1>1. calls' \in Seq(lanes!Frame)
  BY ResetFrames DEF lanes!ResetAllLanes
<1>2. generation' \in [Lanes -> 0..MaxReset]
  BY LaneConstants DEF lanes!ResetAllLanes, lanes!TypeOK
<1> QED
  BY <1>1, <1>2 DEF lanes!ResetAllLanes, lanes!TypeOK

LEMMA LaneWaitType ==
  ASSUME lanes!TypeOK, NEW r \in {"drained", "timeout"}, lanes!WaitCheck(r)
  PROVE  lanes!TypeOK'
BY DEF lanes!WaitCheck, lanes!laneVars, lanes!TypeOK

LEMMA LanesKept ==
  ASSUME lanes!TypeOK, UNCHANGED laneVars
  PROVE  lanes!TypeOK'
BY DEF laneVars, lanes!TypeOK

\* What a step of the loop or of a shutdown sequence does to the lanes.
LEMMA StepLaneType == TypeOK /\ [Next]_vars => lanes!TypeOK'
<1> SUFFICES ASSUME TypeOK, [Next]_vars PROVE lanes!TypeOK'
  OBVIOUS
<1>0. lanes!TypeOK
  BY DEF TypeOK
<1>1. CASE LaneStep
  BY <1>0, <1>1, LaneStepType
<1>2. CASE RequestRestart
  <2>1. lanes!AllActive \in SUBSET Cmds
    BY <1>0 DEF lanes!AllActive, lanes!TypeOK
  <2> QED
    BY <1>0, <1>2, <2>1 DEF RequestRestart, lanes!WaitFor, lanes!TypeOK
<1>3. CASE Drained
  BY <1>0, <1>3, LaneWaitType DEF Drained
<1>4. ASSUME ResolveRestart PROVE lanes!TypeOK'
  BY <1>0, <1>4, LaneResetType, LanesKept DEF ResolveRestart
<1>5. CASE NoLockToRelease \/ LockReacquired
  BY <1>0, <1>4, <1>5, LanesKept DEF NoLockToRelease, LockReacquired, ExitProcess
<1>6. CASE LockReleased \/ ForceExit \/ ServerClosed \/ RequestStop
  BY <1>0, <1>6, LanesKept
     DEF LockReleased, ForceExit, ServerClosed, RequestStop, ExitProcess
<1>7. CASE LoopStep \/ UNCHANGED vars
  BY <1>0, <1>7, LanesKept
     DEF LoopStep, StartSucceeds, StartFails, LockReleasedAfterFailure, vars
<1> QED
  BY <1>1, <1>2, <1>3, <1>5, <1>6, <1>7 DEF Next, ShutdownStep

LEMMA StepLoopType ==
  ASSUME TypeOK, [Next]_vars
  PROVE  /\ loop' \in LoopState /\ request' \in RequestState
         /\ action' \in {"stop", "restart"}
         /\ resolver' \in {"unset", "past", "armed"}
         /\ lock' \in {"none", "held"}
<1> USE DEF TypeOK, LoopState, RequestState
<1>1. CASE LaneStep \/ UNCHANGED vars
  BY <1>1 DEF LaneStep, loopVars, vars
<1>2. CASE LoopStep
  BY <1>2 DEF LoopStep, StartSucceeds, StartFails, LockReleasedAfterFailure
<1>3. CASE RequestStop \/ RequestRestart
  BY <1>3 DEF RequestStop, RequestRestart, Accept, Close, ReleaseLock
<1>4. CASE Drained \/ ServerClosed
  BY <1>4 DEF Drained, ServerClosed, Close, ReleaseLock
<1>5. CASE LockReleased \/ NoLockToRelease \/ LockReacquired \/ ForceExit
  BY <1>5 DEF LockReleased, NoLockToRelease, LockReacquired, ForceExit, ExitProcess,
              ResolveRestart
<1> QED
  BY <1>1, <1>2, <1>3, <1>4, <1>5 DEF Next, ShutdownStep

\* The loop, its shutdown sequences and the lanes they drain and reset keep their
\* types; a loop that waits has armed its promise, and a shutdown sequence belongs to
\* a request that was accepted (runGatewayLoop), for any lanes and commands.
THEOREM GatewayTypesHold == Spec => []TypeOK
<1>1. Init => TypeOK
  BY LaneInitType DEF Init, TypeOK, LoopState, RequestState
<1>2. TypeOK /\ IInv' /\ [Next]_vars => TypeOK'
  BY StepLaneType, StepLoopType DEF TypeOK, IInv, Types, RequestMeetsLoop
<1> QED
  BY <1>1, <1>2, InitInv, StepInv, PTL DEF Spec

---------------------------------------------------------------------------
(* The lock file, with or without a port to probe: the only way to a       *)
(* second holder is the removal of the file of a running process.          *)

\* From its creation until its owner leaves, the file is the owner's, unless
\* another process has removed it.
OwnerHasFile ==
  \A p \in Procs :
    pc[p] \in {"writing", "locked", "serving", "releasing"} /\ p \notin stolen =>
      file.by = p

LockInv == LockTypeOK /\ OwnerHasFile

USE DEF Goto

LEMMA LockInitInv == LockInit => LockInv
  BY NobodyType DEF LockInit, LockInv, LockTypeOK, OwnerHasFile, NoFile, Stage,
     NoPayload, NoVerdict

LEMMA LockStepInv == LockInv /\ [LockNext]_lockVars => LockInv'
<1> SUFFICES ASSUME LockInv, [LockNext]_lockVars PROVE LockInv'
  OBVIOUS
<1> USE NobodyType DEF LockInv, LockTypeOK, OwnerHasFile
<1>1. ASSUME NEW p \in Procs, Start(p) PROVE LockInv'
  BY <1>1 DEF Start, Stage
<1>2. ASSUME NEW p \in Procs, Open(p) PROVE LockInv'
  <2>1. CASE file = NoFile
    <3>1. file' = [by |-> p, written |-> FALSE, old |-> FALSE]
      BY <1>2, <2>1 DEF Open, NoFile
    <3>2. \A q \in Procs :
            q # p /\ pc[q] \in {"writing", "locked", "serving", "releasing"} => q \in stolen
      BY <2>1 DEF NoFile
    <3>3. pc' = [pc EXCEPT ![p] = "writing"] /\ UNCHANGED <<seen, listener, verdict, stolen>>
      BY <1>2, <2>1 DEF Open
    <3>4. QED
      BY <3>1, <3>2, <3>3 DEF Stage
  <2>2. CASE file # NoFile
    BY <1>2, <2>2 DEF Open, Stage, NoFile
  <2>3. QED
    BY <2>1, <2>2
<1>3. ASSUME NEW p \in Procs, Write(p) PROVE LockInv'
  BY <1>3 DEF Write, Stage, NoFile
<1>4. ASSUME NEW p \in Procs, Read(p) PROVE LockInv'
  <2>1. file.by \in Procs \cup {Nobody} /\ file.old \in BOOLEAN
    OBVIOUS
  <2>2. CASE file.written
    BY <1>4, <2>1, <2>2 DEF Read, Stage
  <2>3. CASE ~file.written
    <3>1. /\ seen' = [seen EXCEPT ![p] = [by |-> Nobody, old |-> FALSE]]
          /\ pc' = [pc EXCEPT ![p] = "statting"]
          /\ UNCHANGED <<file, listener, verdict, stolen>>
      BY <1>4, <2>3 DEF Read, NoPayload
    <3> QED
      BY <3>1 DEF Stage
  <2> QED  BY <2>2, <2>3
<1>5. ASSUME NEW p \in Procs, Probe(p) PROVE LockInv'
  <2>1. PICK owner \in OwnerStatus(seen[p].by) :
          IF owner = "unknown"
          THEN Goto(p, "statting") /\ UNCHANGED <<seen, verdict>>
          ELSE Verdict(p, owner = "dead", seen[p].by, ProbePort /\ listener = Nobody)
    BY <1>5 DEF Probe
  <2>2. pc[p] = "probing" /\ UNCHANGED <<file, listener, stolen>>
    BY <1>5 DEF Probe
  <2>3. CASE owner = "unknown"
    BY <2>1, <2>2, <2>3 DEF Stage
  <2>4. CASE owner # "unknown"
    <3>1. \E free \in BOOLEAN : Verdict(p, owner = "dead", seen[p].by, free)
      BY <2>1, <2>4, SwitchType
    <3>2. seen[p].by \in Procs \cup {Nobody}
      OBVIOUS
    <3> QED
      BY <2>2, <3>1, <3>2 DEF Verdict, Stage, NoPayload, NoVerdict
  <2> QED  BY <2>3, <2>4
<1>6. ASSUME NEW p \in Procs, Stat(p) PROVE LockInv'
  BY <1>6 DEF Stat, Judge, Verdict, Stage, NoPayload, NoVerdict
<1>7. ASSUME NEW p \in Procs, RemoveStale(p) PROVE LockInv'
  BY <1>7 DEF RemoveStale, RemoveFile, Stage, NoFile, Running, NoVerdict
<1>8. ASSUME NEW p \in Procs, GiveUp(p) PROVE LockInv'
  BY <1>8 DEF GiveUp, Stage
<1>9. ASSUME NEW p \in Procs, Bind(p) PROVE LockInv'
  BY <1>9 DEF Bind, Stage
<1>10. ASSUME NEW p \in Procs, CloseServer(p) PROVE LockInv'
  BY <1>10 DEF CloseServer, Stage
<1>11. ASSUME NEW p \in Procs, Release(p) PROVE LockInv'
  BY <1>11 DEF Release, Stage, NoFile, Running
<1>12. ASSUME NEW p \in Procs, Crash(p) PROVE LockInv'
  BY <1>12 DEF Crash, Stage
<1>13. ASSUME Age PROVE LockInv'
  BY <1>13 DEF Age, NoFile
<1>14. ASSUME UNCHANGED lockVars PROVE LockInv'
  BY <1>14 DEF lockVars
<1>15. QED
  BY <1>1, <1>2, <1>3, <1>4, <1>5, <1>6, <1>7, <1>8, <1>9, <1>10, <1>11, <1>12,
     <1>13, <1>14 DEF LockNext, Acquire

\* A process that holds the lock has its file on disk, for any number of
\* processes, crashes and restarts, unless another process removed it.
THEOREM HoldersOwnTheirFile == LockSpec => []HolderOwnsFile
<1>1. LockInv => HolderOwnsFile
  BY DEF LockInv, OwnerHasFile, HolderOwnsFile, Holds
<1>2. QED
  BY LockInitInv, LockStepInv, <1>1, PTL DEF LockSpec

\* Two processes that hold the lock at the same time: the file of one of them
\* was removed by another process while it ran.
THEOREM SecondHolderNeedsRemoval ==
  LockSpec => [](\A p, q \in Procs \ stolen : Holds(p) /\ Holds(q) => p = q)
<1>1. LockInv => \A p, q \in Procs \ stolen : Holds(p) /\ Holds(q) => p = q
  BY DEF LockInv, OwnerHasFile, Holds
<1>2. QED
  BY LockInitInv, LockStepInv, <1>1, PTL DEF LockSpec

\* With /proc to read, an owner is judged dead only when it is gone for good, or
\* when nobody listens on the port; and a file without a payload is judged stale
\* only when its creator is gone.
JudgedRightly ==
  /\ file.by # Nobody => pc[file.by] # "new"
  /\ file.by # Nobody /\ ~file.written => pc[file.by] \in {"writing", "gone"}
  /\ file.old => pc[file.by] # "writing"
  /\ \A p \in Procs :
       /\ seen[p].by # Nobody => pc[seen[p].by] # "new"
       /\ pc[p] = "probing" => seen[p].by # Nobody
       /\ pc[p] = "statting" => seen[p] = NoPayload /\ ~(file.old /\ file.written)
       /\ pc[p] = "removing" =>
            verdict[p].portFree \/ (verdict[p].on # Nobody => pc[verdict[p].on] = "gone")

LEMMA JudgedStep ==
  ASSUME ReadsProc, LockInv, JudgedRightly, [LockNext]_lockVars
  PROVE  JudgedRightly'
<1> USE NobodyType DEF LockInv, LockTypeOK, JudgedRightly
<1>1. ASSUME NEW p \in Procs, Start(p) PROVE JudgedRightly'
  BY <1>1 DEF Start, NoFile
<1>2. ASSUME NEW p \in Procs, Open(p) PROVE JudgedRightly'
  BY <1>2 DEF Open, NoFile
<1>3. ASSUME NEW p \in Procs, Write(p) PROVE JudgedRightly'
  BY <1>3 DEF Write, NoFile
<1>4. ASSUME NEW p \in Procs, Read(p) PROVE JudgedRightly'
  <2>1. CASE file.written
    <3>1. seen' = [seen EXCEPT ![p] = [by |-> file.by, old |-> file.old]]
      BY <1>4, <2>1 DEF Read
    <3>2. pc' = [pc EXCEPT ![p] = "probing"] /\ UNCHANGED <<file, listener, verdict, stolen>>
      BY <1>4, <2>1 DEF Read
    <3>3. file.by # Nobody /\ seen'[p].by = file.by
      BY <2>1, <3>1 DEF NoFile
    <3> QED
      BY <1>4, <3>1, <3>2, <3>3 DEF Read, NoFile
  <2>2. CASE ~file.written
    BY <1>4, <2>2 DEF Read, NoFile, NoPayload
  <2> QED  BY <2>1, <2>2
<1>5. ASSUME NEW p \in Procs, Probe(p) PROVE JudgedRightly'
  <2>1. PICK owner \in {"dead", "alive"} :
          /\ owner = "dead" => (ProbePort /\ listener = Nobody) \/ ~Running(seen[p].by)
          /\ Verdict(p, owner = "dead", seen[p].by, ProbePort /\ listener = Nobody)
    BY <1>5 DEF Probe, OwnerStatus
  <2>2. seen[p].by \in Procs /\ pc[seen[p].by] # "new" /\ UNCHANGED <<file, listener, stolen>>
    BY <1>5 DEF Probe
  <2>3. CASE owner = "dead"
    <3>1. /\ pc' = [pc EXCEPT ![p] = "removing"]
          /\ verdict' = [verdict EXCEPT ![p] =
               [on |-> seen[p].by, portFree |-> ProbePort /\ listener = Nobody]]
          /\ seen' = [seen EXCEPT ![p] = NoPayload]
      BY <2>1, <2>3 DEF Verdict
    <3>2. verdict'[p].portFree \/ pc[seen[p].by] = "gone"
      BY <2>1, <2>2, <2>3, <3>1 DEF Running
    <3>3. (verdict'[p].on = seen[p].by /\ seen[p].by # p) \/ verdict'[p].portFree
      BY <1>5, <3>1, <3>2 DEF Probe
    <3> QED
      BY <1>5, <2>2, <3>1, <3>2, <3>3 DEF Probe, NoPayload, NoFile
  <2>4. CASE owner # "dead"
    BY <1>5, <2>1, <2>2, <2>4 DEF Probe, Verdict, NoPayload, NoVerdict, NoFile
  <2> QED  BY <2>3, <2>4
<1>6. ASSUME NEW p \in Procs, Stat(p) PROVE JudgedRightly'
  BY <1>6 DEF Stat, Judge, Verdict, NoPayload, NoVerdict, NoFile
<1>7. ASSUME NEW p \in Procs, RemoveStale(p) PROVE JudgedRightly'
  BY <1>7 DEF RemoveStale, RemoveFile, NoFile
<1>8. ASSUME NEW p \in Procs, GiveUp(p) PROVE JudgedRightly'
  BY <1>8 DEF GiveUp, NoFile
<1>9. ASSUME NEW p \in Procs, Bind(p) PROVE JudgedRightly'
  BY <1>9 DEF Bind, NoFile
<1>10. ASSUME NEW p \in Procs, CloseServer(p) PROVE JudgedRightly'
  BY <1>10 DEF CloseServer, NoFile
<1>11. ASSUME NEW p \in Procs, Release(p) PROVE JudgedRightly'
  BY <1>11 DEF Release, NoFile
<1>12. ASSUME NEW p \in Procs, Crash(p) PROVE JudgedRightly'
  BY <1>12 DEF Crash, Running, NoFile
<1>13. ASSUME Age PROVE JudgedRightly'
  BY <1>13 DEF Age, NoFile
<1>14. ASSUME UNCHANGED lockVars PROVE JudgedRightly'
  BY <1>14 DEF lockVars
<1>15. QED
  BY <1>1, <1>2, <1>3, <1>4, <1>5, <1>6, <1>7, <1>8, <1>9, <1>10, <1>11, <1>12,
     <1>13, <1>14 DEF LockNext, Acquire

\* With /proc to read, with or without a port to probe: the lock file of a running
\* process is removed only after a verdict on the file of another, by a process
\* that found the port free, or by one that had lost its own file before.
THEOREM StealHasCause ==
  ASSUME ReadsProc PROVE LockSpec => StealNeedsCause
<1> DEFINE A == \A q \in stolen' \ stolen : \E p \in Procs :
                  \/ /\ pc[p] = "removing" /\ pc'[p] = "opening"
                     /\ verdict[p].on # q \/ verdict[p].portFree
                  \/ pc[p] = "releasing" /\ p \in stolen
<1>1. ASSUME LockInv, JudgedRightly, [LockNext]_lockVars PROVE [A]_lockVars
  <2> SUFFICES ASSUME NEW q \in stolen' \ stolen
               PROVE  \E p \in Procs :
                        \/ /\ pc[p] = "removing" /\ pc'[p] = "opening"
                           /\ verdict[p].on # q \/ verdict[p].portFree
                        \/ pc[p] = "releasing" /\ p \in stolen
    OBVIOUS
  <2>1. CASE \E p \in Procs : RemoveStale(p)
    <3>1. PICK p \in Procs : RemoveStale(p)
      BY <2>1
    <3>2. q \in Procs /\ Running(q)
      BY <3>1 DEF RemoveStale, RemoveFile
    <3>3. pc[p] = "removing" /\ pc'[p] = "opening"
      BY <1>1, <3>1 DEF RemoveStale, LockInv, LockTypeOK
    <3> QED
      BY <1>1, <3>2, <3>3, NobodyType DEF JudgedRightly, Running
  <2>2. CASE \E p \in Procs : Release(p)
    <3>1. PICK p \in Procs : Release(p)
      BY <2>2
    <3>2. file.by = q /\ q # p /\ pc[p] = "releasing"
      BY <3>1 DEF Release
    <3> QED
      BY <1>1, <3>2 DEF LockInv, OwnerHasFile
  <2>3. CASE UNCHANGED stolen
    BY <2>3
  <2> QED
    BY <1>1, <2>1, <2>2, <2>3 DEF LockNext, Acquire, Start, Open, Write, Read, Probe, Stat,
       Judge, GiveUp, Bind, CloseServer, Crash, Age, lockVars
<1>2. LockInit => JudgedRightly
  BY NobodyType DEF LockInit, JudgedRightly, NoFile, NoPayload
<1>3. JudgedRightly /\ LockInv /\ [LockNext]_lockVars => JudgedRightly'
  BY JudgedStep
<1> QED
  BY LockInitInv, LockStepInv, <1>1, <1>2, <1>3, PTL DEF LockSpec, StealNeedsCause

\* The state keeps its types and a holder its file, for any number of processes.
THEOREM FileIsSound == LockSpec => []FileSound
<1>1. LockInv => LockTypeOK
  BY DEF LockInv
<1>2. LockTypeOK /\ HolderOwnsFile => FileSound
  BY DEF FileSound
<1> QED  BY LockInitInv, LockStepInv, <1>1, <1>2, HoldersOwnTheirFile, PTL DEF LockSpec

---------------------------------------------------------------------------
(* Requests for a restart: the cooldown and the flag of the watcher.       *)

Poll == [by : Askers, waited : 0..MaxWait]

RequestTypes ==
  /\ timer \in Nat \cup {None}
  /\ cooldown \in 0..Cooldown
  /\ polls \in Seq(Poll)
  /\ restartPending \in BOOLEAN
  /\ authorized \in Nat
  /\ externalAllowed \in BOOLEAN
  /\ busy \in BOOLEAN
  /\ phase \in Phases
  /\ asked \in BOOLEAN

AskedIsPending == asked => timer # None \/ polls # <<>>

\* Ending a deferral clears the flag, so no server has two of its own.
OneWatcher ==
  \A i, j \in DOMAIN polls :
    polls[i].by = "watcher" /\ polls[j].by = "watcher" => i = j

SchedulerInv == RequestTypes /\ AskedIsPending /\ CooldownHolds /\ FlagTellsPoll /\ OneWatcher

\* What is left of a sequence without its element i, and where it was.
LEMMA Removed ==
  ASSUME NEW S, NEW s \in Seq(S), NEW i \in DOMAIN s
  PROVE  /\ RemoveAt(s, i) \in Seq(S)
         /\ Len(RemoveAt(s, i)) = Len(s) - 1
         /\ \A j \in 1..Len(s) - 1 :
              RemoveAt(s, i)[j] = IF j < i THEN s[j] ELSE s[j + 1]
<1>1. /\ SubSeq(s, 1, i - 1) \in Seq(S)
      /\ Len(SubSeq(s, 1, i - 1)) = i - 1
      /\ \A j \in 1..(i - 1) : SubSeq(s, 1, i - 1)[j] = s[j]
  OBVIOUS
<1>2. /\ SubSeq(s, i + 1, Len(s)) \in Seq(S)
      /\ Len(SubSeq(s, i + 1, Len(s))) = Len(s) - i
      /\ \A j \in 1..(Len(s) - i) : SubSeq(s, i + 1, Len(s))[j] = s[i + j]
  OBVIOUS
<1> DEFINE head == SubSeq(s, 1, i - 1)
           tail == SubSeq(s, i + 1, Len(s))
<1>3. RemoveAt(s, i) = head \o tail
  BY DEF RemoveAt
<1>4. /\ head \o tail \in Seq(S)
      /\ Len(head \o tail) = Len(head) + Len(tail)
      /\ \A j \in 1..(Len(head) + Len(tail)) :
           (head \o tail)[j] = IF j <= Len(head) THEN head[j] ELSE tail[j - Len(head)]
  <2>1. head \in Seq(S) /\ tail \in Seq(S)
    BY <1>1, <1>2
  <2> HIDE DEF head, tail
  <2>2. Len(head) \in Nat /\ Len(tail) \in Nat
    BY <2>1
  <2> QED  BY <2>1, <2>2, ConcatProperties
<1>5. Len(head) = i - 1 /\ Len(tail) = Len(s) - i
  BY <1>1, <1>2
<1>6. /\ \A j \in 1..(i - 1) : head[j] = s[j]
      /\ \A j \in 1..(Len(s) - i) : tail[j] = s[i + j]
  BY <1>1, <1>2
<1>7. i \in 1..Len(s) /\ Len(s) \in Nat
  OBVIOUS
<1> HIDE DEF head, tail
<1>8. ASSUME NEW j \in 1..Len(s) - 1
      PROVE  (head \o tail)[j] = IF j < i THEN s[j] ELSE s[j + 1]
  <2>1. CASE j < i
    <3>1. j \in 1..(Len(head) + Len(tail)) /\ j <= Len(head) /\ j \in 1..(i - 1)
      BY <1>5, <1>7, <2>1
    <3>2. (head \o tail)[j] = head[j]
      BY <1>4, <3>1
    <3> QED
      BY <1>6, <2>1, <3>1, <3>2
  <2>2. CASE j >= i
    <3>1. /\ j \in 1..(Len(head) + Len(tail)) /\ ~(j <= Len(head))
          /\ j - (i - 1) \in 1..(Len(s) - i) /\ i + (j - (i - 1)) = j + 1
          /\ ~(j < i)
      BY <1>5, <1>7, <2>2
    <3>2. (head \o tail)[j] = tail[j - Len(head)]
      BY <1>4, <3>1
    <3>3. tail[j - (i - 1)] = s[i + (j - (i - 1))]
      BY <1>6, <3>1
    <3>4. (head \o tail)[j] = s[j + 1]
      BY <1>5, <3>1, <3>2, <3>3
    <3> QED  BY <3>1, <3>4
  <2>3. j < i \/ j >= i
    BY <1>7
  <2> QED  BY <2>1, <2>2, <2>3
<1>9. Len(head \o tail) = Len(s) - 1
  BY <1>4, <1>5, <1>7
<1> QED  BY <1>3, <1>4, <1>8, <1>9

\* What an emission does, whoever asks for it.
LEMMA EmissionTypes ==
  ASSUME RequestTypes, Emit
  PROVE  /\ timer' = None
         /\ cooldown' \in 0..Cooldown
         /\ asked' = FALSE
         /\ authorized' \in Nat
         /\ phase' \in Phases
<1>1. cooldown' \in 0..Cooldown
  BY SchedulerTypes DEF Emit
<1>2. authorized' \in Nat
  BY DEF RequestTypes, Emit, HandleSigusr1
<1>3. phase' \in Phases
  BY DEF RequestTypes, Emit, HandleSigusr1, Restart, Phases
<1> QED  BY <1>1, <1>2, <1>3 DEF Emit

LEMMA SchedulerInitInv == SchedulerInit => SchedulerInv
<1> SUFFICES ASSUME SchedulerInit PROVE SchedulerInv
  OBVIOUS
<1>1. RequestTypes
  <2>1. cooldown \in 0..Cooldown
    BY SchedulerTypes DEF SchedulerInit
  <2>2. authorized \in Nat /\ polls \in Seq(Poll)
    BY DEF SchedulerInit
  <2> QED  BY <2>1, <2>2 DEF SchedulerInit, RequestTypes, Phases
<1>2. DOMAIN polls = {}
  BY DEF SchedulerInit
<1>3. FlagTellsPoll /\ OneWatcher
  BY <1>2 DEF SchedulerInit, FlagTellsPoll, OneWatcher
<1> QED  BY <1>1, <1>3 DEF SchedulerInit, SchedulerInv, AskedIsPending, CooldownHolds

\* A deferral that ends takes its flag with it.
LEMMA PollEndsKeeps ==
  ASSUME SchedulerInv, NEW i \in DOMAIN polls, PollEnds(i)
  PROVE  SchedulerInv'
<1> USE SchedulerTypes
<1>1. Emit /\ polls' = RemoveAt(polls, i)
      /\ restartPending' = (restartPending /\ polls[i].by # "watcher")
      /\ UNCHANGED <<externalAllowed, busy>>
  BY DEF PollEnds
<1>2. /\ RemoveAt(polls, i) \in Seq(Poll)
      /\ Len(RemoveAt(polls, i)) = Len(polls) - 1
      /\ \A j \in 1..Len(polls) - 1 :
           RemoveAt(polls, i)[j] = IF j < i THEN polls[j] ELSE polls[j + 1]
  BY Removed DEF SchedulerInv, RequestTypes
<1>3. RequestTypes'
  BY <1>1, <1>2, EmissionTypes DEF SchedulerInv, RequestTypes
<1>4. AskedIsPending' /\ CooldownHolds'
  BY <1>1, EmissionTypes DEF SchedulerInv, AskedIsPending, CooldownHolds
<1>5. DOMAIN polls = 1..Len(polls) /\ DOMAIN polls' = 1..(Len(polls) - 1)
      /\ Len(polls) \in Nat /\ i \in 1..Len(polls)
  BY <1>1, <1>2 DEF SchedulerInv, RequestTypes
<1>6. \A j \in DOMAIN polls' : polls'[j] = IF j < i THEN polls[j] ELSE polls[j + 1]
  BY <1>1, <1>2, <1>5
<1>7. OneWatcher'
  <2> SUFFICES ASSUME NEW j \in DOMAIN polls', NEW k \in DOMAIN polls',
                      polls'[j].by = "watcher", polls'[k].by = "watcher"
               PROVE  j = k
    BY DEF OneWatcher
  <2> DEFINE at(n) == IF n < i THEN n ELSE n + 1
  <2>1. at(j) \in DOMAIN polls /\ at(k) \in DOMAIN polls
    BY <1>5
  <2>2. polls'[j] = polls[at(j)] /\ polls'[k] = polls[at(k)]
    BY <1>6
  <2>3. at(j) = at(k)
    BY <2>1, <2>2 DEF SchedulerInv, OneWatcher
  <2> QED  BY <1>5, <2>3
<1>8. FlagTellsPoll'
  <2>1. ASSUME restartPending'
        PROVE  \E j \in DOMAIN polls' : polls'[j].by = "watcher"
    <3>1. PICK j \in DOMAIN polls : polls[j].by = "watcher"
      BY <1>1, <2>1 DEF SchedulerInv, FlagTellsPoll
    <3>2. j # i
      BY <1>1, <2>1, <3>1
    <3> DEFINE at == IF j < i THEN j ELSE j - 1
    <3>3. at \in DOMAIN polls' /\ j = IF at < i THEN at ELSE at + 1
      BY <1>5, <3>2
    <3> QED  BY <1>6, <3>1, <3>3
  <2>2. ASSUME NEW j \in DOMAIN polls', polls'[j].by = "watcher"
        PROVE  restartPending'
    <3> DEFINE at == IF j < i THEN j ELSE j + 1
    <3>1. at \in DOMAIN polls /\ at # i /\ polls[at].by = "watcher"
      BY <1>5, <1>6, <2>2
    <3> QED  BY <1>1, <3>1 DEF SchedulerInv, FlagTellsPoll, OneWatcher
  <2>3. restartPending' \in BOOLEAN
    BY <1>3 DEF RequestTypes
  <2> QED  BY <2>1, <2>2, <2>3 DEF FlagTellsPoll
<1> QED  BY <1>3, <1>4, <1>7, <1>8 DEF SchedulerInv

\* A new deferral of p, of a watcher only where none has the flag.
LEMMA DeferralKeeps ==
  ASSUME SchedulerInv, NEW p \in Poll, polls' = Append(polls, p),
         restartPending' = (restartPending \/ p.by = "watcher"),
         p.by = "watcher" => ~restartPending
  PROVE  /\ polls' \in Seq(Poll) /\ polls' # <<>>
         /\ restartPending' \in BOOLEAN
         /\ FlagTellsPoll'
         /\ OneWatcher'
<1>1. /\ polls \in Seq(Poll) /\ Len(polls) \in Nat
      /\ polls' \in Seq(Poll) /\ polls' # <<>>
      /\ DOMAIN polls = 1..Len(polls) /\ DOMAIN polls' = 1..(Len(polls) + 1)
      /\ \A j \in DOMAIN polls : polls'[j] = polls[j]
      /\ polls'[Len(polls) + 1] = p
  BY DEF SchedulerInv, RequestTypes
<1>2. DOMAIN polls' = DOMAIN polls \cup {Len(polls) + 1}
  BY <1>1
<1>3. FlagTellsPoll'
  BY <1>1, <1>2 DEF SchedulerInv, FlagTellsPoll, RequestTypes
<1>4. OneWatcher'
  BY <1>1, <1>2 DEF SchedulerInv, FlagTellsPoll, OneWatcher, RequestTypes
<1> QED  BY <1>1, <1>3, <1>4 DEF SchedulerInv, RequestTypes

\* Without a change of the deferrals their invariants stay.
LEMMA PollsStay ==
  ASSUME SchedulerInv, UNCHANGED <<polls, restartPending>>
  PROVE  FlagTellsPoll' /\ OneWatcher'
BY DEF SchedulerInv, FlagTellsPoll, OneWatcher

LEMMA SchedulerStepInv == SchedulerInv /\ [SchedulerNext]_schedulerVars => SchedulerInv'
<1> SUFFICES ASSUME SchedulerInv, [SchedulerNext]_schedulerVars PROVE SchedulerInv'
  OBVIOUS
<1> USE SchedulerTypes
<1>1. CASE OutsideSignal
  <2>1. RequestTypes'
    BY <1>1 DEF SchedulerInv, RequestTypes, OutsideSignal, HandleSigusr1, Restart, requestVars, Phases
  <2>2. AskedIsPending' /\ CooldownHolds'
    BY <1>1 DEF SchedulerInv, AskedIsPending, CooldownHolds, OutsideSignal, requestVars
  <2>3. FlagTellsPoll' /\ OneWatcher'
    BY <1>1, PollsStay DEF OutsideSignal, requestVars
  <2> QED  BY <2>1, <2>2, <2>3 DEF SchedulerInv
<1>2. ASSUME NEW d \in Delays, Schedule(d) PROVE SchedulerInv'
  <2>1. timer' \in Nat /\ cooldown \in Nat /\ cooldown <= timer' /\ asked'
    BY <1>2 DEF SchedulerInv, RequestTypes, CooldownHolds, Schedule
  <2>2. UNCHANGED <<cooldown, polls, restartPending, authorized, externalAllowed,
                    busy, phase>>
    BY <1>2 DEF Schedule
  <2>3. RequestTypes'
    BY <1>2, <2>1, <2>2 DEF SchedulerInv, RequestTypes, Schedule
  <2>4. AskedIsPending' /\ CooldownHolds'
    BY <2>1, <2>2 DEF AskedIsPending, CooldownHolds
  <2> QED  BY <2>2, <2>3, <2>4, PollsStay DEF SchedulerInv
<1>3. CASE TimerFires
  <2>1. CASE busy
    <3> DEFINE p == [by |-> "command", waited |-> 0]
    <3>1. p \in Poll /\ p.by # "watcher"
      BY DEF Poll, Askers
    <3>2. /\ polls' = Append(polls, p) /\ timer' = None
          /\ UNCHANGED <<cooldown, authorized, phase, asked, restartPending,
                         externalAllowed, busy>>
      BY <1>3, <2>1 DEF TimerFires
    <3>3. restartPending' = (restartPending \/ p.by = "watcher")
      BY <3>1, <3>2 DEF SchedulerInv, RequestTypes
    <3>4. /\ polls' \in Seq(Poll) /\ polls' # <<>>
          /\ FlagTellsPoll' /\ OneWatcher'
      <4> HIDE DEF p
      <4> QED  BY <3>1, <3>2, <3>3, DeferralKeeps
    <3> QED  BY <3>2, <3>4 DEF SchedulerInv, RequestTypes, AskedIsPending, CooldownHolds
  <2>2. CASE ~busy
    <3>1. Emit /\ UNCHANGED <<polls, restartPending, externalAllowed, busy>>
      BY <1>3, <2>2 DEF TimerFires
    <3>2. RequestTypes' /\ AskedIsPending' /\ CooldownHolds'
      BY <3>1, EmissionTypes DEF SchedulerInv, RequestTypes, AskedIsPending, CooldownHolds
    <3> QED  BY <3>1, <3>2, PollsStay DEF SchedulerInv
  <2> QED  BY <2>1, <2>2
<1>4. CASE WatcherRequests
  <2>1. CASE ~busy
    <3>1. Emit /\ UNCHANGED <<polls, restartPending, busy>>
          /\ externalAllowed' \in BOOLEAN
      BY <1>4, <2>1 DEF WatcherRequests
    <3>2. RequestTypes' /\ AskedIsPending' /\ CooldownHolds'
      BY <3>1, EmissionTypes DEF SchedulerInv, RequestTypes, AskedIsPending, CooldownHolds
    <3> QED  BY <3>1, <3>2, PollsStay DEF SchedulerInv
  <2>2. CASE busy /\ restartPending
    <3>1. UNCHANGED <<requestVars, authorized, phase, busy>>
          /\ externalAllowed' \in BOOLEAN
      BY <1>4, <2>2 DEF WatcherRequests
    <3>2. RequestTypes' /\ AskedIsPending' /\ CooldownHolds'
      BY <3>1 DEF requestVars, SchedulerInv, RequestTypes, AskedIsPending, CooldownHolds
    <3> QED  BY <3>1, <3>2, PollsStay DEF SchedulerInv, requestVars
  <2>3. CASE busy /\ ~restartPending
    <3> DEFINE p == [by |-> "watcher", waited |-> 0]
    <3>1. p \in Poll /\ p.by = "watcher"
      BY DEF Poll, Askers
    <3>2. /\ polls' = Append(polls, p) /\ restartPending' = TRUE /\ asked' = TRUE
          /\ externalAllowed' \in BOOLEAN
          /\ UNCHANGED <<timer, cooldown, authorized, phase, busy>>
      BY <1>4, <2>3 DEF WatcherRequests
    <3>3. /\ polls' \in Seq(Poll) /\ polls' # <<>>
          /\ FlagTellsPoll' /\ OneWatcher'
      <4> HIDE DEF p
      <4>1. restartPending' = (restartPending \/ p.by = "watcher")
        BY <3>1, <3>2
      <4> QED  BY <2>3, <3>1, <3>2, <4>1, DeferralKeeps
    <3> QED  BY <3>2, <3>3 DEF SchedulerInv, RequestTypes, AskedIsPending, CooldownHolds
  <2> QED  BY <2>1, <2>2, <2>3
<1>5. ASSUME NEW i \in DOMAIN polls, PollEnds(i) PROVE SchedulerInv'
  BY <1>5, PollEndsKeeps
<1>6. CASE Tick
  <2>1. /\ timer' = (IF timer = None THEN None ELSE Less(timer))
        /\ cooldown' = Less(cooldown)
        /\ UNCHANGED <<restartPending, authorized, externalAllowed, busy, phase, asked>>
    BY <1>6 DEF Tick
  <2>2. /\ polls' \in Seq(Poll) /\ DOMAIN polls' = DOMAIN polls
        /\ \A j \in DOMAIN polls : polls'[j].by = polls[j].by
        /\ polls' = <<>> => polls = <<>>
    <3>1. polls \in Seq(Poll) /\ DOMAIN polls = 1..Len(polls) /\ Len(polls) \in Nat
      BY DEF SchedulerInv, RequestTypes
    <3>2. polls' = [j \in 1..Len(polls) |-> [polls[j] EXCEPT !.waited =
                      IF @ = MaxWait THEN MaxWait ELSE @ + 1]]
      BY <1>6, <3>1 DEF Tick
    <3>3. ASSUME NEW j \in 1..Len(polls)
          PROVE  polls'[j] \in Poll /\ polls'[j].by = polls[j].by
      <4>1. polls[j] \in Poll
        BY <3>1
      <4> QED  BY <3>2, <4>1 DEF Poll
    <3>4. polls' \in [1..Len(polls) -> Poll]
      BY <3>2, <3>3
    <3>5. polls' \in Seq(Poll) /\ Len(polls') = Len(polls)
      BY <3>1, <3>4
    <3> QED  BY <3>1, <3>3, <3>4, <3>5
  <2>3. RequestTypes'
    BY <2>1, <2>2 DEF SchedulerInv, RequestTypes, Less
  <2>4. AskedIsPending' /\ CooldownHolds'
    BY <2>1, <2>2 DEF SchedulerInv, RequestTypes, AskedIsPending, CooldownHolds, Less
  <2>5. FlagTellsPoll' /\ OneWatcher'
    BY <2>1, <2>2 DEF SchedulerInv, FlagTellsPoll, OneWatcher
  <2> QED  BY <2>3, <2>4, <2>5 DEF SchedulerInv
<1>7. CASE WorkChanges \/ HotReload \/ ServerCloses \/ ServerStartFails
  <2>1. /\ UNCHANGED <<requestVars, authorized>>
        /\ externalAllowed' \in BOOLEAN /\ busy' \in BOOLEAN /\ phase' \in Phases
    BY <1>7 DEF WorkChanges, HotReload, ServerCloses, ServerStartFails, SchedulerInv, RequestTypes, Phases
  <2>2. RequestTypes' /\ AskedIsPending' /\ CooldownHolds'
    BY <2>1 DEF requestVars, SchedulerInv, RequestTypes, AskedIsPending, CooldownHolds
  <2> QED  BY <2>1, <2>2, PollsStay DEF SchedulerInv, requestVars
<1>8. CASE Started
  <2>1. polls \in Seq(Poll) /\ DOMAIN polls = 1..Len(polls) /\ Len(polls) \in Nat
    BY DEF SchedulerInv, RequestTypes
  <2>2. polls' = [j \in 1..Len(polls) |->
                    IF polls[j].by = "watcher" THEN [polls[j] EXCEPT !.by = "past"]
                    ELSE polls[j]]
    BY <1>8, <2>1 DEF Started
  <2>3. ASSUME NEW j \in 1..Len(polls)
        PROVE  polls'[j] \in Poll /\ polls'[j].by # "watcher"
    <3>1. polls[j] \in Poll
      BY <2>1
    <3> QED  BY <2>2, <3>1 DEF Poll, Askers
  <2>4. polls' \in [1..Len(polls) -> Poll]
    BY <2>2, <2>3
  <2>5. polls' \in Seq(Poll) /\ Len(polls') = Len(polls) /\ DOMAIN polls' = 1..Len(polls)
    BY <2>1, <2>4
  <2>6. /\ UNCHANGED <<timer, cooldown, authorized, busy, asked>>
        /\ externalAllowed' \in BOOLEAN /\ phase' = "serving" /\ restartPending' = FALSE
    BY <1>8 DEF Started
  <2>7. RequestTypes' /\ CooldownHolds'
    BY <2>5, <2>6 DEF SchedulerInv, RequestTypes, CooldownHolds, Phases
  <2>8. AskedIsPending'
    BY <2>1, <2>5, <2>6 DEF SchedulerInv, AskedIsPending
  <2>9. FlagTellsPoll' /\ OneWatcher'
    BY <2>3, <2>5, <2>6 DEF FlagTellsPoll, OneWatcher
  <2> QED  BY <2>7, <2>8, <2>9 DEF SchedulerInv
<1>9. CASE UNCHANGED schedulerVars
  BY <1>9, PollsStay DEF schedulerVars, SchedulerInv, RequestTypes, AskedIsPending, CooldownHolds
<1> QED  BY <1>1, <1>2, <1>3, <1>4, <1>5, <1>6, <1>7, <1>8, <1>9 DEF SchedulerNext

\* The scheduler's state keeps its types, and a request that waits for its
\* signal has a timer or a deferral that will send it (emitGatewayRestart).
THEOREM RequestTypesHold == SchedulerSpec => []SchedulerTypeOK
<1>1. SchedulerInv => SchedulerTypeOK
  BY DEF SchedulerInv, RequestTypes, Poll, AskedIsPending, SchedulerTypeOK
<1> QED  BY SchedulerInitInv, SchedulerStepInv, <1>1, PTL DEF SchedulerSpec

\* No scheduled restart falls into the cooldown of an emission.
THEOREM NoRestartInCooldown == SchedulerSpec => []CooldownHolds
<1>1. SchedulerInv => CooldownHolds
  BY DEF SchedulerInv
<1> QED  BY SchedulerInitInv, SchedulerStepInv, <1>1, PTL DEF SchedulerSpec

\* The flag of requestGatewayRestart is set while, and only while, a deferral
\* of the same server polls.
THEOREM FlagIsNeverStale == SchedulerSpec => []FlagTellsPoll
<1>1. SchedulerInv => FlagTellsPoll
  BY DEF SchedulerInv
<1> QED  BY SchedulerInitInv, SchedulerStepInv, <1>1, PTL DEF SchedulerSpec

\* The types, the cooldown and the flag, together.
THEOREM RequestsAreSound == SchedulerSpec => []RequestsSound
<1>1. SchedulerTypeOK /\ CooldownHolds /\ FlagTellsPoll => RequestsSound
  BY DEF RequestsSound
<1> QED  BY RequestTypesHold, NoRestartInCooldown, FlagIsNeverStale, <1>1, PTL

\* A scheduled restart is only pulled earlier: scheduleGatewaySigusr1Restart
\* joins the pending timer unless its own is due before.
THEOREM NeverPostponed == SchedulerSpec => DueNeverLater
<1> DEFINE A == timer # None /\ timer' # None => timer' <= timer
<1>1. ASSUME SchedulerInv, [SchedulerNext]_schedulerVars PROVE [A]_schedulerVars
  <2> SUFFICES ASSUME timer # None, timer' # None PROVE timer' <= timer
    OBVIOUS
  <2>1. timer \in Nat /\ cooldown \in Nat /\ UNCHANGED timer => timer' <= timer
    OBVIOUS
  <2>2. timer \in Nat /\ cooldown \in Nat
    BY <1>1, SchedulerTypes DEF SchedulerInv, RequestTypes
  <2>3. ASSUME NEW d \in Delays, Schedule(d) PROVE timer' <= timer
    BY <2>2, <2>3, SchedulerTypes DEF Schedule
  <2>4. CASE Tick
    BY <2>2, <2>4 DEF Tick, Less
  <2>5. CASE TimerFires \/ WatcherRequests \/ \E i \in DOMAIN polls : PollEnds(i)
    BY <2>1, <2>2, <2>5
       DEF TimerFires, WatcherRequests, PollEnds, Emit, requestVars
  <2>6. CASE \/ OutsideSignal \/ WorkChanges \/ HotReload \/ ServerCloses
             \/ ServerStartFails \/ Started \/ UNCHANGED schedulerVars
    BY <2>1, <2>2, <2>6 DEF OutsideSignal, WorkChanges, HotReload, ServerCloses,
       ServerStartFails, Started, requestVars, schedulerVars
  <2> QED  BY <1>1, <2>3, <2>4, <2>5, <2>6 DEF SchedulerNext
<1> QED  BY SchedulerInitInv, SchedulerStepInv, <1>1, PTL DEF SchedulerSpec, DueNeverLater

\* The handler runs inside the emission that authorizes it, so no authorization
\* is left for a signal from outside (consumeGatewaySigusr1RestartAuthorization).
NothingLeft == authorized = 0

LEMMA NothingLeftStep == NothingLeft /\ [SchedulerNext]_schedulerVars => NothingLeft'
<1> SUFFICES ASSUME authorized = 0, [SchedulerNext]_schedulerVars PROVE authorized' = 0
  BY DEF NothingLeft
<1>1. ASSUME NEW given \in {0, 1}, HandleSigusr1(given) PROVE authorized' = 0
  BY <1>1 DEF HandleSigusr1
<1>2. CASE OutsideSignal
  BY <1>1, <1>2 DEF OutsideSignal
<1>3. CASE TimerFires \/ WatcherRequests \/ \E i \in DOMAIN polls : PollEnds(i)
  <2>1. ASSUME Emit PROVE authorized' = 0
    BY <1>1, <2>1 DEF Emit
  <2> QED  BY <1>3, <2>1 DEF TimerFires, WatcherRequests, PollEnds
<1>4. CASE \/ \E d \in Delays : Schedule(d)
           \/ Tick \/ WorkChanges \/ HotReload \/ ServerCloses \/ ServerStartFails
           \/ Started \/ UNCHANGED schedulerVars
  BY <1>4 DEF Schedule, Tick, WorkChanges, HotReload, ServerCloses, ServerStartFails,
     Started, schedulerVars
<1> QED  BY <1>2, <1>3, <1>4 DEF SchedulerNext

\* Where the policy does not allow it, a signal from outside never restarts the
\* gateway: what restarts it then is an emission of its own.
THEOREM OutsideIsRefused == SchedulerSpec => OutsideNeedsPolicy
<1> DEFINE A == phase # "draining" /\ phase' = "draining" =>
                  externalAllowed \/ cooldown' = Cooldown
<1>1. ASSUME NothingLeft, [SchedulerNext]_schedulerVars PROVE [A]_schedulerVars
  <2> SUFFICES ASSUME phase # "draining", phase' = "draining"
               PROVE  externalAllowed \/ cooldown' = Cooldown
    OBVIOUS
  <2>1. CASE OutsideSignal
    BY <1>1, <2>1 DEF OutsideSignal, HandleSigusr1, NothingLeft
  <2>2. CASE TimerFires \/ WatcherRequests \/ \E i \in DOMAIN polls : PollEnds(i)
    BY <2>2 DEF TimerFires, WatcherRequests, PollEnds, Emit
  <2>3. CASE \/ \E d \in Delays : Schedule(d)
             \/ Tick \/ WorkChanges \/ HotReload \/ ServerCloses \/ ServerStartFails
             \/ Started \/ UNCHANGED schedulerVars
    BY <2>3 DEF Schedule, Tick, WorkChanges, HotReload, ServerCloses, ServerStartFails,
       Started, schedulerVars
  <2> QED  BY <1>1, <2>1, <2>2, <2>3 DEF SchedulerNext
<1>2. SchedulerInit => NothingLeft
  BY DEF SchedulerInit, NothingLeft
<1> QED  BY <1>2, NothingLeftStep, <1>1, PTL DEF SchedulerSpec, OutsideNeedsPolicy

\* No step puts a restart off or lets an outside signal in.
THEOREM StepsAreSound == SchedulerSpec => StepsSound
  BY NeverPostponed, OutsideIsRefused DEF StepsSound
===========================================================================
