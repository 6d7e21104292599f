------------------------ MODULE CommandLanesProofs ------------------------
(***************************************************************************)
(* Theorems about the command lanes, for every set of lanes and commands,  *)
(* every nesting, and every bound on limits and resets.                    *)
(***************************************************************************)
EXTENDS CommandLanes, FiniteSetTheorems, SequenceTheorems, TLAPS

---------------------------------------------------------------------------
(* Sequences: queues and the call stack *)

\* Appending keeps what is there and adds one element at the end.
LEMMA PushLemma ==
  ASSUME NEW S, NEW s \in Seq(S), NEW f \in S
  PROVE  /\ Append(s, f) \in Seq(S)
         /\ Append(s, f) # <<>>
         /\ Len(Append(s, f)) = Len(s) + 1
         /\ Len(s) \in Nat
         /\ Append(s, f)[Len(s) + 1] = f
         /\ \A i \in 1..Len(s) : Append(s, f)[i] = s[i]
OBVIOUS

\* Dropping the last element keeps the ones before it.
LEMMA PopLemma ==
  ASSUME NEW S, NEW s \in Seq(S), s # <<>>
  PROVE  /\ SubSeq(s, 1, Len(s) - 1) \in Seq(S)
         /\ Len(SubSeq(s, 1, Len(s) - 1)) = Len(s) - 1
         /\ Len(s) \in Nat \ {0}
         /\ s[Len(s)] \in S
         /\ \A i \in 1..(Len(s) - 1) : SubSeq(s, 1, Len(s) - 1)[i] = s[i]
<1>1. Len(s) \in Nat \ {0}
  BY EmptySeq
<1>2. \A i \in 1..Len(s) : s[i] \in S
  BY ElementOfSeq
<1>3. \A i \in 1..(Len(s) - 1) : s[i] \in S
  BY <1>1, <1>2
<1> DEFINE t == SubSeq(s, 1, Len(s) - 1)
<1>4. /\ t \in Seq(S)
      /\ Len(t) = IF 1 <= Len(s) - 1 THEN Len(s) - 1 - 1 + 1 ELSE 0
      /\ \A i \in 1..(Len(s) - 1 - 1 + 1) : t[i] = s[1 + i - 1]
  BY <1>1, <1>3, SubSeqProperties
<1>5. \A i \in 1..(Len(s) - 1) : t[i] = s[i]
  BY <1>1, <1>4
<1>6. Len(t) = Len(s) - 1
  <2> HIDE DEF t
  <2>1. PICK n \in Nat : n = Len(s) /\ n # 0
    BY <1>1
  <2> QED
    BY <1>4, <2>1
<1> QED
  BY <1>1, <1>2, <1>4, <1>5, <1>6

\* Shifting a queue: its head, and every other element one place forward.
LEMMA ShiftLemma ==
  ASSUME NEW S, NEW s \in Seq(S), s # <<>>
  PROVE  /\ Head(s) = s[1]
         /\ Head(s) \in S
         /\ Tail(s) \in Seq(S)
         /\ Len(s) \in Nat \ {0}
         /\ Len(Tail(s)) = Len(s) - 1
         /\ \A i \in 1..Len(Tail(s)) : Tail(s)[i] = s[i + 1]
BY HeadTailProperties, EmptySeq

\* What resetAllLanes pushes: one drain frame for every lane of D.
LEMMA ResetFrames ==
  ASSUME NEW D \in SUBSET Lanes, NEW s \in DrainOrders(D)
  PROVE  LET f == [i \in DOMAIN s |-> [at |-> "drain", lane |-> s[i]]]
         IN  /\ f \in Seq(Frame)
             /\ \A l \in D : \E i \in 1..Len(f) : f[i].lane = l
<1>1. IsFiniteSet(D) /\ Cardinality(D) \in Nat
  BY FS_Subset, FS_CardinalityType, Finiteness
<1>2. s \in [1..Cardinality(D) -> D] /\ \A l \in D : \E i \in DOMAIN s : s[i] = l
  BY DEF DrainOrders
<1> DEFINE f == [i \in DOMAIN s |-> [at |-> "drain", lane |-> s[i]]]
<1>3. f \in [1..Cardinality(D) -> Frame]
  BY <1>2 DEF Frame
<1>4. f \in Seq(Frame) /\ Len(f) = Cardinality(D)
  <2> HIDE DEF f
  <2> QED BY <1>1, <1>3
<1>5. \A l \in D : \E i \in 1..Len(f) : f[i].lane = l
  BY <1>2, <1>4
<1> QED
  BY <1>4, <1>5

---------------------------------------------------------------------------
(* Type correctness *)

LEMMA InitType == Init => TypeOK
<1> SUFFICES ASSUME Init PROVE TypeOK
  OBVIOUS
<1>1. \A S : <<>> \in Seq(S)
  OBVIOUS
<1>2. 0 \in 0..MaxReset /\ 1 \in 1..MaxLimit
  BY LimitType
<1> QED
  BY <1>1, <1>2 DEF Init, TypeOK, Status

\* The lane of the top frame is a lane, and pushing or popping a frame leaves
\* a stack of frames.
LEMMA StackType ==
  ASSUME TypeOK
  PROVE  /\ \A l \in Lanes : Append(calls, [at |-> "drain", lane |-> l]) \in Seq(Frame)
         /\ \A l \in Lanes : Append(calls, [at |-> "pump", lane |-> l]) \in Seq(Frame)
         /\ calls # <<>> => /\ Popped \in Seq(Frame)
                            /\ Top \in Frame
                            /\ Top.lane \in Lanes
                            /\ Append(Popped, [at |-> "pump", lane |-> Top.lane])
                                 \in Seq(Frame)
<1>1. \A l \in Lanes : /\ [at |-> "drain", lane |-> l] \in Frame
                       /\ [at |-> "pump", lane |-> l] \in Frame
  BY DEF Frame
<1>2. calls \in Seq(Frame)
  BY DEF TypeOK
<1>3. ASSUME calls # <<>> PROVE Popped \in Seq(Frame) /\ Top \in Frame
  BY <1>2, <1>3, PopLemma DEF Popped, Top
<1>4. calls # <<>> => Top.lane \in Lanes
  BY <1>3 DEF Frame
<1> QED
  BY <1>1, <1>2, <1>3, <1>4, PushLemma

LEMMA AcceptRefuseType ==
  ASSUME TypeOK, NEW c \in Cmds, Accept(c) \/ Refuse(c)
  PROVE  /\ queue' \in [Lanes -> Seq(Cmds)]
         /\ arrival' \in [Lanes -> Seq(Cmds)]
         /\ status' \in [Cmds -> Status]
         /\ calls' \in Seq(Frame)
<1>1. \A l \in Lanes : /\ Append(queue[l], c) \in Seq(Cmds)
                       /\ Append(arrival[l], c) \in Seq(Cmds)
  BY PushLemma DEF TypeOK
<1>2. LaneOf[c] \in Lanes
  BY LaneOfType
<1>3. CASE Accept(c)
  BY <1>1, <1>2, <1>3, StackType DEF Accept, TypeOK, Status
<1>4. CASE Refuse(c)
  BY <1>4 DEF Refuse, TypeOK, Status, Settled
<1> QED
  BY <1>3, <1>4

LEMMA NextType == TypeOK /\ [Next]_vars => TypeOK'
<1> SUFFICES ASSUME TypeOK, [Next]_vars PROVE TypeOK'
  OBVIOUS
<1> USE LaneOfType
<1>1. CASE DrainLane
  BY <1>1, StackType DEF DrainLane, InCall, TypeOK
<1>2. CASE PumpStart
  <2>1. Top.lane \in Lanes
    BY <1>2, StackType DEF PumpStart, InCall
  <2>2. /\ Head(queue[Top.lane]) \in Cmds
        /\ Tail(queue[Top.lane]) \in Seq(Cmds)
    BY <1>2, <2>1, ShiftLemma DEF PumpStart, CanPump, TypeOK
  <2>3. entering' \in Cmds \cup {NoCmd}
    BY <1>2, <2>2 DEF PumpStart
  <2> QED
    BY <1>2, <2>1, <2>2, <2>3 DEF PumpStart, TypeOK, Status
<1>3. CASE PumpEnd
  BY <1>3, StackType DEF PumpEnd, InCall, TypeOK
<1>4. CASE EnterTask
  <2>1. entering \in Cmds /\ Nested[entering] \in Cmds
    BY <1>4, NestedType DEF EnterTask, TypeOK
  <2>2. Accept(Nested[entering]) \/ Refuse(Nested[entering])
    BY <1>4 DEF EnterTask
  <2>3. /\ queue' \in [Lanes -> Seq(Cmds)]
        /\ arrival' \in [Lanes -> Seq(Cmds)]
        /\ status' \in [Cmds -> Status]
        /\ calls' \in Seq(Frame)
    BY <2>1, <2>2, AcceptRefuseType
  <2> QED
    BY <1>4, <2>3 DEF EnterTask, TypeOK
<1>5. ASSUME NEW c \in Cmds, Enqueue(c) PROVE TypeOK'
  <2>1. /\ queue' \in [Lanes -> Seq(Cmds)]
        /\ arrival' \in [Lanes -> Seq(Cmds)]
        /\ status' \in [Cmds -> Status]
        /\ calls' \in Seq(Frame)
    BY <1>5, AcceptRefuseType DEF Enqueue
  <2> QED
    BY <1>5, <2>1 DEF Enqueue, TypeOK
<1>6. ASSUME NEW c \in Cmds, TaskSettles(c) PROVE TypeOK'
  <2>1. status' \in [Cmds -> Status]
    BY <1>6 DEF TaskSettles, TaskOutcomes, TypeOK, Status, Settled
  <2>2. activeTaskIds' \in [Lanes -> SUBSET Cmds] /\ calls' \in Seq(Frame)
    <3>1. LaneOf[c] \in Lanes
      OBVIOUS
    <3>2. CASE taskGeneration[c] # generation[LaneOf[c]]
      BY <1>6, <3>2 DEF TaskSettles, CompleteTask, TypeOK
    <3>3. CASE taskGeneration[c] = generation[LaneOf[c]]
      <4>1. /\ activeTaskIds' = [activeTaskIds EXCEPT ![LaneOf[c]] = @ \ {c}]
            /\ calls' = Append(calls, [at |-> "pump", lane |-> LaneOf[c]])
        BY <1>6, <3>3 DEF TaskSettles, CompleteTask
      <4>2. calls' \in Seq(Frame)
        BY <3>1, <4>1, StackType
      <4>3. activeTaskIds' \in [Lanes -> SUBSET Cmds]
        BY <3>1, <4>1 DEF TypeOK
      <4> QED
        BY <4>2, <4>3
    <3> QED
      BY <3>2, <3>3
  <2> QED
    BY <1>6, <2>1, <2>2 DEF TaskSettles, TypeOK
<1>7. ASSUME NEW l \in Lanes, ClearCommandLane(l) PROVE TypeOK'
  <2>1. status' \in [Cmds -> Status]
    BY <1>7 DEF ClearCommandLane, TypeOK, Status, Settled
  <2>2. <<>> \in Seq(Cmds)
    OBVIOUS
  <2> QED
    BY <1>7, <2>1, <2>2 DEF ClearCommandLane, TypeOK
<1>8. ASSUME NEW l \in Lanes, NEW n \in 0..MaxLimit, SetCommandLaneConcurrency(l, n)
      PROVE TypeOK'
  <2>1. (IF n < 1 THEN 1 ELSE n) \in 1..MaxLimit
    BY LimitType
  <2>2. maxConcurrent' = [maxConcurrent EXCEPT ![l] = IF n < 1 THEN 1 ELSE n]
    BY <1>8 DEF SetCommandLaneConcurrency
  <2>3. maxConcurrent' \in [Lanes -> 1..MaxLimit]
    BY <2>1, <2>2 DEF TypeOK
  <2>4. QED
    BY <1>8, <2>3, StackType DEF SetCommandLaneConcurrency, TypeOK
<1>9. CASE MarkGatewayDraining
  BY <1>9 DEF MarkGatewayDraining, laneVars, TypeOK
<1>10. CASE ResetAllLanes
  <2>1. calls' \in Seq(Frame)
    BY <1>10, ResetFrames DEF ResetAllLanes
  <2>2. generation' \in [Lanes -> 0..MaxReset]
    BY <1>10, LimitType DEF ResetAllLanes, TypeOK
  <2> QED
    BY <1>10, <2>1, <2>2 DEF ResetAllLanes, TypeOK
<1>11. CASE WaitForActiveTasks
  <2>1. AllActive \in SUBSET Cmds
    BY DEF AllActive, TypeOK
  <2> QED
    BY <1>11, <2>1 DEF WaitForActiveTasks, WaitFor, laneVars, TypeOK
<1>12. ASSUME NEW r \in {"drained", "timeout"}, WaitCheck(r) PROVE TypeOK'
  BY <1>12 DEF WaitCheck, laneVars, TypeOK
<1>13. CASE UNCHANGED vars
  BY <1>13 DEF vars, laneVars, TypeOK
<1> QED
  BY <1>1, <1>2, <1>3, <1>4, <1>5, <1>6, <1>7, <1>8, <1>9, <1>10, <1>11, <1>12,
     <1>13 DEF Next, PumpStep

---------------------------------------------------------------------------
(* The queues *)

\* A command nested in one that has not been entered yet is untouched, and so
\* cannot already be queued when its parent's task enqueues it.
NestedIdle ==
  /\ entering # NoCmd => status[entering] = "running"
  /\ \A c \in Cmds :
       /\ Nested[c] # NoCmd
       /\ status[c] \notin {"running", "done", "failed"} \/ c = entering
       => status[Nested[c]] = "idle"

\* The parts of TypeOK and QueueExact that speak about queues and statuses.
LEMMA QueueFacts ==
  ASSUME TypeOK, QueueExact
  PROVE  /\ queue \in [Lanes -> Seq(Cmds)]
         /\ status \in [Cmds -> Status]
         /\ \A l \in Lanes : Len(queue[l]) \in Nat
         /\ \A l \in Lanes : \A i \in 1..Len(queue[l]) :
              /\ queue[l][i] \in Cmds
              /\ LaneOf[queue[l][i]] = l
              /\ status[queue[l][i]] = "queued"
         /\ \A l \in Lanes : \A i, j \in 1..Len(queue[l]) :
              queue[l][i] = queue[l][j] => i = j
         /\ \A c \in Cmds : status[c] = "queued" =>
              \E i \in 1..Len(queue[LaneOf[c]]) : queue[LaneOf[c]][i] = c
<1>1. queue \in [Lanes -> Seq(Cmds)] /\ status \in [Cmds -> Status]
  BY DEF TypeOK
<1>2. ASSUME NEW l \in Lanes
      PROVE  /\ Len(queue[l]) \in Nat
             /\ \A i \in 1..Len(queue[l]) : queue[l][i] \in Cmds
  <2>1. queue[l] \in Seq(Cmds)
    BY <1>1
  <2> QED
    BY <2>1, ElementOfSeq
<1> QED
  BY <1>1, <1>2 DEF QueueExact, Queued

\* QueueExact of the next state, from the same facts about it.
LEMMA QueueExactNext ==
  ASSUME \A l \in Lanes : \A i \in 1..Len(queue'[l]) :
           LaneOf[queue'[l][i]] = l /\ status'[queue'[l][i]] = "queued",
         \A l \in Lanes : \A i, j \in 1..Len(queue'[l]) :
           queue'[l][i] = queue'[l][j] => i = j,
         \A c \in Cmds : status'[c] = "queued" =>
           \E i \in 1..Len(queue'[LaneOf[c]]) : queue'[LaneOf[c]][i] = c
  PROVE  QueueExact'
BY DEF QueueExact, Queued

LEMMA AcceptKeepsQueueExact ==
  ASSUME TypeOK, QueueExact, NEW c \in Cmds, status[c] = "idle",
         Accept(c) \/ Refuse(c)
  PROVE  QueueExact'
<1> DEFINE m == LaneOf[c]
           q == Append(queue[m], c)
<1>1. CASE Refuse(c)
  <2>1. queue' = queue /\ status' = [status EXCEPT ![c] = "refused"]
    BY <1>1 DEF Refuse
  <2> QED
    BY <2>1, QueueFacts, QueueExactNext
<1>2. CASE Accept(c)
  <2>1. /\ queue' = [queue EXCEPT ![m] = q]
        /\ status' = [status EXCEPT ![c] = "queued"]
    BY <1>2 DEF Accept
  <2>2. m \in Lanes /\ queue[m] \in Seq(Cmds)
    BY LaneOfType, QueueFacts
  <2>3. /\ Len(q) = Len(queue[m]) + 1
        /\ Len(queue[m]) \in Nat
        /\ q[Len(queue[m]) + 1] = c
        /\ \A i \in 1..Len(queue[m]) : q[i] = queue[m][i]
    BY <2>2, PushLemma
  <2> HIDE DEF m, q
  <2>4. queue'[m] = q /\ \A l \in Lanes : l # m => queue'[l] = queue[l]
    BY <2>1, <2>2, QueueFacts
  <2>5. /\ status'[c] = "queued"
        /\ \A d \in Cmds : d # c => status'[d] = status[d]
    BY <2>1, QueueFacts
  <2>6. \A i \in 1..Len(q) : i \in 1..Len(queue[m]) \/ i = Len(queue[m]) + 1
    BY <2>3
  <2>7. \A l \in Lanes : \A i \in 1..Len(queue'[l]) :
           LaneOf[queue'[l][i]] = l /\ status'[queue'[l][i]] = "queued"
    <3>1. ASSUME NEW l \in Lanes, l # m, NEW i \in 1..Len(queue[l])
          PROVE  LaneOf[queue[l][i]] = l /\ status'[queue[l][i]] = "queued"
      BY <2>5, QueueFacts
    <3>2. ASSUME NEW i \in 1..Len(q)
          PROVE  LaneOf[q[i]] = m /\ status'[q[i]] = "queued"
      <4>1. CASE i = Len(queue[m]) + 1
        BY <2>3, <2>5, <4>1 DEF m
      <4>2. CASE i \in 1..Len(queue[m])
        BY <2>2, <2>3, <2>5, <4>2, QueueFacts
      <4> QED
        BY <2>6, <4>1, <4>2
    <3> QED
      BY <2>4, <3>1, <3>2
  <2>8. \A l \in Lanes : \A i \in 1..Len(queue[l]) : queue[l][i] # c
    BY QueueFacts
  <2>9. \A l \in Lanes : \A i, j \in 1..Len(queue'[l]) :
           queue'[l][i] = queue'[l][j] => i = j
    <3>1. ASSUME NEW i \in 1..Len(q), NEW j \in 1..Len(q), q[i] = q[j]
          PROVE  i = j
      <4>1. CASE i \in 1..Len(queue[m]) /\ j \in 1..Len(queue[m])
        BY <2>2, <2>3, <3>1, <4>1, QueueFacts
      <4>2. CASE i = Len(queue[m]) + 1 /\ j \in 1..Len(queue[m])
        BY <2>2, <2>3, <2>8, <3>1, <4>2
      <4>3. CASE i \in 1..Len(queue[m]) /\ j = Len(queue[m]) + 1
        BY <2>2, <2>3, <2>8, <3>1, <4>3
      <4> QED
        BY <2>6, <4>1, <4>2, <4>3
    <3>2. ASSUME NEW l \in Lanes, l # m,
                 NEW i \in 1..Len(queue'[l]), NEW j \in 1..Len(queue'[l]),
                 queue'[l][i] = queue'[l][j]
          PROVE  i = j
      BY <2>4, <3>2, QueueFacts
    <3> QED
      BY <2>4, <3>1, <3>2
  <2>10. \A d \in Cmds : status'[d] = "queued" =>
           \E i \in 1..Len(queue'[LaneOf[d]]) : queue'[LaneOf[d]][i] = d
    <3>1. ASSUME NEW d \in Cmds, status'[d] = "queued", d # c
          PROVE  \E i \in 1..Len(queue'[LaneOf[d]]) : queue'[LaneOf[d]][i] = d
      <4>1. PICK i \in 1..Len(queue[LaneOf[d]]) : queue[LaneOf[d]][i] = d
        BY <2>5, <3>1, QueueFacts
      <4>2. CASE LaneOf[d] # m
        BY <2>4, <4>1, <4>2, LaneOfType
      <4>3. CASE LaneOf[d] = m
        BY <2>3, <2>4, <4>1, <4>3
      <4> QED
        BY <4>2, <4>3
    <3>2. Len(q) \in 1..Len(q) /\ q[Len(q)] = c
      BY <2>3
    <3> QED
      BY <2>4, <3>1, <3>2 DEF m
  <2> QED
    BY <2>7, <2>9, <2>10, QueueExactNext
<1> QED
  BY <1>1, <1>2

\* What pump shifts: the oldest queued command of the lane.
LEMMA PumpStartFacts ==
  ASSUME TypeOK, QueueExact, PumpStart
  PROVE  LET m == Top.lane
             c == Head(queue[m])
         IN  /\ m \in Lanes
             /\ c \in Cmds /\ LaneOf[c] = m /\ status[c] = "queued"
             /\ c = queue[m][1]
             /\ Len(queue[m]) \in Nat \ {0}
             /\ Len(queue'[m]) = Len(queue[m]) - 1
             /\ \A i \in 1..Len(queue'[m]) : queue'[m][i] = queue[m][i + 1]
             /\ \A l \in Lanes : l # m => queue'[l] = queue[l]
             /\ status'[c] = "running"
             /\ \A d \in Cmds : d # c => status'[d] = status[d]
<1> DEFINE m == Top.lane
           c == Head(queue[m])
<1>1. m \in Lanes /\ queue[m] # <<>>
  BY StackType DEF PumpStart, InCall, CanPump
<1>2. queue[m] \in Seq(Cmds)
  BY <1>1, QueueFacts
<1>3. /\ c = queue[m][1] /\ c \in Cmds
      /\ Len(queue[m]) \in Nat \ {0}
      /\ Len(Tail(queue[m])) = Len(queue[m]) - 1
      /\ \A i \in 1..Len(Tail(queue[m])) : Tail(queue[m])[i] = queue[m][i + 1]
  BY <1>1, <1>2, ShiftLemma
<1>4. /\ queue' = [queue EXCEPT ![m] = Tail(queue[m])]
      /\ status' = [status EXCEPT ![c] = "running"]
  BY DEF PumpStart
<1> HIDE DEF m, c
<1>5. LaneOf[c] = m /\ status[c] = "queued"
  BY <1>1, <1>3, QueueFacts
<1>6. queue'[m] = Tail(queue[m]) /\ \A l \in Lanes : l # m => queue'[l] = queue[l]
  BY <1>1, <1>4, QueueFacts
<1>7. status'[c] = "running" /\ \A d \in Cmds : d # c => status'[d] = status[d]
  BY <1>3, <1>4, QueueFacts
<1> QED
  BY <1>1, <1>3, <1>5, <1>6, <1>7 DEF m, c

LEMMA PumpStartKeepsQueueExact ==
  ASSUME TypeOK, QueueExact, PumpStart
  PROVE  QueueExact'
<1> DEFINE m == Top.lane
           c == Head(queue[m])
<1>1. /\ m \in Lanes
      /\ c \in Cmds /\ LaneOf[c] = m /\ status[c] = "queued"
      /\ c = queue[m][1]
      /\ Len(queue[m]) \in Nat \ {0}
      /\ Len(queue'[m]) = Len(queue[m]) - 1
      /\ \A i \in 1..Len(queue'[m]) : queue'[m][i] = queue[m][i + 1]
      /\ \A l \in Lanes : l # m => queue'[l] = queue[l]
      /\ status'[c] = "running"
      /\ \A d \in Cmds : d # c => status'[d] = status[d]
  BY PumpStartFacts
<1> HIDE DEF m, c
<1>2. \A i \in 1..Len(queue'[m]) :
        /\ i + 1 \in 1..Len(queue[m])
        /\ queue'[m][i] = queue[m][i + 1]
        /\ queue[m][i + 1] # c
  <2>1. \A i \in 1..Len(queue'[m]) : i + 1 \in 1..Len(queue[m]) /\ i + 1 # 1
    BY <1>1
  <2>2. 1 \in 1..Len(queue[m])
    BY <1>1
  <2> QED
    BY <1>1, <2>1, <2>2, QueueFacts
<1>3. \A l \in Lanes : \A i \in 1..Len(queue'[l]) :
         LaneOf[queue'[l][i]] = l /\ status'[queue'[l][i]] = "queued"
  <2>1. \A i \in 1..Len(queue'[m]) :
          LaneOf[queue'[m][i]] = m /\ status'[queue'[m][i]] = "queued"
    BY <1>1, <1>2, QueueFacts
  <2>2. ASSUME NEW l \in Lanes, l # m, NEW i \in 1..Len(queue[l])
        PROVE  LaneOf[queue[l][i]] = l /\ status'[queue[l][i]] = "queued"
    <3>1. queue[l][i] \in Cmds /\ LaneOf[queue[l][i]] = l /\ status[queue[l][i]] = "queued"
      BY QueueFacts
    <3> QED
      BY <1>1, <2>2, <3>1
  <2> QED
    BY <1>1, <2>1, <2>2
<1>4. \A l \in Lanes : \A i, j \in 1..Len(queue'[l]) :
         queue'[l][i] = queue'[l][j] => i = j
  <2>1. ASSUME NEW i \in 1..Len(queue'[m]), NEW j \in 1..Len(queue'[m]),
               queue'[m][i] = queue'[m][j]
        PROVE  i = j
    <3>1. i + 1 = j + 1
      BY <1>1, <1>2, <2>1, QueueFacts
    <3> QED
      BY <3>1
  <2>2. ASSUME NEW l \in Lanes, l # m,
               NEW i \in 1..Len(queue'[l]), NEW j \in 1..Len(queue'[l]),
               queue'[l][i] = queue'[l][j]
        PROVE  i = j
    BY <1>1, <2>2, QueueFacts
  <2> QED
    BY <2>1, <2>2
<1>5. ASSUME NEW d \in Cmds, status'[d] = "queued"
      PROVE  \E i \in 1..Len(queue'[LaneOf[d]]) : queue'[LaneOf[d]][i] = d
  <2>1. d # c /\ status[d] = "queued"
    BY <1>1, <1>5
  <2>2. PICK i \in 1..Len(queue[LaneOf[d]]) : queue[LaneOf[d]][i] = d
    BY <2>1, QueueFacts
  <2>3. CASE LaneOf[d] # m
    BY <1>1, <2>2, <2>3, LaneOfType
  <2>4. CASE LaneOf[d] = m
    <3>1. i # 1
      BY <1>1, <2>1, <2>2, <2>4
    <3>2. i - 1 \in 1..Len(queue'[m]) /\ (i - 1) + 1 = i
      BY <1>1, <2>2, <2>4, <3>1
    <3> QED
      BY <1>1, <2>2, <2>4, <3>2
  <2> QED
    BY <2>3, <2>4
<1> QED
  BY <1>3, <1>4, <1>5, QueueExactNext

LEMMA NestedIdleNext ==
  TypeOK /\ QueueExact /\ NestedIdle /\ [Next]_vars => NestedIdle'
<1> SUFFICES ASSUME TypeOK, QueueExact, NestedIdle, [Next]_vars PROVE NestedIdle'
  OBVIOUS
<1>1. /\ status \in [Cmds -> Status]
      /\ Nested \in [Cmds -> Cmds \cup {NoCmd}]
      /\ \A c, d \in Cmds : Nested[c] = Nested[d] /\ Nested[c] # NoCmd => c = d
      /\ entering \in Cmds \cup {NoCmd}
      /\ NoCmd \notin Cmds
  BY NestedType, NoCmdType DEF TypeOK
<1>2. ASSUME entering' = entering, status' = status PROVE NestedIdle'
  BY <1>2 DEF NestedIdle
<1>3. CASE DrainLane
  BY <1>2, <1>3 DEF DrainLane
<1>4. CASE PumpStart
  <2> DEFINE c == Head(queue[Top.lane])
  <2>1. /\ c \in Cmds /\ status[c] = "queued" /\ status'[c] = "running"
        /\ \A d \in Cmds : d # c => status'[d] = status[d]
    BY <1>4, PumpStartFacts
  <2>2. entering' = IF Nested[c] = NoCmd THEN NoCmd ELSE c
    BY <1>4 DEF PumpStart
  <2>3. entering = NoCmd
    BY <1>4 DEF PumpStart, InCall
  <2> HIDE DEF c
  <2> QED
    BY <1>1, <2>1, <2>2, <2>3 DEF NestedIdle
<1>5. CASE PumpEnd
  BY <1>2, <1>5 DEF PumpEnd
<1>6. CASE EnterTask
  <2>1. /\ entering \in Cmds /\ Nested[entering] \in Cmds
        /\ status[entering] = "running" /\ status[Nested[entering]] = "idle"
    BY <1>1, <1>6 DEF EnterTask, NestedIdle, TypeOK
  <2>2. \/ status' = [status EXCEPT ![Nested[entering]] = "queued"]
        \/ status' = [status EXCEPT ![Nested[entering]] = "refused"]
    BY <1>6 DEF EnterTask, Accept, Refuse
  <2>3. entering' = NoCmd
    BY <1>6 DEF EnterTask
  <2> QED
    BY <1>1, <2>1, <2>2, <2>3 DEF NestedIdle
<1>7. ASSUME NEW c \in Cmds, Enqueue(c) PROVE NestedIdle'
  <2>1. /\ status[c] = "idle" /\ \A d \in Cmds : Nested[d] # c
        /\ entering = NoCmd /\ entering' = NoCmd
    BY <1>7 DEF Enqueue, Roots, Quiescent
  <2>2. \/ status' = [status EXCEPT ![c] = "queued"]
        \/ status' = [status EXCEPT ![c] = "refused"]
    BY <1>7 DEF Enqueue, Accept, Refuse
  <2> QED
    BY <1>1, <2>1, <2>2 DEF NestedIdle
<1>8. ASSUME NEW c \in Cmds, TaskSettles(c) PROVE NestedIdle'
  <2>1. /\ status[c] = "running" /\ entering = NoCmd /\ entering' = NoCmd
        /\ \E o \in {"done", "failed"} : status' = [status EXCEPT ![c] = o]
    BY <1>8 DEF TaskSettles, TaskOutcomes, Quiescent
  <2> QED
    BY <1>1, <2>1 DEF NestedIdle
<1>9. ASSUME NEW l \in Lanes, ClearCommandLane(l) PROVE NestedIdle'
  <2>1. \A c \in Queued(l) : status[c] = "queued"
    BY QueueFacts DEF Queued
  <2>2. /\ entering = NoCmd /\ entering' = NoCmd
        /\ status' = [c \in Cmds |-> IF c \in Queued(l) THEN "cleared" ELSE status[c]]
    BY <1>9 DEF ClearCommandLane, Quiescent
  <2> QED
    BY <1>1, <2>1, <2>2 DEF NestedIdle
<1>10. ASSUME NEW l \in Lanes, NEW n \in 0..MaxLimit, SetCommandLaneConcurrency(l, n)
       PROVE NestedIdle'
  BY <1>2, <1>10 DEF SetCommandLaneConcurrency
<1>11. CASE MarkGatewayDraining
  BY <1>2, <1>11 DEF MarkGatewayDraining
<1>12. CASE ResetAllLanes
  BY <1>2, <1>12 DEF ResetAllLanes
<1>13. CASE WaitForActiveTasks
  BY <1>2, <1>13 DEF WaitForActiveTasks
<1>14. ASSUME NEW r \in {"drained", "timeout"}, WaitCheck(r) PROVE NestedIdle'
  BY <1>2, <1>14 DEF WaitCheck
<1>15. CASE UNCHANGED vars
  BY <1>2, <1>15 DEF vars
<1> QED
  BY <1>3, <1>4, <1>5, <1>6, <1>7, <1>8, <1>9, <1>10, <1>11, <1>12, <1>13,
     <1>14, <1>15 DEF Next, PumpStep

LEMMA QueueExactStep ==
  TypeOK /\ QueueExact /\ NestedIdle /\ [Next]_vars => QueueExact'
<1> SUFFICES ASSUME TypeOK, QueueExact, NestedIdle, [Next]_vars PROVE QueueExact'
  OBVIOUS
<1>1. ASSUME queue' = queue, status' = status PROVE QueueExact'
  BY <1>1 DEF QueueExact, Queued
<1>2. CASE DrainLane
  BY <1>1, <1>2 DEF DrainLane
<1>3. CASE PumpStart
  BY <1>3, PumpStartKeepsQueueExact
<1>4. CASE PumpEnd
  BY <1>1, <1>4 DEF PumpEnd
<1>5. CASE EnterTask
  <2>1. entering \in Cmds /\ Nested[entering] \in Cmds
    BY <1>5, NestedType DEF EnterTask, TypeOK
  <2>2. status[Nested[entering]] = "idle"
    BY <2>1, <1>5, NoCmdType DEF EnterTask, NestedIdle
  <2> QED
    BY <1>5, <2>1, <2>2, AcceptKeepsQueueExact DEF EnterTask
<1>6. ASSUME NEW c \in Cmds, Enqueue(c) PROVE QueueExact'
  BY <1>6, AcceptKeepsQueueExact DEF Enqueue
<1>7. ASSUME NEW c \in Cmds, TaskSettles(c) PROVE QueueExact'
  <2>1. /\ queue' = queue /\ status[c] = "running"
        /\ \E o \in {"done", "failed"} : status' = [status EXCEPT ![c] = o]
    BY <1>7 DEF TaskSettles, TaskOutcomes
  <2>2. /\ status'[c] # "queued"
        /\ \A d \in Cmds : d # c => status'[d] = status[d]
    BY <2>1, QueueFacts
  <2> QED
    BY <2>1, <2>2, QueueFacts, QueueExactNext
<1>8. ASSUME NEW l \in Lanes, ClearCommandLane(l) PROVE QueueExact'
  <2>1. /\ queue' = [queue EXCEPT ![l] = <<>>]
        /\ status' = [c \in Cmds |-> IF c \in Queued(l) THEN "cleared" ELSE status[c]]
    BY <1>8 DEF ClearCommandLane
  <2>2. Len(queue'[l]) = 0 /\ \A m \in Lanes : m # l => queue'[m] = queue[m]
    BY <2>1, QueueFacts
  <2>3. \A c \in Queued(l) : c \in Cmds /\ LaneOf[c] = l
    BY QueueFacts DEF Queued
  <2>4. ASSUME NEW m \in Lanes, NEW i \in 1..Len(queue'[m])
        PROVE  LaneOf[queue'[m][i]] = m /\ status'[queue'[m][i]] = "queued"
    <3>1. m # l /\ queue'[m] = queue[m]
      BY <2>2
    <3>2. /\ queue[m][i] \in Cmds /\ LaneOf[queue[m][i]] = m
          /\ status[queue[m][i]] = "queued"
      BY <3>1, QueueFacts
    <3> QED
      BY <2>1, <2>3, <3>1, <3>2
  <2>5. ASSUME NEW m \in Lanes, NEW i \in 1..Len(queue'[m]),
               NEW j \in 1..Len(queue'[m]), queue'[m][i] = queue'[m][j]
        PROVE  i = j
    <3>1. m # l /\ queue'[m] = queue[m]
      BY <2>2
    <3> QED
      BY <2>5, <3>1, QueueFacts
  <2>6. ASSUME NEW c \in Cmds, status'[c] = "queued"
        PROVE  \E i \in 1..Len(queue'[LaneOf[c]]) : queue'[LaneOf[c]][i] = c
    <3>1. c \notin Queued(l) /\ status[c] = "queued"
      BY <2>1, <2>6
    <3>2. PICK i \in 1..Len(queue[LaneOf[c]]) : queue[LaneOf[c]][i] = c
      BY <3>1, QueueFacts
    <3>3. LaneOf[c] # l
      BY <3>1, <3>2 DEF Queued
    <3> QED
      BY <2>2, <3>2, <3>3, LaneOfType
  <2> QED
    BY <2>4, <2>5, <2>6, QueueExactNext
<1>9. ASSUME NEW l \in Lanes, NEW n \in 0..MaxLimit, SetCommandLaneConcurrency(l, n)
      PROVE QueueExact'
  BY <1>1, <1>9 DEF SetCommandLaneConcurrency
<1>10. CASE MarkGatewayDraining
  BY <1>1, <1>10 DEF MarkGatewayDraining, laneVars
<1>11. CASE ResetAllLanes
  BY <1>1, <1>11 DEF ResetAllLanes
<1>12. CASE WaitForActiveTasks
  BY <1>1, <1>12 DEF WaitForActiveTasks, laneVars
<1>13. ASSUME NEW r \in {"drained", "timeout"}, WaitCheck(r) PROVE QueueExact'
  BY <1>1, <1>13 DEF WaitCheck, laneVars
<1>14. CASE UNCHANGED vars
  BY <1>1, <1>14 DEF vars, laneVars
<1> QED
  BY <1>2, <1>3, <1>4, <1>5, <1>6, <1>7, <1>8, <1>9, <1>10, <1>11, <1>12, <1>13,
     <1>14 DEF Next, PumpStep

---------------------------------------------------------------------------
(* The active ids *)

\* A task cannot have captured a generation its lane has not reached.
GenerationBound ==
  \A c \in Cmds : taskGeneration[c] <= generation[LaneOf[c]]

\* Steps that start and settle nothing keep ActiveExact.
LEMMA ActiveUntouched ==
  ASSUME ActiveExact, GenerationBound,
         UNCHANGED <<activeTaskIds, taskGeneration, generation>>,
         \A d \in Cmds : status'[d] = "running" <=> status[d] = "running"
  PROVE  ActiveExact' /\ GenerationBound'
BY DEF ActiveExact, GenerationBound, StartedSinceReset

LEMMA PumpStartActive ==
  ASSUME TypeOK, QueueExact, ActiveExact, GenerationBound, PumpStart
  PROVE  LET m == Top.lane
             c == Head(queue[m])
         IN  /\ activeTaskIds'[m] = activeTaskIds[m] \cup {c}
             /\ Cardinality(activeTaskIds[m]) < maxConcurrent[m]
             /\ ActiveExact' /\ GenerationBound'
<1>0. Top.lane \in Lanes /\ Head(queue[Top.lane]) \in Cmds
  BY PumpStartFacts
<1>. PICK m \in Lanes : m = Top.lane
  BY <1>0
<1>. PICK c \in Cmds : c = Head(queue[m])
  BY <1>0
<1>1. /\ LaneOf[c] = m /\ status[c] = "queued"
      /\ status'[c] = "running"
      /\ \A d \in Cmds : d # c => status'[d] = status[d]
  BY PumpStartFacts
<1>2. /\ activeTaskIds' = [activeTaskIds EXCEPT ![m] = @ \cup {c}]
      /\ taskGeneration' = [taskGeneration EXCEPT ![c] = generation[m]]
      /\ generation' = generation
      /\ Cardinality(activeTaskIds[m]) < maxConcurrent[m]
  BY DEF PumpStart, CanPump
<1>3. /\ activeTaskIds \in [Lanes -> SUBSET Cmds]
      /\ taskGeneration \in [Cmds -> 0..MaxReset]
      /\ generation \in [Lanes -> 0..MaxReset]
  BY DEF TypeOK
<1>4. /\ activeTaskIds'[m] = activeTaskIds[m] \cup {c}
      /\ \A l \in Lanes : l # m => activeTaskIds'[l] = activeTaskIds[l]
      /\ taskGeneration'[c] = generation[m]
      /\ \A d \in Cmds : d # c => taskGeneration'[d] = taskGeneration[d]
  BY <1>1, <1>2, <1>3
<1>5. StartedSinceReset(m)' = StartedSinceReset(m) \cup {c}
  <2>1. c \in StartedSinceReset(m)'
    BY <1>1, <1>2, <1>4 DEF StartedSinceReset
  <2>2. \A d \in Cmds : d # c => (d \in StartedSinceReset(m)' <=> d \in StartedSinceReset(m))
    BY <1>1, <1>2, <1>4 DEF StartedSinceReset
  <2> QED
    BY <1>1, <2>1, <2>2 DEF StartedSinceReset
<1>6. \A l \in Lanes : l # m => StartedSinceReset(l)' = StartedSinceReset(l)
  BY <1>1, <1>2, <1>4 DEF StartedSinceReset
<1>7. ActiveExact'
  <2>1. \A l \in Lanes : activeTaskIds[l] = StartedSinceReset(l)
    BY DEF ActiveExact
  <2>2. activeTaskIds'[m] = StartedSinceReset(m)'
    BY <1>1, <1>4, <1>5, <2>1
  <2>3. \A l \in Lanes : l # m => activeTaskIds'[l] = StartedSinceReset(l)'
    BY <1>4, <1>6, <2>1
  <2> QED
    BY <2>2, <2>3 DEF ActiveExact
<1>8. GenerationBound'
  BY <1>1, <1>2, <1>3, <1>4, LimitType, LaneOfType DEF GenerationBound
<1> QED
  BY <1>2, <1>4, <1>7, <1>8

LEMMA TaskSettlesActive ==
  ASSUME TypeOK, ActiveExact, GenerationBound, NEW c \in Cmds, TaskSettles(c)
  PROVE  ActiveExact' /\ GenerationBound'
<1>1. /\ status \in [Cmds -> Status]
      /\ activeTaskIds \in [Lanes -> SUBSET Cmds]
      /\ LaneOf[c] \in Lanes
  BY LaneOfType DEF TypeOK
<1>2. /\ \E o \in {"done", "failed"} : status' = [status EXCEPT ![c] = o]
      /\ generation' = generation /\ taskGeneration' = taskGeneration
      /\ status[c] = "running"
  BY DEF TaskSettles, TaskOutcomes
<1>3. /\ status'[c] # "running"
      /\ \A d \in Cmds : d # c => status'[d] = status[d]
  BY <1>1, <1>2
<1>4. GenerationBound'
  BY <1>2 DEF GenerationBound
<1>5. CASE taskGeneration[c] # generation[LaneOf[c]]
  <2>1. activeTaskIds' = activeTaskIds
    BY <1>5 DEF TaskSettles, CompleteTask
  <2>2. \A l \in Lanes : StartedSinceReset(l)' = StartedSinceReset(l)
    BY <1>2, <1>3, <1>5 DEF StartedSinceReset
  <2> QED
    BY <1>4, <2>1, <2>2 DEF ActiveExact
<1>6. CASE taskGeneration[c] = generation[LaneOf[c]]
  <2>1. activeTaskIds' = [activeTaskIds EXCEPT ![LaneOf[c]] = @ \ {c}]
    BY <1>6 DEF TaskSettles, CompleteTask
  <2>2. /\ activeTaskIds'[LaneOf[c]] = activeTaskIds[LaneOf[c]] \ {c}
        /\ \A l \in Lanes : l # LaneOf[c] => activeTaskIds'[l] = activeTaskIds[l]
    BY <1>1, <2>1
  <2>3. StartedSinceReset(LaneOf[c])' = StartedSinceReset(LaneOf[c]) \ {c}
    BY <1>2, <1>3 DEF StartedSinceReset
  <2>4. \A l \in Lanes : l # LaneOf[c] => StartedSinceReset(l)' = StartedSinceReset(l)
    BY <1>2, <1>3 DEF StartedSinceReset
  <2> QED
    BY <1>1, <1>4, <2>2, <2>3, <2>4 DEF ActiveExact
<1> QED
  BY <1>5, <1>6

LEMMA ResetActive ==
  ASSUME TypeOK, ActiveExact, GenerationBound, ResetAllLanes
  PROVE  ActiveExact' /\ GenerationBound'
<1>1. /\ activeTaskIds' = [l \in Lanes |-> {}]
      /\ generation' = [l \in Lanes |-> generation[l] + 1]
      /\ taskGeneration' = taskGeneration
  BY DEF ResetAllLanes
<1>2. \A c \in Cmds : /\ taskGeneration[c] \in Int
                      /\ generation[LaneOf[c]] \in Int
                      /\ generation'[LaneOf[c]] = generation[LaneOf[c]] + 1
  BY <1>1, LaneOfType, LimitType DEF TypeOK
<1>3. \A c \in Cmds : taskGeneration'[c] < generation'[LaneOf[c]]
  BY <1>1, <1>2 DEF GenerationBound
<1>4. \A c \in Cmds : taskGeneration'[c] # generation'[LaneOf[c]]
  BY <1>1, <1>2, <1>3
<1>5. \A l \in Lanes : StartedSinceReset(l)' = {}
  BY <1>4 DEF StartedSinceReset
<1>6. \A c \in Cmds : taskGeneration'[c] <= generation'[LaneOf[c]]
  BY <1>1, <1>2, <1>3
<1> QED
  BY <1>1, <1>5, <1>6 DEF ActiveExact, GenerationBound

LEMMA ActiveStep ==
  ASSUME TypeOK, QueueExact, NestedIdle, ActiveExact, GenerationBound, [Next]_vars
  PROVE  ActiveExact' /\ GenerationBound'
<1>0. status \in [Cmds -> Status]
  BY DEF TypeOK
<1>1. CASE DrainLane
  BY <1>1, ActiveUntouched DEF DrainLane
<1>2. CASE PumpStart
  BY <1>2, PumpStartActive
<1>3. CASE PumpEnd
  BY <1>3, ActiveUntouched DEF PumpEnd
<1>4. CASE EnterTask
  <2>1. entering \in Cmds /\ Nested[entering] \in Cmds
    BY <1>4, NestedType DEF EnterTask, TypeOK
  <2>2. status[Nested[entering]] = "idle"
    BY <2>1, <1>4, NoCmdType DEF EnterTask, NestedIdle
  <2>3. \/ status' = [status EXCEPT ![Nested[entering]] = "queued"]
        \/ status' = [status EXCEPT ![Nested[entering]] = "refused"]
    BY <1>4 DEF EnterTask, Accept, Refuse
  <2>4. \A d \in Cmds : status'[d] = "running" <=> status[d] = "running"
    BY <1>0, <2>1, <2>2, <2>3
  <2> QED
    BY <1>4, <2>4, ActiveUntouched DEF EnterTask
<1>5. ASSUME NEW c \in Cmds, Enqueue(c) PROVE ActiveExact' /\ GenerationBound'
  <2>1. \/ status' = [status EXCEPT ![c] = "queued"]
        \/ status' = [status EXCEPT ![c] = "refused"]
    BY <1>5 DEF Enqueue, Accept, Refuse
  <2>2. \A d \in Cmds : status'[d] = "running" <=> status[d] = "running"
    BY <1>0, <1>5, <2>1 DEF Enqueue
  <2> QED
    BY <1>5, <2>2, ActiveUntouched DEF Enqueue
<1>6. ASSUME NEW c \in Cmds, TaskSettles(c) PROVE ActiveExact' /\ GenerationBound'
  BY <1>6, TaskSettlesActive
<1>7. ASSUME NEW l \in Lanes, ClearCommandLane(l) PROVE ActiveExact' /\ GenerationBound'
  <2>1. \A c \in Queued(l) : status[c] = "queued"
    BY QueueFacts DEF Queued
  <2>2. status' = [c \in Cmds |-> IF c \in Queued(l) THEN "cleared" ELSE status[c]]
    BY <1>7 DEF ClearCommandLane
  <2>3. \A d \in Cmds : status'[d] = "running" <=> status[d] = "running"
    BY <2>1, <2>2
  <2> QED
    BY <1>7, <2>3, ActiveUntouched DEF ClearCommandLane
<1>8. ASSUME NEW l \in Lanes, NEW n \in 0..MaxLimit, SetCommandLaneConcurrency(l, n)
      PROVE ActiveExact' /\ GenerationBound'
  BY <1>8, ActiveUntouched DEF SetCommandLaneConcurrency
<1>9. CASE MarkGatewayDraining
  BY <1>9, ActiveUntouched DEF MarkGatewayDraining, laneVars
<1>10. CASE ResetAllLanes
  BY <1>10, ResetActive
<1>11. CASE WaitForActiveTasks
  BY <1>11, ActiveUntouched DEF WaitForActiveTasks, laneVars
<1>12. ASSUME NEW r \in {"drained", "timeout"}, WaitCheck(r)
       PROVE ActiveExact' /\ GenerationBound'
  BY <1>12, ActiveUntouched DEF WaitCheck, laneVars
<1>13. CASE UNCHANGED vars
  BY <1>13, ActiveUntouched DEF vars, laneVars
<1> QED
  BY <1>1, <1>2, <1>3, <1>4, <1>5, <1>6, <1>7, <1>8, <1>9, <1>10, <1>11, <1>12,
     <1>13 DEF Next, PumpStep

---------------------------------------------------------------------------
(* No lost wake-up *)

\* A lane that could start a command has a frame of its own on the stack, and
\* so has a lane whose draining flag is set: a drainLane call that finds the
\* flag set may return, because a pump of the lane is still in progress.
HasFrame(l) == \E i \in 1..Len(calls) : calls[i].lane = l
HasPump(l) == \E i \in 1..Len(calls) : calls[i] = [at |-> "pump", lane |-> l]

WakeUp ==
  /\ \A l \in Lanes : CanPump(l) => HasFrame(l)
  /\ \A l \in Lanes : draining[l] => HasPump(l)

LEMMA WakeUpGivesNoStall ==
  ASSUME TypeOK, WakeUp
  PROVE  NoStall
<1> SUFFICES ASSUME Quiescent, NEW l \in Lanes, queue[l] # <<>>
             PROVE  Cardinality(activeTaskIds[l]) >= maxConcurrent[l]
  BY DEF NoStall
<1>1. ~ CanPump(l)
  BY DEF WakeUp, HasFrame, Quiescent
<1>2. Cardinality(activeTaskIds[l]) \in Nat
  <2>1. activeTaskIds[l] \in SUBSET Cmds
    BY DEF TypeOK
  <2> QED
    BY <2>1, Finiteness, FS_Subset, FS_CardinalityType
<1>3. maxConcurrent[l] \in Nat
  BY LimitType DEF TypeOK
<1> QED
  BY <1>1, <1>2, <1>3 DEF CanPump

LEMMA PushKeeps ==
  ASSUME TypeOK, NEW f \in Frame, calls' = Append(calls, f)
  PROVE  /\ \A l \in Lanes : HasFrame(l) => HasFrame(l)'
         /\ \A l \in Lanes : HasPump(l) => HasPump(l)'
         /\ HasFrame(f.lane)'
         /\ f.at = "pump" => HasPump(f.lane)'
<1>1. /\ Len(calls') = Len(calls) + 1 /\ Len(calls) \in Nat
      /\ calls'[Len(calls')] = f
      /\ \A i \in 1..Len(calls) : calls'[i] = calls[i]
  BY PushLemma DEF TypeOK
<1>2. Len(calls') \in 1..Len(calls')
  BY <1>1
<1>3. \A i \in 1..Len(calls) : i \in 1..Len(calls')
  BY <1>1
<1>4. f = [at |-> f.at, lane |-> f.lane]
  BY DEF Frame
<1> QED
  BY <1>1, <1>2, <1>3, <1>4 DEF HasFrame, HasPump

LEMMA PopKeeps ==
  ASSUME TypeOK, calls # <<>>, calls' = Popped
  PROVE  /\ \A l \in Lanes : l # Top.lane /\ HasFrame(l) => HasFrame(l)'
         /\ \A l \in Lanes : l # Top.lane \/ Top.at = "drain" =>
              (HasPump(l) => HasPump(l)')
         /\ \A l \in Lanes : HasPump(l)' => HasFrame(l)'
<1>1. /\ Len(calls') = Len(calls) - 1 /\ Len(calls) \in Nat \ {0}
      /\ \A i \in 1..(Len(calls) - 1) : calls'[i] = calls[i]
  BY PopLemma DEF TypeOK, Popped
<1>2. \A i \in 1..Len(calls) : i \in 1..Len(calls') \/ i = Len(calls)
  BY <1>1
<1>3. \A i \in 1..Len(calls') : calls'[i] = calls[i]
  BY <1>1
<1>4. \A l : [at |-> "pump", lane |-> l].lane = l /\ [at |-> "pump", lane |-> l].at = "pump"
  OBVIOUS
<1>5. \A l \in Lanes : l # Top.lane /\ HasFrame(l) => HasFrame(l)'
  BY <1>2, <1>3 DEF HasFrame, Top
<1>6. \A l \in Lanes : l # Top.lane \/ Top.at = "drain" =>
              (HasPump(l) => HasPump(l)')
  BY <1>2, <1>3, <1>4 DEF HasPump, Top
<1>7. \A l \in Lanes : HasPump(l)' => HasFrame(l)'
  BY <1>4 DEF HasPump, HasFrame
<1> QED
  BY <1>5, <1>6, <1>7

LEMMA AcceptKeepsWakeUp ==
  ASSUME TypeOK, WakeUp, NEW c \in Cmds, Accept(c) \/ Refuse(c),
         UNCHANGED <<activeTaskIds, maxConcurrent, draining>>
  PROVE  WakeUp'
<1>1. CASE Refuse(c)
  BY <1>1 DEF Refuse, WakeUp, CanPump, HasFrame, HasPump
<1>2. CASE Accept(c)
  <2> DEFINE m == LaneOf[c]
             f == [at |-> "drain", lane |-> m]
  <2>1. m \in Lanes /\ f \in Frame
    BY LaneOfType DEF Frame
  <2>2. calls' = Append(calls, f) /\ queue' = [queue EXCEPT ![m] = Append(@, c)]
    BY <1>2 DEF Accept
  <2>3. \A l \in Lanes : l # m => queue'[l] = queue[l]
    BY <2>2 DEF TypeOK
  <2>4. /\ \A l \in Lanes : HasFrame(l) => HasFrame(l)'
        /\ \A l \in Lanes : HasPump(l) => HasPump(l)'
        /\ HasFrame(m)'
    <3>1. f.lane = m
      OBVIOUS
    <3> HIDE DEF f
    <3> QED
      BY <2>1, <2>2, <3>1, PushKeeps
  <2> HIDE DEF m, f
  <2> QED
    BY <2>3, <2>4 DEF WakeUp, CanPump
<1> QED
  BY <1>1, <1>2

LEMMA WakeUpStep ==
  ASSUME TypeOK, WakeUp, [Next]_vars
  PROVE  WakeUp'
<1>1. ASSUME UNCHANGED <<queue, activeTaskIds, maxConcurrent, draining, calls>>
      PROVE  WakeUp'
  BY <1>1 DEF WakeUp, CanPump, HasFrame, HasPump
<1>2. CASE DrainLane
  <2>1. /\ calls # <<>> /\ Top.at = "drain" /\ Top.lane \in Lanes
        /\ Popped \in Seq(Frame)
        /\ UNCHANGED <<queue, activeTaskIds, maxConcurrent>>
    BY <1>2, StackType DEF DrainLane, InCall
  <2>2. CASE draining[Top.lane]
    <3>1. calls' = Popped /\ draining' = draining
      BY <1>2, <2>2 DEF DrainLane
    <3> QED
      BY <2>1, <2>2, <3>1, PopKeeps DEF WakeUp, CanPump
  <2>3. CASE ~ draining[Top.lane]
    <3>. PICK m \in Lanes : m = Top.lane
      BY <2>1
    <3> DEFINE f == [at |-> "pump", lane |-> m]
    <3>1. /\ calls' = Append(Popped, f)
          /\ draining' = [draining EXCEPT ![m] = TRUE]
      BY <1>2, <2>3 DEF DrainLane
    <3>2. /\ Len(Popped) = Len(calls) - 1 /\ Len(calls) \in Nat \ {0}
          /\ \A i \in 1..(Len(calls) - 1) : Popped[i] = calls[i]
      BY <2>1, PopLemma DEF TypeOK, Popped
    <3>3. /\ Len(calls') = Len(calls)
          /\ calls'[Len(calls)] = f
          /\ \A i \in 1..(Len(calls) - 1) : calls'[i] = calls[i]
      <4>1. f \in Frame
        BY DEF Frame
      <4> HIDE DEF f
      <4> QED
        BY <2>1, <3>1, <3>2, <4>1, PushLemma
    <3>4. \A i \in 1..Len(calls) : i \in 1..(Len(calls) - 1) \/ i = Len(calls)
      BY <3>2
    <3>5. Len(calls) \in 1..Len(calls')
      BY <3>2, <3>3
    <3>6. \A l \in Lanes : HasFrame(l) => HasFrame(l)'
      BY <3>3, <3>4, <3>5 DEF HasFrame, Top
    <3>7. HasPump(m)'
      BY <3>3, <3>5 DEF HasPump
    <3>8. \A l \in Lanes : l # m /\ HasPump(l) => HasPump(l)'
      BY <2>1, <3>3, <3>4 DEF HasPump, Top
    <3>9. \A l \in Lanes : l # m => draining'[l] = draining[l]
      BY <3>1 DEF TypeOK
    <3> HIDE DEF f
    <3>10. \A l \in Lanes : draining'[l] => HasPump(l)'
      BY <3>7, <3>8, <3>9 DEF WakeUp
    <3>11. \A l \in Lanes : CanPump(l)' => HasFrame(l)'
      BY <2>1, <3>6 DEF WakeUp, CanPump
    <3> QED
      BY <3>10, <3>11 DEF WakeUp
  <2> QED
    BY <2>2, <2>3
<1>3. CASE PumpStart
  <2>1. /\ calls # <<>> /\ Top.lane \in Lanes
        /\ UNCHANGED <<maxConcurrent, draining, calls>>
        /\ \A l \in Lanes : l # Top.lane =>
             queue'[l] = queue[l] /\ activeTaskIds'[l] = activeTaskIds[l]
    <3>1. calls # <<>> /\ Top.lane \in Lanes
      BY <1>3, StackType DEF PumpStart, InCall
    <3> QED
      BY <1>3, <3>1 DEF PumpStart, TypeOK
  <2>2. HasFrame(Top.lane)
    BY <2>1, PopLemma DEF HasFrame, Top, TypeOK
  <2> QED
    BY <2>1, <2>2 DEF WakeUp, CanPump, HasFrame, HasPump
<1>4. CASE PumpEnd
  <2>1. /\ calls # <<>> /\ Top.lane \in Lanes /\ calls' = Popped
        /\ ~ CanPump(Top.lane)
        /\ UNCHANGED <<queue, activeTaskIds, maxConcurrent>>
        /\ draining' = [draining EXCEPT ![Top.lane] = FALSE]
    BY <1>4, StackType DEF PumpEnd, InCall
  <2>2. /\ ~ draining'[Top.lane]
        /\ \A l \in Lanes : l # Top.lane => draining'[l] = draining[l]
    BY <2>1 DEF TypeOK
  <2>3. \A l \in Lanes : CanPump(l)' <=> CanPump(l)
    BY <2>1 DEF CanPump
  <2> QED
    BY <2>1, <2>2, <2>3, PopKeeps DEF WakeUp
<1>5. CASE EnterTask
  <2>1. entering \in Cmds /\ Nested[entering] \in Cmds
    BY <1>5, NestedType DEF EnterTask, TypeOK
  <2> QED
    BY <1>5, <2>1, AcceptKeepsWakeUp DEF EnterTask
<1>6. ASSUME NEW c \in Cmds, Enqueue(c) PROVE WakeUp'
  BY <1>6, AcceptKeepsWakeUp DEF Enqueue
<1>7. ASSUME NEW c \in Cmds, TaskSettles(c) PROVE WakeUp'
  <2>1. UNCHANGED <<queue, maxConcurrent, draining>>
    BY <1>7 DEF TaskSettles
  <2>2. CASE taskGeneration[c] # generation[LaneOf[c]]
    BY <1>1, <1>7, <2>1, <2>2 DEF TaskSettles, CompleteTask
  <2>3. CASE taskGeneration[c] = generation[LaneOf[c]]
    <3> DEFINE m == LaneOf[c]
               f == [at |-> "pump", lane |-> m]
    <3>1. /\ activeTaskIds' = [activeTaskIds EXCEPT ![m] = @ \ {c}]
          /\ calls' = Append(calls, f)
      BY <1>7, <2>3 DEF TaskSettles, CompleteTask
    <3>2. m \in Lanes /\ f \in Frame /\ f.lane = m
      BY LaneOfType DEF Frame
    <3>3. \A l \in Lanes : l # m => activeTaskIds'[l] = activeTaskIds[l]
      BY <3>1 DEF TypeOK
    <3> HIDE DEF m, f
    <3> QED
      BY <2>1, <3>1, <3>2, <3>3, PushKeeps DEF WakeUp, CanPump
  <2> QED
    BY <2>2, <2>3
<1>8. ASSUME NEW l \in Lanes, ClearCommandLane(l) PROVE WakeUp'
  <2>1. /\ UNCHANGED <<activeTaskIds, maxConcurrent, draining, calls>>
        /\ queue'[l] = <<>>
        /\ \A m \in Lanes : m # l => queue'[m] = queue[m]
    BY <1>8 DEF ClearCommandLane, TypeOK
  <2> QED
    BY <2>1 DEF WakeUp, CanPump, HasFrame, HasPump
<1>9. ASSUME NEW l \in Lanes, NEW n \in 0..MaxLimit, SetCommandLaneConcurrency(l, n)
      PROVE WakeUp'
  <2> DEFINE f == [at |-> "drain", lane |-> l]
  <2>1. /\ UNCHANGED <<queue, activeTaskIds, draining>>
        /\ calls' = Append(calls, f)
        /\ \A m \in Lanes : m # l => maxConcurrent'[m] = maxConcurrent[m]
    BY <1>9 DEF SetCommandLaneConcurrency, TypeOK
  <2>2. f \in Frame /\ f.lane = l
    BY DEF Frame
  <2> HIDE DEF f
  <2> QED
    BY <2>1, <2>2, PushKeeps DEF WakeUp, CanPump
<1>10. CASE MarkGatewayDraining
  BY <1>1, <1>10 DEF MarkGatewayDraining, laneVars
<1>11. CASE ResetAllLanes
  <2> DEFINE D == {l \in Lanes : queue[l] # <<>>}
  <2>1. queue' = queue /\ draining' = [l \in Lanes |-> FALSE]
    BY <1>11 DEF ResetAllLanes
  <2>2. PICK s \in DrainOrders(D) :
          calls' = [i \in DOMAIN s |-> [at |-> "drain", lane |-> s[i]]]
    BY <1>11 DEF ResetAllLanes
  <2>3. D \in SUBSET Lanes
    OBVIOUS
  <2>4. \A l \in D : HasFrame(l)'
    <3> HIDE DEF D
    <3> QED
      BY <2>2, <2>3, ResetFrames DEF HasFrame
  <2> QED
    BY <2>1, <2>4 DEF WakeUp, CanPump
<1>12. CASE WaitForActiveTasks
  BY <1>1, <1>12 DEF WaitForActiveTasks, laneVars
<1>13. ASSUME NEW r \in {"drained", "timeout"}, WaitCheck(r) PROVE WakeUp'
  BY <1>1, <1>13 DEF WaitCheck, laneVars
<1>14. CASE UNCHANGED vars
  BY <1>1, <1>14 DEF vars, laneVars
<1> QED
  BY <1>2, <1>3, <1>4, <1>5, <1>6, <1>7, <1>8, <1>9, <1>10, <1>11, <1>12, <1>13,
     <1>14 DEF Next, PumpStep

---------------------------------------------------------------------------
(* The theorems *)

IInv ==
  TypeOK /\ QueueExact /\ NestedIdle /\ ActiveExact /\ GenerationBound /\ WakeUp

LEMMA InitIInv == Init => IInv
<1> SUFFICES ASSUME Init PROVE IInv
  OBVIOUS
<1>1. TypeOK
  BY InitType
<1>2. /\ \A l \in Lanes : queue[l] = <<>> /\ activeTaskIds[l] = {} /\ ~ draining[l]
      /\ \A c \in Cmds : status[c] = "idle" /\ taskGeneration[c] = 0
      /\ \A l \in Lanes : generation[l] = 0
      /\ entering = NoCmd
  BY DEF Init
<1>3. \A l \in Lanes : Len(queue[l]) = 0
  BY <1>2
<1>4. QueueExact
  BY <1>2, <1>3 DEF QueueExact
<1>5. NestedIdle
  BY <1>2, NestedType DEF NestedIdle
<1>6. ActiveExact /\ GenerationBound
  BY <1>2, LaneOfType DEF ActiveExact, GenerationBound, StartedSinceReset
<1>7. WakeUp
  BY <1>2 DEF WakeUp, CanPump
<1> QED
  BY <1>1, <1>4, <1>5, <1>6, <1>7 DEF IInv

LEMMA NextIInv == IInv /\ [Next]_vars => IInv'
BY NextType, QueueExactStep, NestedIdleNext, ActiveStep, WakeUpStep DEF IInv

LEMMA IInvHolds == Spec => []IInv
BY InitIInv, NextIInv, PTL DEF Spec

\* Type correctness of the lanes.
THEOREM TypeCorrect == Spec => []TypeOK
<1>1. IInv => TypeOK
  BY DEF IInv
<1> QED
  BY <1>1, IInvHolds, PTL

\* No accepted command is lost or duplicated by the queues: it is in the queue
\* of its lane exactly once until it starts or is cleared.
THEOREM QueuesExact == Spec => []QueueExact
<1>1. IInv => QueueExact
  BY DEF IInv
<1> QED
  BY <1>1, IInvHolds, PTL

\* No slot is leaked or freed twice: the active ids of a lane are the commands
\* of its current generation that execute.
THEOREM ActiveIdsExact == Spec => []ActiveExact
<1>1. IInv => ActiveExact
  BY DEF IInv
<1> QED
  BY <1>1, IInvHolds, PTL

\* Queues, active ids and the status of the commands tell the same, for every
\* number of lanes and commands.
THEOREM BookkeepingExact == Spec => []Bookkeeping
<1>1. IInv => Bookkeeping
  BY DEF IInv, Bookkeeping
<1> QED
  BY <1>1, IInvHolds, PTL

\* No lost wake-up: between calls, a lane with queued commands is full.
THEOREM NoLostWakeUp == Spec => []NoStall
<1>1. IInv => NoStall
  BY WakeUpGivesNoStall DEF IInv
<1> QED
  BY <1>1, IInvHolds, PTL

---------------------------------------------------------------------------
(* Order of arrival *)

Suffix(q, a) ==
  /\ Len(q) <= Len(a)
  /\ \A i \in 1..Len(q) : q[i] = a[Len(a) - Len(q) + i]

LEMMA SuffixPush ==
  ASSUME NEW S, NEW q \in Seq(S), NEW a \in Seq(S), NEW c \in S, Suffix(q, a)
  PROVE  Suffix(Append(q, c), Append(a, c))
<1>1. /\ Len(Append(q, c)) = Len(q) + 1 /\ Len(q) \in Nat
      /\ Append(q, c)[Len(q) + 1] = c
      /\ \A i \in 1..Len(q) : Append(q, c)[i] = q[i]
  BY PushLemma
<1>2. /\ Len(Append(a, c)) = Len(a) + 1 /\ Len(a) \in Nat
      /\ Append(a, c)[Len(a) + 1] = c
      /\ \A i \in 1..Len(a) : Append(a, c)[i] = a[i]
  BY PushLemma
<1> DEFINE r == Append(q, c)
           b == Append(a, c)
<1> HIDE DEF r, b
<1>3. /\ Len(r) = Len(q) + 1 /\ r[Len(q) + 1] = c
      /\ \A i \in 1..Len(q) : r[i] = q[i]
      /\ Len(b) = Len(a) + 1 /\ b[Len(a) + 1] = c
      /\ \A i \in 1..Len(a) : b[i] = a[i]
  BY <1>1, <1>2 DEF r, b
<1>4. Len(b) - Len(r) = Len(a) - Len(q)
  BY <1>1, <1>2, <1>3
<1>5. ASSUME NEW i \in 1..Len(r) PROVE r[i] = b[Len(b) - Len(r) + i]
  <2>1. CASE i = Len(q) + 1
    BY <1>1, <1>2, <1>3, <1>4, <2>1
  <2>2. CASE i # Len(q) + 1
    <3>1. i \in 1..Len(q) /\ Len(a) - Len(q) + i \in 1..Len(a)
      BY <1>1, <1>2, <1>3, <2>2 DEF Suffix
    <3> QED
      BY <1>3, <1>4, <3>1 DEF Suffix
  <2> QED
    BY <2>1, <2>2
<1>6. Len(r) <= Len(b)
  BY <1>1, <1>2, <1>3 DEF Suffix
<1> QED
  BY <1>5, <1>6 DEF Suffix, r, b

LEMMA SuffixShift ==
  ASSUME NEW S, NEW q \in Seq(S), NEW a \in Seq(S), q # <<>>, Suffix(q, a)
  PROVE  Suffix(Tail(q), a)
<1>1. /\ Len(q) \in Nat \ {0} /\ Len(Tail(q)) = Len(q) - 1 /\ Len(a) \in Nat
      /\ \A i \in 1..Len(Tail(q)) : Tail(q)[i] = q[i + 1]
  BY ShiftLemma
<1> DEFINE t == Tail(q)
<1> HIDE DEF t
<1>2. Len(t) = Len(q) - 1 /\ \A i \in 1..Len(t) : t[i] = q[i + 1]
  BY <1>1 DEF t
<1>3. ASSUME NEW i \in 1..Len(t) PROVE t[i] = a[Len(a) - Len(t) + i]
  <2>1. i + 1 \in 1..Len(q) /\ Len(a) - Len(q) + (i + 1) = Len(a) - Len(t) + i
    BY <1>1, <1>2
  <2> QED
    BY <1>2, <2>1 DEF Suffix
<1>4. Len(t) <= Len(a)
  BY <1>1, <1>2 DEF Suffix
<1> QED
  BY <1>3, <1>4 DEF Suffix, t

Distinct(a) == \A m, n \in 1..Len(a) : a[m] = a[n] => m = n

\* What comes after a member of the suffix is in the suffix.
LEMMA SuffixLater ==
  ASSUME NEW q, NEW a, Len(q) \in Nat, Len(a) \in Nat, Suffix(q, a), Distinct(a),
         NEW k \in 1..Len(q), NEW i \in 1..Len(a), NEW j \in 1..Len(a), i < j,
         q[k] = a[i]
  PROVE  \E n \in 1..Len(q) : q[n] = a[j]
<1>1. Len(q) \in Nat /\ Len(a) \in Nat /\ Len(q) <= Len(a)
  BY DEF Suffix
<1>2. PICK gap \in Nat : gap = Len(a) - Len(q)
  BY <1>1
<1>3. a[gap + k] = a[i] /\ gap + k \in 1..Len(a)
  BY <1>1, <1>2 DEF Suffix
<1>4. gap + k = i
  BY <1>3 DEF Distinct
<1>5. PICK n \in 1..Len(q) : gap + n = j
  <2>1. j - gap \in 1..Len(q) /\ gap + (j - gap) = j
    BY <1>1, <1>2, <1>4
  <2> QED
    BY <2>1
<1>6. q[n] = a[j]
  BY <1>1, <1>2, <1>5 DEF Suffix
<1> QED
  BY <1>6

\* A command arrives at most once, and what is queued are the last arrivals.
ArrivedOnce ==
  \A l \in Lanes :
    /\ \A i \in 1..Len(arrival[l]) :
         status[arrival[l][i]] # "idle" /\ LaneOf[arrival[l][i]] = l
    /\ Distinct(arrival[l])

LastArrivals == \A l \in Lanes : Suffix(queue[l], arrival[l])

\* What a step may do to queues and arrivals.
LEMMA StepShapes ==
  ASSUME IInv, [Next]_vars
  PROVE  \/ /\ UNCHANGED <<queue, arrival>>
            /\ \A c \in Cmds : status'[c] = "idle" => status[c] = "idle"
         \/ \E c \in Cmds : status[c] = "idle" /\ Accept(c)
         \/ PumpStart /\ UNCHANGED arrival
         \/ \E l \in Lanes : ClearCommandLane(l)
<1> USE DEF IInv
<1>0. status \in [Cmds -> Status]
  BY DEF TypeOK
<1>1. ASSUME NEW c \in Cmds, Refuse(c)
      PROVE  /\ UNCHANGED <<queue, arrival>>
             /\ \A d \in Cmds : status'[d] = "idle" => status[d] = "idle"
  BY <1>0, <1>1 DEF Refuse
<1>2. CASE EnterTask
  <2>1. Nested[entering] \in Cmds /\ status[Nested[entering]] = "idle"
    BY <1>2, NoCmdType, NestedType DEF EnterTask, TypeOK, NestedIdle
  <2> QED
    BY <1>1, <1>2, <2>1 DEF EnterTask
<1>3. CASE \E c \in Cmds : Enqueue(c)
  BY <1>1, <1>3 DEF Enqueue
<1>4. CASE PumpStart
  BY <1>4 DEF PumpStart
<1>5. CASE \E c \in Cmds : TaskSettles(c)
  BY <1>0, <1>5 DEF TaskSettles, TaskOutcomes
<1>6. CASE DrainLane \/ PumpEnd \/ MarkGatewayDraining \/ ResetAllLanes
  BY <1>6 DEF DrainLane, PumpEnd, MarkGatewayDraining, ResetAllLanes, laneVars
<1>7. CASE \E l \in Lanes, n \in 0..MaxLimit : SetCommandLaneConcurrency(l, n)
  BY <1>7 DEF SetCommandLaneConcurrency
<1>8. CASE \/ WaitForActiveTasks \/ UNCHANGED vars
           \/ \E r \in {"drained", "timeout"} : WaitCheck(r)
  BY <1>8 DEF WaitForActiveTasks, WaitCheck, laneVars, vars
<1> QED
  BY <1>2, <1>3, <1>4, <1>5, <1>6, <1>7, <1>8 DEF Next, PumpStep

LEMMA ArrivalTypes ==
  ASSUME TypeOK
  PROVE  /\ queue \in [Lanes -> Seq(Cmds)] /\ arrival \in [Lanes -> Seq(Cmds)]
         /\ status \in [Cmds -> Status]
         /\ \A l \in Lanes : /\ queue[l] \in Seq(Cmds) /\ arrival[l] \in Seq(Cmds)
                             /\ Len(arrival[l]) \in Nat
                             /\ \A i \in 1..Len(arrival[l]) : arrival[l][i] \in Cmds
<1>1. /\ queue \in [Lanes -> Seq(Cmds)] /\ arrival \in [Lanes -> Seq(Cmds)]
      /\ status \in [Cmds -> Status]
  BY DEF TypeOK
<1> QED
  BY <1>1, ElementOfSeq

LEMMA ArrivedOnceStep == IInv /\ ArrivedOnce /\ [Next]_vars => ArrivedOnce'
<1> SUFFICES ASSUME IInv, ArrivedOnce, [Next]_vars PROVE ArrivedOnce'
  OBVIOUS
<1>1. ASSUME UNCHANGED arrival,
             \A c \in Cmds : status'[c] = "idle" => status[c] = "idle"
      PROVE  ArrivedOnce'
  BY <1>1, ArrivalTypes DEF IInv, ArrivedOnce, Distinct
<1>2. ASSUME NEW c \in Cmds, status[c] = "idle", Accept(c) PROVE ArrivedOnce'
  <2> DEFINE m == LaneOf[c]
             b == Append(arrival[m], c)
  <2>1. /\ arrival' = [arrival EXCEPT ![m] = b]
        /\ status' = [status EXCEPT ![c] = "queued"]
    BY <1>2 DEF Accept
  <2>2. m \in Lanes /\ arrival[m] \in Seq(Cmds) /\ Len(arrival[m]) \in Nat
    BY LaneOfType, ArrivalTypes DEF IInv
  <2>3. /\ Len(b) = Len(arrival[m]) + 1 /\ b[Len(arrival[m]) + 1] = c
        /\ \A i \in 1..Len(arrival[m]) : b[i] = arrival[m][i]
    BY <2>2, PushLemma
  <2> HIDE DEF m, b
  <2>4. arrival'[m] = b /\ \A l \in Lanes : l # m => arrival'[l] = arrival[l]
    BY <2>1, <2>2, ArrivalTypes DEF IInv
  <2>5. \A d \in Cmds : status'[d] = "idle" => status[d] = "idle" /\ d # c
    BY <2>1, ArrivalTypes DEF IInv
  <2>6. \A i \in 1..Len(b) : i \in 1..Len(arrival[m]) \/ i = Len(arrival[m]) + 1
    BY <2>2, <2>3
  <2>7. \A i \in 1..Len(arrival[m]) : arrival[m][i] # c /\ arrival[m][i] \in Cmds
    BY <1>2, <2>2, ArrivalTypes DEF ArrivedOnce, Distinct, IInv
  <2>8. \A i \in 1..Len(b) : status'[b[i]] # "idle" /\ LaneOf[b[i]] = m
    <3>1. status'[c] # "idle" /\ LaneOf[c] = m
      BY <2>5 DEF m
    <3> QED
      BY <1>2, <2>2, <2>3, <2>5, <2>6, <2>7, <3>1 DEF ArrivedOnce, Distinct
  <2>9. \A i, j \in 1..Len(b) : b[i] = b[j] => i = j
    BY <2>2, <2>3, <2>6, <2>7 DEF ArrivedOnce, Distinct
  <2>10. ASSUME NEW l \in Lanes, l # m
         PROVE  /\ \A i \in 1..Len(arrival'[l]) :
                     status'[arrival'[l][i]] # "idle" /\ LaneOf[arrival'[l][i]] = l
                /\ \A i, j \in 1..Len(arrival'[l]) : arrival'[l][i] = arrival'[l][j] => i = j
    BY <2>4, <2>5, <2>10, ArrivalTypes DEF ArrivedOnce, Distinct, IInv
  <2> QED
    BY <2>4, <2>8, <2>9, <2>10 DEF ArrivedOnce, Distinct
<1>3. ASSUME PumpStart, UNCHANGED arrival PROVE ArrivedOnce'
  BY <1>1, <1>3, PumpStartFacts DEF IInv
<1>4. ASSUME NEW l \in Lanes, ClearCommandLane(l) PROVE ArrivedOnce'
  <2>1. \A c \in Cmds : status'[c] = "idle" => status[c] = "idle"
    BY <1>4 DEF ClearCommandLane
  <2> QED
    BY <1>1, <1>4, <2>1 DEF ClearCommandLane
<1> QED
  BY <1>1, <1>2, <1>3, <1>4, StepShapes

LEMMA LastArrivalsStep == IInv /\ LastArrivals /\ [Next]_vars => LastArrivals'
<1> SUFFICES ASSUME IInv, LastArrivals, [Next]_vars PROVE LastArrivals'
  OBVIOUS
<1> USE ArrivalTypes DEF IInv
<1>1. ASSUME UNCHANGED <<queue, arrival>> PROVE LastArrivals'
  BY <1>1 DEF LastArrivals
<1>2. ASSUME NEW c \in Cmds, Accept(c) PROVE LastArrivals'
  <2>1. /\ queue' = [queue EXCEPT ![LaneOf[c]] = Append(queue[LaneOf[c]], c)]
        /\ arrival' = [arrival EXCEPT ![LaneOf[c]] = Append(arrival[LaneOf[c]], c)]
    BY <1>2 DEF Accept
  <2>2. Suffix(Append(queue[LaneOf[c]], c), Append(arrival[LaneOf[c]], c))
    BY LaneOfType, SuffixPush DEF LastArrivals
  <2> QED
    BY <2>1, <2>2, LaneOfType DEF LastArrivals
<1>3. ASSUME PumpStart, UNCHANGED arrival PROVE LastArrivals'
  <2> DEFINE m == Top.lane
  <2>1. m \in Lanes /\ queue[m] # <<>> /\ queue' = [queue EXCEPT ![m] = Tail(queue[m])]
    BY <1>3, StackType DEF PumpStart, InCall, CanPump
  <2> HIDE DEF m
  <2>2. Suffix(Tail(queue[m]), arrival[m])
    BY <2>1, SuffixShift DEF LastArrivals
  <2> QED
    BY <1>3, <2>1, <2>2 DEF LastArrivals
<1>4. ASSUME NEW l \in Lanes, ClearCommandLane(l) PROVE LastArrivals'
  <2>1. queue' = [queue EXCEPT ![l] = <<>>] /\ UNCHANGED arrival
    BY <1>4 DEF ClearCommandLane
  <2>2. Suffix(<<>>, arrival[l])
    <3>1. Len(<<>>) = 0 /\ Len(arrival[l]) \in Nat
      OBVIOUS
    <3> QED
      BY <3>1 DEF Suffix
  <2> QED
    BY <2>1, <2>2 DEF LastArrivals
<1> QED
  BY <1>1, <1>2, <1>3, <1>4, StepShapes

\* Commands leave the queue of their lane in the order they were accepted,
\* whatever is cleared, reset or settled in between.
THEOREM ArrivalOrder == Spec => []FifoOrder
<1>1. ASSUME IInv, ArrivedOnce, LastArrivals PROVE FifoOrder
  <2> SUFFICES ASSUME NEW l \in Lanes, NEW i \in 1..Len(arrival[l]),
                      NEW j \in 1..Len(arrival[l]), i < j,
                      status[arrival[l][i]] = "queued"
               PROVE  status[arrival[l][j]] = "queued"
    BY DEF FifoOrder
  <2>1. arrival[l][i] \in Cmds /\ LaneOf[arrival[l][i]] = l
    BY <1>1, ArrivalTypes DEF IInv, ArrivedOnce
  <2>2. PICK k \in 1..Len(queue[l]) : queue[l][k] = arrival[l][i]
    <3>1. \A c \in Cmds : status[c] = "queued" =>
            \E n \in 1..Len(queue[LaneOf[c]]) : queue[LaneOf[c]][n] = c
      BY <1>1, QueueFacts, Zenon DEF IInv
    <3> QED
      BY <2>1, <3>1, Zenon
  <2>3. /\ Len(queue[l]) \in Nat /\ Len(arrival[l]) \in Nat
        /\ Suffix(queue[l], arrival[l])
    BY <1>1, ArrivalTypes, QueueFacts DEF IInv, LastArrivals
  <2>4. Distinct(arrival[l])
    BY <1>1 DEF ArrivedOnce, Distinct
  <2>5. \E n \in 1..Len(queue[l]) : queue[l][n] = arrival[l][j]
    <3> DEFINE q == queue[l]
               a == arrival[l]
    <3>1. /\ Len(q) \in Nat /\ Len(a) \in Nat /\ Suffix(q, a) /\ Distinct(a)
          /\ k \in 1..Len(q) /\ i \in 1..Len(a) /\ j \in 1..Len(a)
          /\ i < j /\ q[k] = a[i]
      BY <2>2, <2>3, <2>4, Zenon
    <3> SUFFICES \E n \in 1..Len(q) : q[n] = a[j]
      OBVIOUS
    <3> HIDE DEF q, a
    <3> QED
      BY <3>1, SuffixLater
  <2> QED
    BY <1>1, <2>5, QueueFacts DEF IInv
<1>2. Init => ArrivedOnce /\ LastArrivals
  BY DEF Init, ArrivedOnce, Distinct, LastArrivals, Suffix
<1> QED
  BY IInvHolds, ArrivedOnceStep, LastArrivalsStep, <1>1, <1>2, PTL DEF Spec

---------------------------------------------------------------------------
(* Waiting for the active tasks *)

\* The tasks of the snapshot have started, and a report that they are drained
\* stays true: what was stale stays stale, what has settled stays settled.
SnapshotStarted == \A c \in waiter.activeAtStart : status[c] \notin {"idle", "queued"}
WaiterInv == SnapshotStarted /\ DrainedMeansFinished

\* What becomes of a command that has started.
LEMMA StartedStays ==
  ASSUME IInv, [Next]_vars, NEW c \in Cmds, status[c] \notin {"idle", "queued"}
  PROVE  /\ status'[c] \notin {"idle", "queued"}
         /\ status'[c] = "running" => status[c] = "running"
         /\ taskGeneration'[c] = taskGeneration[c]
         /\ \/ generation'[LaneOf[c]] = generation[LaneOf[c]]
            \/ generation'[LaneOf[c]] = generation[LaneOf[c]] + 1
<1> DEFINE Goal == /\ status'[c] \notin {"idle", "queued"}
                   /\ status'[c] = "running" => status[c] = "running"
                   /\ taskGeneration'[c] = taskGeneration[c]
                   /\ \/ generation'[LaneOf[c]] = generation[LaneOf[c]]
                      \/ generation'[LaneOf[c]] = generation[LaneOf[c]] + 1
<1> USE DEF IInv
<1>0. status \in [Cmds -> Status] /\ taskGeneration \in [Cmds -> 0..MaxReset]
  BY DEF TypeOK
<1>1. ASSUME NEW d \in Cmds, status[d] = "idle", Accept(d) \/ Refuse(d),
             UNCHANGED <<taskGeneration, generation>>
      PROVE  Goal
  BY <1>0, <1>1 DEF Accept, Refuse
<1>2. CASE EnterTask
  <2>1. Nested[entering] \in Cmds /\ status[Nested[entering]] = "idle"
    BY <1>2, NoCmdType, NestedType DEF EnterTask, TypeOK, NestedIdle
  <2> QED
    BY <1>1, <1>2, <2>1 DEF EnterTask
<1>3. CASE \E d \in Cmds : Enqueue(d)
  BY <1>1, <1>3 DEF Enqueue
<1>4. CASE PumpStart
  <2>1. Head(queue[Top.lane]) # c /\ status'[c] = status[c]
    BY <1>4, PumpStartFacts
  <2>2. taskGeneration' = [taskGeneration EXCEPT ![Head(queue[Top.lane])] = generation[Top.lane]]
    BY <1>4 DEF PumpStart
  <2>3. generation' = generation /\ taskGeneration'[c] = taskGeneration[c]
    BY <1>0, <1>4, <2>1, <2>2 DEF PumpStart
  <2> QED
    BY <2>1, <2>3
<1>5. CASE \E d \in Cmds : TaskSettles(d)
  BY <1>0, <1>5 DEF TaskSettles, TaskOutcomes
<1>6. ASSUME NEW l \in Lanes, ClearCommandLane(l) PROVE Goal
  BY <1>0, <1>6 DEF ClearCommandLane
<1>7. CASE ResetAllLanes
  BY <1>7, LaneOfType DEF ResetAllLanes
<1>8. CASE DrainLane \/ PumpEnd \/ MarkGatewayDraining \/ WaitForActiveTasks \/ UNCHANGED vars
  BY <1>8 DEF DrainLane, PumpEnd, MarkGatewayDraining, WaitForActiveTasks, laneVars, vars
<1>9. CASE \/ \E l \in Lanes, n \in 0..MaxLimit : SetCommandLaneConcurrency(l, n)
           \/ \E r \in {"drained", "timeout"} : WaitCheck(r)
  BY <1>9 DEF SetCommandLaneConcurrency, WaitCheck, laneVars
<1> QED
  BY <1>2, <1>3, <1>4, <1>5, <1>6, <1>7, <1>8, <1>9 DEF Next, PumpStep

\* The waiter changes in its own two steps only.
LEMMA WaiterKept ==
  ASSUME [Next]_vars, ~WaitForActiveTasks, \A r \in {"drained", "timeout"} : ~WaitCheck(r)
  PROVE  waiter' = waiter
<1>1. CASE PumpStep \/ MarkGatewayDraining \/ ResetAllLanes \/ UNCHANGED vars
  BY <1>1 DEF PumpStep, DrainLane, PumpStart, PumpEnd, EnterTask, MarkGatewayDraining,
              ResetAllLanes, vars
<1>2. CASE \E c \in Cmds : Enqueue(c) \/ TaskSettles(c)
  BY <1>2 DEF Enqueue, TaskSettles
<1>3. CASE \E l \in Lanes : ClearCommandLane(l)
                            \/ \E n \in 0..MaxLimit : SetCommandLaneConcurrency(l, n)
  BY <1>3 DEF ClearCommandLane, SetCommandLaneConcurrency
<1> QED
  BY <1>1, <1>2, <1>3 DEF Next

\* A task that is active has started, and is not stale.
LEMMA ActiveStarted ==
  ASSUME IInv, NEW c \in AllActive
  PROVE  c \in Cmds /\ status[c] = "running" /\ taskGeneration[c] = generation[LaneOf[c]]
BY DEF IInv, AllActive, ActiveExact, StartedSinceReset

\* The facts about the waiter survive every step: a task of its snapshot stops
\* being active by settling or by a reset, never by returning to the queue.
LEMMA WaiterStep ==
  ASSUME IInv, WaiterInv, [Next]_vars
  PROVE  WaiterInv'
<1>0. /\ waiter \in [state : {"none", "waiting", "drained", "timeout"},
                     activeAtStart : SUBSET Cmds]
      /\ taskGeneration \in [Cmds -> 0..MaxReset] /\ generation \in [Lanes -> 0..MaxReset]
      /\ \A c \in Cmds : taskGeneration[c] <= generation[LaneOf[c]] /\ LaneOf[c] \in Lanes
  BY LaneOfType DEF IInv, TypeOK, GenerationBound
<1>1. CASE WaitForActiveTasks
  <2>1. waiter' = WaitFor(AllActive) /\ status' = status
    BY <1>1 DEF WaitForActiveTasks
  <2>2. SnapshotStarted'
    BY <2>1, ActiveStarted DEF SnapshotStarted, WaitFor
  <2>3. DrainedMeansFinished'
    BY <2>1 DEF DrainedMeansFinished, WaitFor
  <2> QED
    BY <2>2, <2>3 DEF WaiterInv
<1>2. ASSUME NEW r \in {"drained", "timeout"}, WaitCheck(r) PROVE WaiterInv'
  <2>1. /\ waiter' = [waiter EXCEPT !.state = r]
        /\ UNCHANGED <<status, taskGeneration, generation>>
        /\ r = "drained" => waiter.activeAtStart \cap AllActive = {}
    BY <1>2 DEF WaitCheck, laneVars
  <2>2. waiter'.activeAtStart = waiter.activeAtStart /\ waiter'.state = r
    BY <1>0, <2>1
  <2>3. ASSUME NEW c \in waiter.activeAtStart, r = "drained", status[c] = "running"
        PROVE  taskGeneration[c] # generation[LaneOf[c]]
    <3>1. c \notin AllActive /\ c \in Cmds /\ LaneOf[c] \in Lanes
      BY <1>0, <2>1, <2>3
    <3>2. c \notin activeTaskIds[LaneOf[c]]
      BY <3>1 DEF AllActive
    <3> QED
      BY <2>3, <3>1, <3>2 DEF IInv, ActiveExact, StartedSinceReset
  <2> QED
    BY <2>1, <2>2, <2>3 DEF WaiterInv, SnapshotStarted, DrainedMeansFinished
<1>3. CASE ~WaitForActiveTasks /\ \A r \in {"drained", "timeout"} : ~WaitCheck(r)
  <2>1. waiter' = waiter
    BY <1>3, WaiterKept
  <2>2. ASSUME NEW c \in waiter.activeAtStart
        PROVE  /\ status'[c] \notin {"idle", "queued"}
               /\ DrainedMeansFinished /\ waiter.state = "drained"
                    /\ status'[c] = "running"
                  => taskGeneration'[c] # generation'[LaneOf[c]]
    <3>1. c \in Cmds /\ status[c] \notin {"idle", "queued"}
      BY <1>0 DEF WaiterInv, SnapshotStarted
    <3>2. /\ status'[c] \notin {"idle", "queued"}
          /\ status'[c] = "running" => status[c] = "running"
          /\ taskGeneration'[c] = taskGeneration[c]
          /\ \/ generation'[LaneOf[c]] = generation[LaneOf[c]]
             \/ generation'[LaneOf[c]] = generation[LaneOf[c]] + 1
      BY <3>1, StartedStays
    <3>3. /\ taskGeneration[c] \in Int /\ generation[LaneOf[c]] \in Int
          /\ taskGeneration[c] <= generation[LaneOf[c]]
      BY <1>0, <3>1
    <3>4. taskGeneration[c] # generation[LaneOf[c]]
            => taskGeneration'[c] # generation'[LaneOf[c]]
      BY <3>2, <3>3
    <3> QED
      BY <3>2, <3>4 DEF DrainedMeansFinished
  <2> QED
    BY <2>1, <2>2 DEF WaiterInv, SnapshotStarted, DrainedMeansFinished
<1> QED
  BY <1>1, <1>2, <1>3

\* A "drained" that waitForActiveTasks reports is true, and stays true: the
\* tasks that were active have settled or were abandoned by resetAllLanes.
THEOREM DrainedIsTrue == Spec => []DrainedMeansFinished
<1>1. Init => WaiterInv
  BY DEF Init, WaiterInv, SnapshotStarted, DrainedMeansFinished
<1>2. IInv /\ WaiterInv /\ [Next]_vars => WaiterInv'
  BY WaiterStep
<1>3. WaiterInv => DrainedMeansFinished
  BY DEF WaiterInv
<1> QED
  BY <1>1, <1>2, <1>3, IInvHolds, PTL DEF Spec

---------------------------------------------------------------------------
(* The lanes implement the executor: the part without fairness *)

\* What the executor knows, from what the lanes know.
LEMMA PhaseFacts ==
  ASSUME TypeOK, ActiveExact
  PROVE  /\ DOMAIN Phase = Cmds
         /\ \A c \in Cmds :
              /\ status[c] = "idle" => Phase[c] = "new"
              /\ status[c] = "queued" => Phase[c] = "waiting"
              /\ status[c] = "running" =>
                   Phase[c] = IF taskGeneration[c] = generation[LaneOf[c]]
                              THEN "running" ELSE "abandoned"
              /\ status[c] \in Settled => Phase[c] = status[c]
BY LaneOfType DEF Phase, ActiveExact, StartedSinceReset, Settled

\* The commands that run are those the lane counts.
LEMMA RunningIsActive ==
  ASSUME TypeOK, ActiveExact, NEW l \in Lanes
  PROVE  Executor!Running(l) = activeTaskIds[l]
<1>1. \A c \in Cmds : Phase[c] = "running" <=>
        status[c] = "running" /\ taskGeneration[c] = generation[LaneOf[c]]
  BY PhaseFacts DEF TypeOK, Status, Settled
<1>2. Executor!Running(l) = StartedSinceReset(l)
  BY <1>1 DEF Executor!Running, StartedSinceReset
<1> QED
  BY <1>2 DEF ActiveExact

\* A step after which only the command c has another phase.
LEMMA PhaseOfOne ==
  ASSUME NEW c \in Cmds, NEW p, Phase'[c] = p,
         \A d \in Cmds : d # c => Phase'[d] = Phase[d]
  PROVE  Phase' = [Phase EXCEPT ![c] = p]
<1> DEFINE f == [Phase EXCEPT ![c] = p]
<1>1. DOMAIN Phase' = Cmds /\ DOMAIN f = Cmds
  BY DEF Phase
<1>2. Phase' = [d \in Cmds |-> Phase'[d]] /\ f = [d \in Cmds |-> f[d]]
  BY DEF Phase
<1>3. \A d \in Cmds : Phase'[d] = f[d]
  <2>1. DOMAIN Phase = Cmds
    BY DEF Phase
  <2> QED
    BY <2>1
<1> HIDE DEF f
<1>4. Phase' = f
  BY <1>2, <1>3
<1> QED
  BY <1>4 DEF f

\* A call of enqueueCommand is a submission, or a refusal while draining.
LEMMA AcceptSubmits ==
  ASSUME IInv, IInv', NEW c \in Cmds, status[c] = "idle", Accept(c) \/ Refuse(c),
         UNCHANGED <<maxConcurrent, activeTaskIds>>
  PROVE  Executor!Submit(c) \/ Executor!Refuse(c)
<1>0. status \in [Cmds -> Status]
  BY DEF IInv, TypeOK
<1>1. \A d \in Cmds : d # c => Phase'[d] = Phase[d]
  BY <1>0 DEF Accept, Refuse, Phase
<1>2. Phase[c] = "new"
  BY PhaseFacts DEF IInv
<1>3. CASE Accept(c)
  <2>1. Phase'[c] = "waiting"
    BY <1>0, <1>3 DEF Accept, Phase
  <2> QED
    BY <1>1, <1>2, <1>3, <2>1, PhaseOfOne DEF Accept, Executor!Submit
<1>4. CASE Refuse(c)
  <2>1. Phase'[c] = "refused"
    BY <1>0, <1>4 DEF Refuse, Phase
  <2> QED
    BY <1>1, <1>2, <1>4, <2>1, PhaseOfOne DEF Refuse, Executor!Refuse
<1> QED
  BY <1>3, <1>4

\* The pump starts the command that has waited longest, when a slot is free.
LEMMA PumpStarts ==
  ASSUME IInv, IInv', PumpStart
  PROVE  \E l \in Lanes : Executor!Start(l)
<1>0. Top.lane \in Lanes /\ Head(queue[Top.lane]) \in Cmds
  BY PumpStartFacts DEF IInv
<1>. PICK m \in Lanes : m = Top.lane
  BY <1>0
<1>. PICK c \in Cmds : c = Head(queue[m])
  BY <1>0
<1>1. /\ LaneOf[c] = m /\ status[c] = "queued" /\ status'[c] = "running"
      /\ \A d \in Cmds : d # c => status'[d] = status[d]
  BY PumpStartFacts DEF IInv
<1>2. /\ activeTaskIds'[m] = activeTaskIds[m] \cup {c}
      /\ Cardinality(activeTaskIds[m]) < maxConcurrent[m]
  BY PumpStartActive DEF IInv
<1>3. /\ queue' = [queue EXCEPT ![m] = Tail(@)] /\ queue[m] # <<>>
      /\ maxConcurrent' = maxConcurrent
      /\ activeTaskIds' = [activeTaskIds EXCEPT ![m] = @ \cup {c}]
  BY DEF PumpStart, CanPump
<1>4. \A d \in Cmds : d # c => (d \in activeTaskIds'[LaneOf[d]] <=> d \in activeTaskIds[LaneOf[d]])
  BY <1>3, LaneOfType DEF IInv, TypeOK
<1>5. \A d \in Cmds : d # c => Phase'[d] = Phase[d]
  BY <1>1, <1>4 DEF Phase
<1>6. Phase'[c] = "running"
  BY <1>1, <1>2 DEF Phase
<1>7. Executor!Running(m) = activeTaskIds[m]
  BY PhaseFacts, RunningIsActive DEF IInv
<1>8. Phase' = [Phase EXCEPT ![Head(queue[m])] = "running"]
  <2>1. Phase' = [Phase EXCEPT ![c] = "running"]
    BY <1>5, <1>6, PhaseOfOne
  <2> QED
    BY <2>1
<1>9. Executor!CanStart(m)
  <2>1. Executor!Cardinality(Executor!Running(m)) = Cardinality(activeTaskIds[m])
    BY <1>7 DEF Executor!Cardinality, Cardinality
  <2> QED
    BY <1>2, <1>3, <2>1 DEF Executor!CanStart
<1>10. Executor!Start(m)
  BY <1>3, <1>8, <1>9, Zenon DEF Executor!Start
<1> QED
  BY <1>10

\* A task that settles finishes its command, or one that was given up.
LEMMA SettlingFinishes ==
  ASSUME IInv, NEW c \in Cmds, TaskSettles(c)
  PROVE  Executor!Finish(c)
<1>0. status \in [Cmds -> Status] /\ activeTaskIds \in [Lanes -> SUBSET Cmds]
  BY DEF IInv, TypeOK
<1>1. PICK o \in {"done", "failed"} : status' = [status EXCEPT ![c] = o]
  BY DEF TaskSettles, TaskOutcomes
<1>2. UNCHANGED <<queue, maxConcurrent>> /\ status[c] = "running"
  BY DEF TaskSettles
<1>3. \A d \in Cmds : d # c => (d \in activeTaskIds'[LaneOf[d]] <=> d \in activeTaskIds[LaneOf[d]])
  BY <1>0, LaneOfType DEF TaskSettles, CompleteTask
<1>4. \A d \in Cmds : d # c => Phase'[d] = Phase[d]
  BY <1>0, <1>1, <1>3 DEF Phase
<1>5. Phase'[c] = o
  BY <1>0, <1>1 DEF Phase
<1>6. Phase[c] \in {"running", "abandoned"}
  BY <1>2, PhaseFacts DEF IInv
<1> QED
  BY <1>2, <1>4, <1>5, <1>6, PhaseOfOne DEF Executor!Finish

\* Clearing a lane rejects exactly the commands that wait in it.
LEMMA ClearingClears ==
  ASSUME IInv, NEW l \in Lanes, ClearCommandLane(l)
  PROVE  Executor!Clear(l)
<1> DEFINE f == [c \in Cmds |-> IF \E i \in DOMAIN queue[l] : queue[l][i] = c
                                THEN "cleared" ELSE Phase[c]]
<1>1. /\ status' = [c \in Cmds |-> IF c \in Queued(l) THEN "cleared" ELSE status[c]]
      /\ queue' = [queue EXCEPT ![l] = <<>>]
      /\ UNCHANGED <<activeTaskIds, maxConcurrent>>
  BY DEF ClearCommandLane
<1>2. DOMAIN queue[l] = 1..Len(queue[l])
  BY DEF IInv, TypeOK
<1>3. \A c \in Cmds : c \in Queued(l) <=> \E i \in DOMAIN queue[l] : queue[l][i] = c
  BY <1>2 DEF Queued
<1>4. \A c \in Cmds : Phase'[c] = f[c]
  BY <1>1, <1>3 DEF Phase
<1>5. Phase' = f
  BY <1>4 DEF Phase
<1> QED
  BY <1>1, <1>5 DEF Executor!Clear

\* A reset gives up what runs, and leaves what waits.
LEMMA ResetAbandons ==
  ASSUME IInv, IInv', ResetAllLanes
  PROVE  Executor!AbandonAll
<1> DEFINE f == [c \in Cmds |-> IF Phase[c] = "running" THEN "abandoned" ELSE Phase[c]]
<1>1. /\ activeTaskIds' = [l \in Lanes |-> {}]
      /\ UNCHANGED <<queue, maxConcurrent, status>>
  BY DEF ResetAllLanes
<1>2. status \in [Cmds -> Status]
  BY DEF IInv, TypeOK
<1>3. \A c \in Cmds : Phase'[c] = f[c]
  BY <1>1, <1>2, LaneOfType DEF Phase, Status, Settled
<1>4. Phase' = f
  BY <1>3 DEF Phase
<1> QED
  BY <1>1, <1>4 DEF Executor!AbandonAll

\* Every step of the lanes is one of the executor, or none.
LEMMA StepOfExecutor ==
  ASSUME IInv, IInv', [Next]_vars
  PROVE  [Executor!Next]_(Executor!vars)
<1>1. CASE EnterTask
  <2>1. Nested[entering] \in Cmds /\ status[Nested[entering]] = "idle"
    BY <1>1, NoCmdType, NestedType DEF EnterTask, IInv, TypeOK, NestedIdle
  <2> QED
    BY <1>1, <2>1, AcceptSubmits DEF EnterTask, Executor!Next
<1>2. ASSUME NEW c \in Cmds, Enqueue(c) PROVE Executor!Next
  BY <1>2, AcceptSubmits DEF Enqueue, Executor!Next
<1>3. CASE PumpStart
  BY <1>3, PumpStarts DEF Executor!Next
<1>4. ASSUME NEW c \in Cmds, TaskSettles(c) PROVE Executor!Next
  BY <1>4, SettlingFinishes DEF Executor!Next
<1>5. ASSUME NEW l \in Lanes, ClearCommandLane(l) PROVE Executor!Next
  BY <1>5, ClearingClears DEF Executor!Next
<1>6. ASSUME NEW l \in Lanes, NEW n \in 0..MaxLimit, SetCommandLaneConcurrency(l, n)
      PROVE  Executor!Next
  <2> DEFINE k == IF n < 1 THEN 1 ELSE n
  <2>1. k \in 1..MaxLimit
    BY LimitType
  <2>2. maxConcurrent' = [maxConcurrent EXCEPT ![l] = k]
    BY <1>6 DEF SetCommandLaneConcurrency
  <2>3. UNCHANGED <<queue, Phase>>
    BY <1>6 DEF SetCommandLaneConcurrency, Phase
  <2> HIDE DEF k
  <2> QED
    BY <2>1, <2>2, <2>3 DEF Executor!SetLimit, Executor!Next
<1>7. CASE ResetAllLanes
  BY <1>7, ResetAbandons DEF Executor!Next
<1>8. CASE DrainLane \/ PumpEnd \/ MarkGatewayDraining \/ WaitForActiveTasks \/ UNCHANGED vars
  BY <1>8 DEF DrainLane, PumpEnd, MarkGatewayDraining, WaitForActiveTasks, laneVars, vars,
              Phase, Executor!vars
<1>9. CASE \E r \in {"drained", "timeout"} : WaitCheck(r)
  BY <1>9 DEF WaitCheck, laneVars, Phase, Executor!vars
<1> QED
  BY <1>1, <1>2, <1>3, <1>4, <1>5, <1>6, <1>7, <1>8, <1>9 DEF Next, PumpStep

\* The lanes are a FIFO executor, whatever pumps, flags, generations and resets
\* do: each step submits, refuses, starts, finishes, clears, limits or abandons
\* as FifoExecutor allows, or changes nothing that a caller sees.
THEOREM LanesAreExecutor == Spec => Executor!Init /\ [][Executor!Next]_(Executor!vars)
<1>1. Init => Executor!Init
  BY DEF Init, Executor!Init, Phase
<1>2. IInv /\ IInv' /\ [Next]_vars => [Executor!Next]_(Executor!vars)
  BY StepOfExecutor
<1> QED
  BY <1>1, <1>2, IInvHolds, PTL DEF Spec
===========================================================================
