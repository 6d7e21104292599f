----------------------- MODULE ServiceProcessProofs -----------------------
(***************************************************************************)
(* The map of service instances tells the truth of the processes, for any  *)
(* services and start calls: what it says of a service holds, no process   *)
(* is lost but in the named cases, and no cancelled process is reported as *)
(* ended unexpectedly.  The tables keep their types.                       *)
(***************************************************************************)
EXTENDS ServiceProcess, TLAPS

Types ==
  /\ stage \in [Runs -> supervisor!Stage]
  /\ forced \in [Runs -> supervisor!Reasons \cup {None}]
  /\ DOMAIN call = Runs
  /\ state \in [Runs -> State]
  /\ instances \in [Services -> Runs \cup {None}]
  /\ \A s \in Services : instances[s] # None => ServiceOf[instances[s]] = s
  /\ unexpected \subseteq Runs

\* How the instance of a run follows its process.
Follows ==
  \A r \in Runs :
    /\ stage[r] = "none" => state[r] \in {"inactive", "error"}
    /\ stage[r] = "spawning" => state[r] \in {"starting", "stopped"}
    /\ stage[r] = "failed" => state[r] = "error"
    /\ stage[r] = "up" => state[r] \in {"started", "stopping"}
    /\ stage[r] = "settled" => state[r] \in {"started", "stopped", "error"}
    /\ stage[r] \notin {"up", "settled"} => forced[r] = None

\* What is known, besides, of a run whose instance is in the map: a cancelled
\* process is marked, and so is an end that was noticed.
TrackedFollows ==
  \A r \in Runs : Tracked(r) =>
    /\ call[r] = "begun"
    /\ stage[r] = "none" => state[r] = "error"
    /\ stage[r] = "up" /\ forced[r] # None => state[r] = "stopping"
    /\ stage[r] = "settled" => state[r] # "started"

ActiveUp == active = {r \in Runs : stage[r] = "up"}

NotBegun == \A r \in Runs : call[r] # "begun" => stage[r] = "none"

UnexpectedEnded == \A r \in unexpected : stage[r] = "settled" /\ forced[r] = None

\* The exceptional cases aside, the map has each process that goes on from the
\* moment it is spawned.
PendingIsManaged ==
  \A r \in Runs :
    stage[r] \in {"spawning", "up"} /\ forced[r] = None
      /\ r \notin overlapped \cup dropped
    => Tracked(r) /\ state[r] \in {"starting", "started"}

IInv ==
  Types /\ Follows /\ TrackedFollows /\ ActiveUp /\ NotBegun /\ UnexpectedEnded
    /\ PendingIsManaged

USE ServiceTypes

LEMMA InitInv == Init => IInv
  BY DEF Init, supervisor!Init, IInv, Types, Follows, TrackedFollows, ActiveUp,
         NotBegun, UnexpectedEnded, PendingIsManaged, Tracked, State,
         supervisor!Stage

LEMMA InvImplies ==
  IInv => InstanceTellsProcess /\ LiveIsManaged /\ UnexpectedWasNotAsked
<1> SUFFICES ASSUME IInv
             PROVE  InstanceTellsProcess /\ LiveIsManaged /\ UnexpectedWasNotAsked
  OBVIOUS
<1>1. InstanceTellsProcess
  BY DEF InstanceTellsProcess, IInv, Types, Follows, TrackedFollows, ActiveUp,
         supervisor!Stage
<1>2. LiveIsManaged
  BY DEF LiveIsManaged, IInv, Follows, PendingIsManaged, ActiveUp
<1>3. UnexpectedWasNotAsked
  BY DEF UnexpectedWasNotAsked, IInv, UnexpectedEnded
<1>4. QED
  BY <1>1, <1>2, <1>3

---------------------------------------------------------------------------
(* What the supervisor's steps do to the variables of the invariant *)

\* Spawning cancels what is up in the service, and notes what is pending.
LEMMA SpawnEffect ==
  ASSUME IInv, NEW r \in Runs, supervisor!Spawn(r)
  PROVE  /\ stage' = [stage EXCEPT ![r] = "spawning"]
         /\ UNCHANGED active
         /\ forced' \in [Runs -> supervisor!Reasons \cup {None}]
         /\ \A q \in Runs : forced'[q] # forced[q] => stage[q] = "up"
         /\ \A q \in Runs : stage[q] = "up" => (forced'[q] = None => forced[q] = None)
         /\ \A q \in Runs : stage[q] = "up" /\ ServiceOf[q] = ServiceOf[r]
                              => forced'[q] # None
         /\ \A q \in Runs : stage[q] = "spawning" /\ ServiceOf[q] = ServiceOf[r]
                              => q \in overlapped'
         /\ overlapped \subseteq overlapped'
<1> DEFINE S == supervisor!Replaced(r)
<1>1. S = {q \in Runs : stage[q] = "up" /\ ServiceOf[q] = ServiceOf[r]}
  BY DEF supervisor!Replaced, supervisor!InScope, IInv, ActiveUp
<1>2. forced' = [q \in Runs |-> IF q \in S
                  THEN supervisor!First(forced[q], "manual-cancel") ELSE forced[q]]
  BY DEF supervisor!Spawn, supervisor!Request
<1> HIDE DEF S
<1>3. "manual-cancel" \in supervisor!Reasons
  BY DEF supervisor!Reasons
<1>4. \A q \in Runs : q \in S => forced'[q] # None
  BY <1>2, <1>3 DEF supervisor!First
<1>5. forced' \in [Runs -> supervisor!Reasons \cup {None}]
  BY <1>2, <1>3 DEF supervisor!First, IInv, Types
<1>6. \A q \in Runs : q \notin S => forced'[q] = forced[q]
  BY <1>2
<1>7. overlapped \subseteq overlapped' /\ supervisor!Pending(ServiceOf[r]) \subseteq overlapped'
  BY DEF supervisor!Spawn
<1>8. \A q \in Runs : stage[q] = "spawning" /\ ServiceOf[q] = ServiceOf[r]
                        => q \in supervisor!Pending(ServiceOf[r])
  BY DEF supervisor!Pending
<1>9. stage' = [stage EXCEPT ![r] = "spawning"] /\ UNCHANGED active
  BY DEF supervisor!Spawn
<1>10. QED
  BY <1>1, <1>4, <1>5, <1>6, <1>7, <1>8, <1>9

LEMMA ClosesEffect ==
  ASSUME NEW r \in Runs, supervisor!Closes(r)
  PROVE  /\ stage[r] = "up"
         /\ stage' = [stage EXCEPT ![r] = "settled"]
         /\ active' = active \ {r}
         /\ UNCHANGED <<forced, overlapped>>
  BY DEF supervisor!Closes, supervisor!Settle

\* Stopping marks and cancels what is up, and drops what is pending.
LEMMA StopEffect ==
  ASSUME IInv, NEW R \in SUBSET Runs, StopRuns(R)
  PROVE  /\ UNCHANGED <<stage, active, overlapped>>
         /\ forced' \in [Runs -> supervisor!Reasons \cup {None}]
         /\ \A q \in Runs : q \notin R => forced'[q] = forced[q] /\ state'[q] = state[q]
         /\ \A q \in R : stage[q] = "up" => forced'[q] # None /\ state'[q] = "stopping"
         /\ \A q \in R : stage[q] # "up" =>
              forced'[q] = forced[q] /\ state'[q] = "stopped" /\ q \in dropped'
         /\ state' \in [Runs -> State]
         /\ dropped \subseteq dropped'
<1>1. "manual-cancel" \in supervisor!Reasons
  BY DEF supervisor!Reasons
<1>2. \A q \in Runs : q \in active <=> stage[q] = "up"
  BY DEF IInv, ActiveUp
<1>3. forced' = [q \in Runs |-> IF q \in R \cap active
                  THEN supervisor!First(forced[q], "manual-cancel") ELSE forced[q]]
  BY DEF StopRuns, supervisor!Request
<1>4. /\ forced' \in [Runs -> supervisor!Reasons \cup {None}]
      /\ \A q \in Runs : q \notin R \cap active => forced'[q] = forced[q]
      /\ \A q \in R \cap active : forced'[q] # None
  BY <1>1, <1>3 DEF supervisor!First, IInv, Types
<1>5. /\ state' \in [Runs -> State]
      /\ \A q \in Runs : q \notin R => state'[q] = state[q]
      /\ \A q \in R \cap active : state'[q] = "stopping"
      /\ \A q \in R \ active : state'[q] = "stopped"
  BY DEF StopRuns, IInv, Types, State
<1>6. dropped' = dropped \cup (R \ active) /\ UNCHANGED <<stage, active, overlapped>>
  BY DEF StopRuns
<1>7. QED
  BY <1>2, <1>4, <1>5, <1>6
---------------------------------------------------------------------------
(* Every action keeps the invariant. *)

LEMMA StartCallInv ==
  ASSUME IInv, NEW r \in Runs, StartCall(r) PROVE IInv'
<1>1. Types' /\ Follows' /\ ActiveUp' /\ UnexpectedEnded'
  BY DEF StartCall, supervisorVars, IInv, Types, Follows, ActiveUp, UnexpectedEnded
<1>2. TrackedFollows' /\ NotBegun' /\ PendingIsManaged'
  BY DEF StartCall, supervisorVars, IInv, Types, TrackedFollows, NotBegun,
         PendingIsManaged, Tracked
<1>3. QED
  BY <1>1, <1>2 DEF IInv

\* A start that spawns replaces what the map has for the service: it was
\* cancelled, or it is noted as overlapped.
LEMMA SpawnInv ==
  ASSUME IInv, NEW r \in Runs,
         call[r] = "discovering",
         call' = [call EXCEPT ![r] = "begun"],
         instances' = [instances EXCEPT ![ServiceOf[r]] = r],
         state' = [state EXCEPT ![r] = "starting"],
         supervisor!Spawn(r),
         UNCHANGED <<unexpected, dropped>>
  PROVE  IInv'
<1>1. stage[r] = "none" /\ forced[r] = None
  BY DEF IInv, NotBegun, Follows
<1>2. /\ stage' = [stage EXCEPT ![r] = "spawning"]
      /\ UNCHANGED active
      /\ forced' \in [Runs -> supervisor!Reasons \cup {None}]
      /\ \A q \in Runs : forced'[q] # forced[q] => stage[q] = "up"
      /\ \A q \in Runs : stage[q] = "up" => (forced'[q] = None => forced[q] = None)
      /\ \A q \in Runs : stage[q] = "up" /\ ServiceOf[q] = ServiceOf[r]
                           => forced'[q] # None
      /\ \A q \in Runs : stage[q] = "spawning" /\ ServiceOf[q] = ServiceOf[r]
                           => q \in overlapped'
      /\ overlapped \subseteq overlapped'
  BY SpawnEffect
<1>3. \A q \in Runs \ {r} : /\ stage'[q] = stage[q]
                            /\ call'[q] = call[q]
                            /\ state'[q] = state[q]
                            /\ Tracked(q)' <=> Tracked(q) /\ ServiceOf[q] # ServiceOf[r]
  BY <1>2 DEF IInv, Types, Tracked
<1>4. /\ stage'[r] = "spawning" /\ call'[r] = "begun" /\ state'[r] = "starting"
      /\ forced'[r] = None /\ Tracked(r)'
  BY <1>1, <1>2 DEF IInv, Types, Tracked
<1>5. Types'
  BY <1>2 DEF IInv, Types, supervisor!Stage, State
<1>6. Follows'
  BY <1>2, <1>3, <1>4 DEF IInv, Follows
<1>7. TrackedFollows'
  <2> SUFFICES ASSUME NEW q \in Runs, Tracked(q)', q # r
               PROVE  /\ call'[q] = "begun"
                      /\ stage'[q] = "none" => state'[q] = "error"
                      /\ stage'[q] = "up" /\ forced'[q] # None => state'[q] = "stopping"
                      /\ stage'[q] = "settled" => state'[q] # "started"
    BY <1>4 DEF TrackedFollows
  <2>1. Tracked(q) /\ ServiceOf[q] # ServiceOf[r]
    BY <1>3
  <2>2. stage[q] = "up" => forced'[q] = forced[q]
    <3>1. forced' = [p \in Runs |-> IF p \in supervisor!Replaced(r)
                THEN supervisor!First(forced[p], "manual-cancel") ELSE forced[p]]
      BY DEF supervisor!Spawn, supervisor!Request
    <3>2. q \notin supervisor!Replaced(r)
      BY <2>1 DEF supervisor!Replaced, supervisor!InScope
    <3>3. QED
      BY <3>1, <3>2
  <2>3. QED
    BY <1>3, <2>1, <2>2 DEF IInv, TrackedFollows
<1>8. ActiveUp'
  BY <1>1, <1>2, <1>3, <1>4 DEF IInv, ActiveUp
<1>9. NotBegun' /\ UnexpectedEnded'
  BY <1>1, <1>2, <1>3, <1>4 DEF IInv, NotBegun, UnexpectedEnded, Types
<1>10. PendingIsManaged'
  BY <1>2, <1>3, <1>4 DEF IInv, PendingIsManaged
<1>11. QED
  BY <1>5, <1>6, <1>7, <1>8, <1>9, <1>10 DEF IInv

\* A start that fails before it spawns drops what the map has.
LEMMA StartFailsInv ==
  ASSUME IInv, NEW r \in Runs,
         call[r] = "discovering",
         call' = [call EXCEPT ![r] = "begun"],
         instances' = [instances EXCEPT ![ServiceOf[r]] = r],
         state' = [state EXCEPT ![r] = "error"],
         dropped' = dropped \cup ({instances[ServiceOf[r]]} \ {None}),
         UNCHANGED <<supervisorVars, unexpected>>
  PROVE  IInv'
<1>1. stage[r] = "none"
  BY DEF IInv, NotBegun
<1>2. UNCHANGED <<stage, forced, active, overlapped>>
  BY DEF supervisorVars
<1>3. \A q \in Runs \ {r} : /\ call'[q] = call[q] /\ state'[q] = state[q]
                            /\ Tracked(q)' => Tracked(q)
                            /\ Tracked(q) => Tracked(q)' \/ q \in dropped'
  BY DEF IInv, Types, Tracked
<1>4. call'[r] = "begun" /\ state'[r] = "error"
  BY DEF IInv, Types
<1>5. Types' /\ Follows' /\ ActiveUp' /\ UnexpectedEnded' /\ NotBegun'
  BY <1>1, <1>2, <1>3, <1>4 DEF IInv, Types, State, Follows, ActiveUp,
     UnexpectedEnded, NotBegun
<1>6. TrackedFollows'
  BY <1>1, <1>2, <1>3, <1>4 DEF IInv, TrackedFollows
<1>7. PendingIsManaged'
  BY <1>1, <1>2, <1>3 DEF IInv, PendingIsManaged
<1>8. QED
  BY <1>5, <1>6, <1>7 DEF IInv

LEMMA StartDiscoveredInv ==
  ASSUME IInv, NEW r \in Runs, StartDiscovered(r) PROVE IInv'
<1>1. CASE /\ call' = [call EXCEPT ![r] = "rejected"]
           /\ UNCHANGED <<supervisorVars, state, instances, dropped>>
  <2>1. Types' /\ Follows' /\ ActiveUp' /\ UnexpectedEnded'
    BY <1>1 DEF StartDiscovered, supervisorVars, IInv, Types, Follows, ActiveUp,
                UnexpectedEnded
  <2>2. TrackedFollows' /\ NotBegun' /\ PendingIsManaged'
    BY <1>1 DEF StartDiscovered, supervisorVars, IInv, Types, TrackedFollows,
                NotBegun, PendingIsManaged, Tracked
  <2>3. QED
    BY <2>1, <2>2 DEF IInv
<1>2. CASE call' # [call EXCEPT ![r] = "rejected"]
  BY <1>2, SpawnInv, StartFailsInv DEF StartDiscovered
<1>3. CASE call' = [call EXCEPT ![r] = "rejected"]
  <2>1. ~ call' = [call EXCEPT ![r] = "begun"]
    BY <1>3 DEF IInv, Types
  <2>2. QED
    BY <1>1, <2>1 DEF StartDiscovered
<1>4. QED
  BY <1>2, <1>3

LEMMA SpawnSucceedsInv ==
  ASSUME IInv, NEW r \in Runs, SpawnSucceeds(r) PROVE IInv'
<1>1. /\ stage[r] = "spawning" /\ stage' = [stage EXCEPT ![r] = "up"]
      /\ active' = active \cup {r}
      /\ UNCHANGED <<forced, overlapped, call, instances, unexpected, dropped>>
      /\ state' = [state EXCEPT ![r] = "started"]
  BY DEF SpawnSucceeds, supervisor!SpawnSucceeds
<1>2. \A q \in Runs : Tracked(q)' <=> Tracked(q)
  BY <1>1 DEF Tracked
<1>3. Types' /\ Follows' /\ ActiveUp' /\ NotBegun' /\ UnexpectedEnded'
  BY <1>1 DEF IInv, Types, State, supervisor!Stage, Follows, ActiveUp, NotBegun,
              UnexpectedEnded
<1>4. TrackedFollows' /\ PendingIsManaged'
  BY <1>1, <1>2 DEF IInv, Types, Follows, TrackedFollows, PendingIsManaged
<1>5. QED
  BY <1>3, <1>4 DEF IInv

LEMMA SpawnFailsInv ==
  ASSUME IInv, NEW r \in Runs, SpawnFails(r) PROVE IInv'
<1>1. /\ stage[r] = "spawning" /\ stage' = [stage EXCEPT ![r] = "failed"]
      /\ UNCHANGED <<active, forced, overlapped, call, instances, unexpected, dropped>>
      /\ state' = [state EXCEPT ![r] = "error"]
  BY DEF SpawnFails, supervisor!SpawnFails
<1>2. \A q \in Runs : Tracked(q)' <=> Tracked(q)
  BY <1>1 DEF Tracked
<1>3. Types' /\ Follows' /\ ActiveUp' /\ NotBegun' /\ UnexpectedEnded'
  BY <1>1 DEF IInv, Types, State, supervisor!Stage, Follows, ActiveUp, NotBegun,
              UnexpectedEnded
<1>4. TrackedFollows' /\ PendingIsManaged'
  BY <1>1, <1>2 DEF IInv, Types, TrackedFollows, PendingIsManaged
<1>5. QED
  BY <1>3, <1>4 DEF IInv

\* Only running services are stopped, so a stopped run is starting or started.
LEMMA StopInv ==
  ASSUME IInv, NEW R \in SUBSET Runs, StopRuns(R),
         \A r \in R : state[r] \in {"starting", "started"} /\ Tracked(r),
         UNCHANGED <<call, instances, unexpected>>
  PROVE  IInv'
<1>1. /\ UNCHANGED <<stage, active, overlapped>>
      /\ forced' \in [Runs -> supervisor!Reasons \cup {None}]
      /\ \A q \in Runs : q \notin R => forced'[q] = forced[q] /\ state'[q] = state[q]
      /\ \A q \in R : stage[q] = "up" => forced'[q] # None /\ state'[q] = "stopping"
      /\ \A q \in R : stage[q] # "up" =>
           forced'[q] = forced[q] /\ state'[q] = "stopped" /\ q \in dropped'
      /\ state' \in [Runs -> State]
      /\ dropped \subseteq dropped'
  BY StopEffect
<1>2. \A q \in Runs : Tracked(q)' <=> Tracked(q)
  BY DEF Tracked
<1>3. \A q \in R : stage[q] \in {"spawning", "up"}
  BY DEF IInv, Types, Follows, TrackedFollows, supervisor!Stage
<1>4. Types' /\ Follows' /\ ActiveUp' /\ NotBegun'
  BY <1>1, <1>3 DEF IInv, Types, Follows, ActiveUp, NotBegun
<1>5. UnexpectedEnded'
  BY <1>1, <1>3 DEF IInv, Types, UnexpectedEnded
<1>6. TrackedFollows' /\ PendingIsManaged'
  BY <1>1, <1>2, <1>3 DEF IInv, TrackedFollows, PendingIsManaged
<1>7. QED
  BY <1>4, <1>5, <1>6 DEF IInv

LEMMA StopServiceInv ==
  ASSUME IInv, NEW s \in Services, StopService(s) PROVE IInv'
<1>1. instances[s] \in Runs /\ ServiceOf[instances[s]] = s
  BY DEF StopService, IsRunning, IInv, Types
<1>2. QED
  BY <1>1, StopInv DEF StopService, IsRunning, Tracked

LEMMA DisposeInv == ASSUME IInv, Dispose PROVE IInv'
<1> DEFINE R == {instances[s] : s \in {t \in Services : IsRunning(t)}}
<1>1. \A r \in R : r \in Runs /\ state[r] \in {"starting", "started"} /\ Tracked(r)
  BY DEF IsRunning, IInv, Types, Tracked
<1>2. StopRuns(R) /\ UNCHANGED <<call, instances, unexpected>>
  BY DEF Dispose, StopAllServices
<1>3. R \in SUBSET Runs
  BY <1>1
<1> HIDE DEF R
<1>4. QED
  BY <1>1, <1>2, <1>3, StopInv

\* Actions that only take instances out of the map keep the invariant, if they
\* take out what has ended or drop it.
LEMMA ForgettingInv ==
  ASSUME IInv, instances' \in [Services -> Runs \cup {None}],
         \A s \in Services : instances'[s] \in {instances[s], None},
         \A r \in Runs : Tracked(r) /\ ~Tracked(r)' =>
           r \in dropped' \/ state[r] \in {"stopped", "error"} \/ stage[r] \notin {"spawning", "up"},
         dropped \subseteq dropped',
         UNCHANGED <<supervisorVars, call, state, unexpected>>
  PROVE  IInv'
<1>1. \A q \in Runs : Tracked(q)' => Tracked(q)
  BY DEF Tracked
<1>2. UNCHANGED <<stage, forced, active, overlapped>>
  BY DEF supervisorVars
<1>3. Types'
  BY <1>2 DEF IInv, Types
<1>4. Follows' /\ ActiveUp' /\ NotBegun' /\ UnexpectedEnded'
  BY <1>2 DEF IInv, Follows, ActiveUp, NotBegun, UnexpectedEnded
<1>5. TrackedFollows' /\ PendingIsManaged'
  BY <1>1, <1>2 DEF IInv, TrackedFollows, PendingIsManaged
<1>6. QED
  BY <1>3, <1>4, <1>5 DEF IInv

LEMMA ClearInstancesInv == ASSUME IInv, ClearInstances PROVE IInv'
  BY ForgettingInv DEF ClearInstances

LEMMA CleanupStoppedInv == ASSUME IInv, CleanupStoppedServices PROVE IInv'
<1>1. instances' \in [Services -> Runs \cup {None}]
  BY DEF CleanupStoppedServices, IInv, Types
<1>2. \A s \in Services : instances'[s] \in {instances[s], None}
  BY DEF CleanupStoppedServices
<1>3. \A r \in Runs : Tracked(r) /\ ~Tracked(r)' => state[r] \in {"stopped", "error"}
  BY DEF CleanupStoppedServices, Tracked
<1>4. QED
  BY <1>1, <1>2, <1>3, ForgettingInv DEF CleanupStoppedServices

LEMMA CleanupTimerInv ==
  ASSUME IInv, NEW r \in Runs, r \in cleanup => stage[r] = "settled",
         CleanupTimer(r)
  PROVE  IInv'
<1>1. instances' \in [Services -> Runs \cup {None}]
  BY DEF CleanupTimer, IInv, Types
<1>2. \A s \in Services : instances'[s] \in {instances[s], None}
  BY DEF CleanupTimer, IInv, Types
<1>3. \A q \in Runs : Tracked(q) /\ ~Tracked(q)' => q = r
  BY DEF CleanupTimer, Tracked, IInv, Types
<1>4. stage[r] = "settled"
  BY DEF CleanupTimer
<1>5. QED
  BY <1>1, <1>2, <1>3, <1>4, ForgettingInv DEF CleanupTimer

\* What Exit writes, for an instance in the map and for any other.
LEMMA ExitEffect ==
  ASSUME IInv, NEW r \in Runs, NEW code \in {"zero", "other"}, Exit(r, code)
  PROVE  /\ state' \in [Runs -> State]
         /\ \A q \in Runs \ {r} : state'[q] = state[q]
         /\ state'[r] \in {"started", "stopped", "error"}
         /\ Tracked(r) => state'[r] # "started"
         /\ \/ UNCHANGED unexpected
            \/ /\ Tracked(r) /\ state[r] = "started"
               /\ unexpected' = unexpected \cup {r}
<1>1. state[r] \in {"started", "stopping"}
  BY ClosesEffect DEF Exit, IInv, Follows
<1>2. CASE state[r] = "stopping"
  <2>1. state' = [state EXCEPT ![r] = "stopped"]
    BY <1>2 DEF Exit, IInv, Types
  <2>2. UNCHANGED unexpected
    BY <1>2 DEF Exit
  <2>3. QED
    BY <2>1, <2>2 DEF IInv, Types, State
<1>3. CASE state[r] # "stopping" /\ Tracked(r)
  <2>1. state' = [state EXCEPT ![r] = IF code = "zero" THEN "stopped" ELSE "error"]
    BY <1>3 DEF Exit, IInv, Types
  <2>2. \/ UNCHANGED unexpected
        \/ state[r] = "started" /\ unexpected' = unexpected \cup {r}
    BY <1>3 DEF Exit
  <2>3. QED
    BY <1>3, <2>1, <2>2 DEF IInv, Types, State
<1>4. CASE state[r] # "stopping" /\ ~Tracked(r)
  <2>1. state' = [state EXCEPT ![r] = state[r]]
    BY <1>4 DEF Exit, IInv, Types
  <2>2. UNCHANGED unexpected
    BY <1>4 DEF Exit
  <2>3. QED
    BY <1>1, <1>4, <2>1, <2>2 DEF IInv, Types, State
<1>5. QED
  BY <1>2, <1>3, <1>4

LEMMA ExitInv ==
  ASSUME IInv, NEW r \in Runs, NEW code \in {"zero", "other"}, Exit(r, code)
  PROVE  IInv'
<1>1. /\ state' \in [Runs -> State]
      /\ \A q \in Runs \ {r} : state'[q] = state[q]
      /\ state'[r] \in {"started", "stopped", "error"}
      /\ Tracked(r) => state'[r] # "started"
      /\ \/ UNCHANGED unexpected
         \/ /\ Tracked(r) /\ state[r] = "started"
            /\ unexpected' = unexpected \cup {r}
  BY ExitEffect
<1>2. /\ stage[r] = "up"
      /\ stage' = [stage EXCEPT ![r] = "settled"]
      /\ active' = active \ {r}
      /\ UNCHANGED <<forced, overlapped, call, instances, dropped>>
  BY ClosesEffect DEF Exit
<1>3. \A q \in Runs : Tracked(q)' <=> Tracked(q)
  BY <1>2 DEF Tracked
<1>4. Types'
  BY <1>1, <1>2 DEF IInv, Types, supervisor!Stage
<1>5. Follows' /\ ActiveUp' /\ NotBegun'
  BY <1>1, <1>2 DEF IInv, Types, Follows, ActiveUp, NotBegun
<1>6. TrackedFollows' /\ PendingIsManaged'
  BY <1>1, <1>2, <1>3 DEF IInv, Types, TrackedFollows, PendingIsManaged
<1>7. Tracked(r) /\ state[r] = "started" => forced[r] = None
  BY <1>2 DEF IInv, TrackedFollows
<1>8. UnexpectedEnded'
  BY <1>1, <1>2, <1>7 DEF IInv, Types, UnexpectedEnded
<1>9. QED
  BY <1>4, <1>5, <1>6, <1>8 DEF IInv

\* Only what has ended is left to the cleanup timer.
CleanupEnded == cleanup \subseteq {r \in Runs : stage[r] = "settled"}

LEMMA CleanupStep == ASSUME IInv, CleanupEnded, [Next]_vars PROVE CleanupEnded'
<1>1. \A r \in Runs : stage[r] = "settled" => stage'[r] = "settled"
  <2> SUFFICES ASSUME NEW r \in Runs, stage[r] = "settled" PROVE stage'[r] = "settled"
    OBVIOUS
  <2>1. CASE UNCHANGED stage
    BY <2>1
  <2>2. ASSUME NEW q \in Runs, supervisor!Spawn(q) PROVE stage'[r] = "settled"
    BY <2>2 DEF supervisor!Spawn, IInv, Types
  <2>3. ASSUME NEW q \in Runs, supervisor!SpawnSucceeds(q) \/ supervisor!SpawnFails(q)
        PROVE stage'[r] = "settled"
    BY <2>3 DEF supervisor!SpawnSucceeds, supervisor!SpawnFails, IInv, Types
  <2>4. ASSUME NEW q \in Runs, supervisor!Closes(q) PROVE stage'[r] = "settled"
    BY <2>4, ClosesEffect DEF IInv, Types
  <2>5. QED
    BY <2>1, <2>2, <2>3, <2>4
       DEF Next, vars, supervisorVars, StartCall, StartDiscovered, SpawnSucceeds,
           SpawnFails, CleanupTimer, Dies, supervisor!Dies, Exit, StopService,
           StopRuns, Dispose, StopAllServices, ClearInstances,
           CleanupStoppedServices
<1>2. \A r \in cleanup' : r \in cleanup \/ (r \in Runs /\ stage'[r] = "settled")
  <2>1. ASSUME NEW q \in Runs, NEW code \in {"zero", "other"}, Exit(q, code)
        PROVE  cleanup' \subseteq cleanup \cup {q} /\ stage'[q] = "settled"
    BY <2>1, ClosesEffect DEF Exit, IInv, Types
  <2>2. QED
    BY <2>1 DEF Next, vars, managerVars, StartCall, StartDiscovered,
           SpawnSucceeds, SpawnFails, CleanupTimer, Dies, StopService, Dispose,
           ClearInstances, CleanupStoppedServices
<1>3. QED
  BY <1>1, <1>2 DEF CleanupEnded

LEMMA StillInv ==
  ASSUME IInv, UNCHANGED <<stage, forced, active, overlapped, managerVars>>
  PROVE  IInv'
  BY DEF managerVars, IInv, Types, Follows, TrackedFollows, ActiveUp, NotBegun,
         UnexpectedEnded, PendingIsManaged, Tracked

LEMMA Step == ASSUME IInv, CleanupEnded, [Next]_vars PROVE IInv'
<1>1. ASSUME NEW r \in Runs, StartCall(r) PROVE IInv'
  BY <1>1, StartCallInv
<1>2. ASSUME NEW r \in Runs, StartDiscovered(r) PROVE IInv'
  BY <1>2, StartDiscoveredInv
<1>3. ASSUME NEW r \in Runs, SpawnSucceeds(r) \/ SpawnFails(r) PROVE IInv'
  BY <1>3, SpawnSucceedsInv, SpawnFailsInv
<1>4. ASSUME NEW r \in Runs, CleanupTimer(r) PROVE IInv'
  BY <1>4, CleanupTimerInv DEF CleanupEnded
<1>5. ASSUME NEW r \in Runs, Dies(r) PROVE IInv'
  BY <1>5, StillInv DEF Dies, supervisor!Dies
<1>6. ASSUME NEW r \in Runs, NEW code \in {"zero", "other"}, Exit(r, code) PROVE IInv'
  BY <1>6, ExitInv
<1>7. ASSUME NEW s \in Services, StopService(s) PROVE IInv'
  BY <1>7, StopServiceInv
<1>8. CASE Dispose \/ ClearInstances \/ CleanupStoppedServices
  BY <1>8, DisposeInv, ClearInstancesInv, CleanupStoppedInv
<1>9. CASE UNCHANGED vars
  BY <1>9, StillInv DEF vars, supervisorVars
<1>10. QED
  BY <1>1, <1>2, <1>3, <1>4, <1>5, <1>6, <1>7, <1>8, <1>9 DEF Next

LEMMA Invariant == Spec => [](IInv /\ CleanupEnded)
<1>1. Init => IInv /\ CleanupEnded
  BY InitInv DEF Init, CleanupEnded
<1>2. IInv /\ CleanupEnded /\ [Next]_vars => (IInv /\ CleanupEnded)'
  BY Step, CleanupStep
<1>3. QED
  BY <1>1, <1>2, PTL DEF Spec

\* For any services and start calls, what the map says of a service holds of its
\* process (startService, stopService and handleProcessExit of lifecycle.ts).
THEOREM MapTellsTruth == Spec => []InstanceTellsProcess
  BY Invariant, InvImplies, PTL

\* For any services and start calls, no process that goes on is lost to the
\* manager but by overlapping starts, stops before it came up, disposal, or a
\* start without a log directory.
THEOREM NoProcessLost == Spec => []LiveIsManaged
  BY Invariant, InvImplies, PTL

\* For any services and start calls, a process that was asked to end is never
\* reported as ended unexpectedly (handleProcessExit of lifecycle.ts).
THEOREM AskedIsExpected == Spec => []UnexpectedWasNotAsked
  BY Invariant, InvImplies, PTL

\* What the manager tells of its services is true, for any services and calls.
THEOREM ReportsAreSound == Spec => []ReportsSound
<1>1. InstanceTellsProcess /\ UnexpectedWasNotAsked => ReportsSound
  BY DEF ReportsSound
<1> QED  BY MapTellsTruth, AskedIsExpected, <1>1, PTL
---------------------------------------------------------------------------
(* Types *)

Process == {"none", "live", "killed", "exited", "signalled"}

\* The types of the supervisor's variables that a service process uses.
SupervisorTypes ==
  /\ records \in [Runs -> supervisor!Record]
  /\ order \subseteq Runs \X Runs
  /\ active \subseteq Runs
  /\ stage \in [Runs -> supervisor!Stage]
  /\ forced \in [Runs -> supervisor!Reasons \cup {None}]
  /\ process \in [Runs -> Process]
  /\ exit \in [Runs -> supervisor!Reasons \cup {None}]
  /\ overlapped \subseteq Runs

\* The types of the manager's variables; an instance has a state once its start
\* call has begun.
ManagerTypes ==
  /\ call \in [Runs -> {"none", "discovering", "rejected", "begun"}]
  /\ state \in [Runs -> State]
  /\ \A r \in Runs : call[r] = "begun" <=> state[r] # "inactive"
  /\ instances \in [Services -> Runs \cup {None}]
  /\ \A s \in Services : instances[s] # None => ServiceOf[instances[s]] = s
  /\ cleanup \subseteq Runs
  /\ disposing \in BOOLEAN
  /\ awaited \subseteq Runs
  /\ unexpected \subseteq Runs
  /\ dropped \subseteq Runs

LEMMA TypesAre == SupervisorTypes /\ ManagerTypes <=> TypeOK
BY DEF SupervisorTypes, ManagerTypes, TypeOK, supervisor!TypeOK, Process

LEMMA InitTypes == Init => SupervisorTypes /\ ManagerTypes
<1> SUFFICES ASSUME Init PROVE SupervisorTypes /\ ManagerTypes
  OBVIOUS
<1>1. SupervisorTypes
  BY DEF Init, supervisor!Init, SupervisorTypes, Process, supervisor!Record,
         supervisor!Absent, supervisor!Stage
<1>2. ManagerTypes
  BY DEF Init, ManagerTypes, State
<1> QED
  BY <1>1, <1>2

LEMMA RequestTypes ==
  ASSUME SupervisorTypes, NEW S \in SUBSET Runs, NEW why \in supervisor!Reasons,
         supervisor!Request(S, why)
  PROVE  /\ forced' \in [Runs -> supervisor!Reasons \cup {None}]
         /\ process' \in [Runs -> Process]
<1>1. forced' \in [Runs -> supervisor!Reasons \cup {None}]
  BY DEF supervisor!Request, supervisor!First, SupervisorTypes
<1>2. process' = [r \in Runs |->
        IF r \in S /\ process[r] = "live" THEN "killed" ELSE process[r]]
  BY DEF supervisor!Request
<1> QED
  BY <1>1, <1>2 DEF SupervisorTypes, Process

LEMMA CancelledTypes ==
  ASSUME SupervisorTypes, NEW S \in SUBSET Runs, NEW why \in supervisor!Reasons
  PROVE  supervisor!Cancelled(S, records, why) \in [Runs -> supervisor!Record]
BY DEF SupervisorTypes, supervisor!Cancelled, supervisor!Record

LEMMA FinalizeTypes ==
  ASSUME SupervisorTypes, NEW r \in Runs, NEW why \in supervisor!Reasons,
         supervisor!Finalize(r, why)
  PROVE  records' \in [Runs -> supervisor!Record] /\ order' \subseteq Runs \X Runs
<1>1. CASE records[r] = supervisor!Absent
  BY <1>1 DEF supervisor!Finalize, SupervisorTypes
<1>2. CASE records[r] # supervisor!Absent
  <2> DEFINE ended == [state |-> "exited",
                       reason |-> supervisor!First(records[r].reason, why)]
             recs == [records EXCEPT ![r] = ended]
  <2>1. supervisor!Prune(recs)
    BY <1>2 DEF supervisor!Finalize
  <2>2. ended \in supervisor!Record
    BY DEF SupervisorTypes, supervisor!Record, supervisor!First
  <2> HIDE DEF ended
  <2>3. recs \in [Runs -> supervisor!Record]
    BY <2>2 DEF SupervisorTypes
  <2>4. supervisor!Absent \in supervisor!Record
    BY DEF supervisor!Absent, supervisor!Record
  <2> HIDE DEF recs
  <2>5. records' = [q \in Runs |-> IF q \in supervisor!Surplus(recs)
                                   THEN supervisor!Absent ELSE recs[q]]
        /\ order' \subseteq order
    BY <2>1 DEF supervisor!Prune
  <2> QED
    BY <2>3, <2>4, <2>5 DEF SupervisorTypes
<1> QED
  BY <1>1, <1>2

LEMMA SpawnTypes ==
  ASSUME SupervisorTypes, NEW r \in Runs, supervisor!Spawn(r) PROVE SupervisorTypes'
<1> DEFINE S == supervisor!Replaced(r)
           recs == supervisor!Cancelled(S, records, "manual-cancel")
<1>1. S \in SUBSET Runs /\ "manual-cancel" \in supervisor!Reasons
  BY DEF supervisor!Replaced, supervisor!InScope, SupervisorTypes, supervisor!Reasons
<1>2. /\ records' = [recs EXCEPT ![r] = [state |-> "starting", reason |-> None]]
      /\ order' \subseteq order \cup (supervisor!Present \X {r})
      /\ supervisor!Request(S, "manual-cancel")
      /\ stage' = [stage EXCEPT ![r] = "spawning"]
      /\ UNCHANGED <<active, exit>>
  BY DEF supervisor!Spawn
<1>3. recs \in [Runs -> supervisor!Record]
  BY <1>1, CancelledTypes
<1>4. overlapped' \subseteq Runs
  BY DEF supervisor!Spawn, supervisor!Pending, SupervisorTypes
<1>5. [state |-> "starting", reason |-> None] \in supervisor!Record
  BY DEF supervisor!Record
<1> HIDE DEF S, recs
<1>6. records' \in [Runs -> supervisor!Record]
  BY <1>2, <1>3, <1>5
<1>7. order' \subseteq Runs \X Runs
  BY <1>2 DEF SupervisorTypes, supervisor!Present
<1>8. stage' \in [Runs -> supervisor!Stage]
  BY <1>2 DEF SupervisorTypes, supervisor!Stage
<1>9. forced' \in [Runs -> supervisor!Reasons \cup {None}] /\ process' \in [Runs -> Process]
  BY <1>1, <1>2, RequestTypes
<1> QED
  BY <1>2, <1>4, <1>6, <1>7, <1>8, <1>9 DEF SupervisorTypes

LEMMA SpawnEndsTypes ==
  ASSUME SupervisorTypes, NEW r \in Runs,
         supervisor!SpawnSucceeds(r) \/ supervisor!SpawnFails(r)
  PROVE  SupervisorTypes'
<1>1. CASE supervisor!SpawnSucceeds(r)
  <2>1. /\ stage' = [stage EXCEPT ![r] = "up"]
        /\ process' = [process EXCEPT ![r] = "live"]
        /\ records' = [records EXCEPT ![r] =
             [state |-> "running", reason |-> records[r].reason]]
        /\ active' = active \cup {r}
        /\ UNCHANGED <<order, forced, exit, overlapped>>
    BY <1>1 DEF supervisor!SpawnSucceeds
  <2>2. [state |-> "running", reason |-> records[r].reason] \in supervisor!Record
    BY DEF SupervisorTypes, supervisor!Record
  <2> QED
    BY <2>1, <2>2 DEF SupervisorTypes, supervisor!Stage, Process
<1>2. CASE supervisor!SpawnFails(r)
  <2>1. /\ stage' = [stage EXCEPT ![r] = "failed"]
        /\ supervisor!Finalize(r, "spawn-error")
        /\ UNCHANGED <<active, forced, process, exit, overlapped>>
    BY <1>2 DEF supervisor!SpawnFails
  <2>2. "spawn-error" \in supervisor!Reasons
    BY DEF supervisor!Reasons
  <2>3. records' \in [Runs -> supervisor!Record] /\ order' \subseteq Runs \X Runs
    BY <2>1, <2>2, FinalizeTypes
  <2> QED
    BY <2>1, <2>3 DEF SupervisorTypes, supervisor!Stage
<1> QED
  BY <1>1, <1>2

LEMMA ClosesTypes ==
  ASSUME SupervisorTypes, NEW r \in Runs, supervisor!Closes(r) PROVE SupervisorTypes'
<1>1. PICK natural \in {"exit", "signal"} : supervisor!Settle(r, natural)
  BY DEF supervisor!Closes
<1> DEFINE why == supervisor!First(forced[r], natural)
<1>2. why \in supervisor!Reasons
  BY DEF SupervisorTypes, supervisor!First, supervisor!Reasons
<1>3. /\ stage' = [stage EXCEPT ![r] = "settled"]
      /\ active' = active \ {r}
      /\ exit' = [exit EXCEPT ![r] = why]
      /\ supervisor!Finalize(r, why)
      /\ UNCHANGED <<forced, process, overlapped>>
  BY <1>1 DEF supervisor!Settle
<1> HIDE DEF why
<1>4. records' \in [Runs -> supervisor!Record] /\ order' \subseteq Runs \X Runs
  BY <1>2, <1>3, FinalizeTypes
<1> QED
  BY <1>2, <1>3, <1>4 DEF SupervisorTypes, supervisor!Stage

LEMMA DiesTypes ==
  ASSUME SupervisorTypes, NEW r \in Runs, supervisor!Dies(r) PROVE SupervisorTypes'
<1>1. process' \in [Runs -> Process]
  BY DEF supervisor!Dies, SupervisorTypes, Process
<1> QED
  BY <1>1 DEF supervisor!Dies, SupervisorTypes

\* Only instances that have begun are stopped.
LEMMA StopTypes ==
  ASSUME SupervisorTypes, ManagerTypes, NEW R \in SUBSET Runs, StopRuns(R),
         \A r \in R : call[r] = "begun", UNCHANGED call
  PROVE  /\ SupervisorTypes'
         /\ state' \in [Runs -> State]
         /\ \A r \in Runs : call'[r] = "begun" <=> state'[r] # "inactive"
         /\ dropped' \subseteq Runs
<1>1. /\ "manual-cancel" \in supervisor!Reasons
      /\ R \cap active \in SUBSET Runs
      /\ {r \in R \cap active : forced[r] = None} \in SUBSET Runs
  BY DEF supervisor!Reasons
<1>2. records' \in [Runs -> supervisor!Record]
  BY <1>1, CancelledTypes DEF StopRuns
<1>3. forced' \in [Runs -> supervisor!Reasons \cup {None}] /\ process' \in [Runs -> Process]
  BY <1>1, RequestTypes DEF StopRuns
<1>4. SupervisorTypes'
  BY <1>2, <1>3 DEF StopRuns, SupervisorTypes
<1>5. state' \in [Runs -> State]
      /\ \A r \in Runs : state'[r] = CASE r \in R \cap active -> "stopping"
                                       [] r \in R \ active -> "stopped"
                                       [] OTHER -> state[r]
  BY DEF StopRuns, ManagerTypes, State
<1>6. \A r \in R : state'[r] \in {"stopping", "stopped"}
  BY <1>5
<1>7. \A r \in Runs \ R : state'[r] = state[r]
  BY <1>5
<1>8. \A r \in Runs : call'[r] = "begun" <=> state'[r] # "inactive"
  BY <1>6, <1>7 DEF ManagerTypes
<1>9. dropped' \subseteq Runs
  BY DEF StopRuns, ManagerTypes
<1> QED
  BY <1>4, <1>5, <1>8, <1>9

LEMMA TrackedBegun ==
  ASSUME IInv, ManagerTypes, NEW s \in Services, instances[s] # None
  PROVE  instances[s] \in Runs /\ call[instances[s]] = "begun"
BY DEF IInv, ManagerTypes, TrackedFollows, Tracked

LEMMA StepTypes ==
  ASSUME SupervisorTypes, ManagerTypes, IInv, [Next]_vars
  PROVE  SupervisorTypes' /\ ManagerTypes'
<1>1. ASSUME NEW r \in Runs, StartCall(r) PROVE SupervisorTypes' /\ ManagerTypes'
  <2>1. SupervisorTypes'
    BY <1>1 DEF StartCall, supervisorVars, SupervisorTypes
  <2>2. ManagerTypes'
    BY <1>1 DEF StartCall, ManagerTypes
  <2> QED
    BY <2>1, <2>2
<1>2. ASSUME NEW r \in Runs, StartDiscovered(r) PROVE SupervisorTypes' /\ ManagerTypes'
  <2>1. SupervisorTypes'
    <3>1. CASE supervisor!Spawn(r)
      BY <3>1, SpawnTypes
    <3>2. CASE UNCHANGED supervisorVars
      BY <3>2 DEF supervisorVars, SupervisorTypes
    <3> QED
      BY <1>2, <3>1, <3>2 DEF StartDiscovered
  <2>2. call[r] = "discovering" /\ UNCHANGED <<cleanup, disposing, awaited, unexpected>>
    BY <1>2 DEF StartDiscovered
  <2>3. CASE call' = [call EXCEPT ![r] = "rejected"] /\ UNCHANGED <<state, instances, dropped>>
    BY <2>1, <2>2, <2>3 DEF ManagerTypes
  <2>4. CASE /\ call' = [call EXCEPT ![r] = "begun"]
             /\ instances' = [instances EXCEPT ![ServiceOf[r]] = r]
             /\ \E new \in {"starting", "error"} : state' = [state EXCEPT ![r] = new]
             /\ dropped' \subseteq dropped \cup ({instances[ServiceOf[r]]} \ {None})
    <3>1. instances' \in [Services -> Runs \cup {None}]
          /\ \A s \in Services : instances'[s] # None => ServiceOf[instances'[s]] = s
      BY <2>4 DEF ManagerTypes
    <3>2. state' \in [Runs -> State]
          /\ call' \in [Runs -> {"none", "discovering", "rejected", "begun"}]
      BY <2>4 DEF ManagerTypes, State
    <3>3. \A q \in Runs : call'[q] = "begun" <=> state'[q] # "inactive"
      BY <2>4 DEF ManagerTypes
    <3>4. dropped' \subseteq Runs
      <4>1. instances[ServiceOf[r]] \in Runs \cup {None} /\ dropped \subseteq Runs
        BY DEF ManagerTypes
      <4> QED
        BY <2>4, <4>1
    <3> QED
      BY <2>1, <2>2, <3>1, <3>2, <3>3, <3>4 DEF ManagerTypes
  <2> QED
    BY <1>2, <2>1, <2>3, <2>4 DEF StartDiscovered
<1>3. ASSUME NEW r \in Runs, SpawnSucceeds(r) \/ SpawnFails(r)
      PROVE  SupervisorTypes' /\ ManagerTypes'
  <2>1. SupervisorTypes'
    BY <1>3, SpawnEndsTypes DEF SpawnSucceeds, SpawnFails
  <2>2. call[r] = "begun"
    <3>1. stage[r] = "spawning"
      BY <1>3 DEF SpawnSucceeds, SpawnFails, supervisor!SpawnSucceeds,
                  supervisor!SpawnFails
    <3> QED
      BY <3>1 DEF IInv, NotBegun
  <2>3. /\ \E new \in {"started", "error"} : state' = [state EXCEPT ![r] = new]
        /\ UNCHANGED <<call, instances, cleanup, disposing, awaited, unexpected, dropped>>
    BY <1>3 DEF SpawnSucceeds, SpawnFails
  <2>4. ManagerTypes'
    BY <2>2, <2>3 DEF ManagerTypes, State
  <2> QED
    BY <2>1, <2>4
<1>4. ASSUME NEW r \in Runs, CleanupTimer(r) PROVE SupervisorTypes' /\ ManagerTypes'
  BY <1>4 DEF CleanupTimer, supervisorVars, SupervisorTypes, ManagerTypes
<1>5. ASSUME NEW r \in Runs, Dies(r) PROVE SupervisorTypes' /\ ManagerTypes'
  BY <1>5, DiesTypes DEF Dies, managerVars, ManagerTypes
<1>6. ASSUME NEW r \in Runs, NEW code \in {"zero", "other"}, Exit(r, code)
      PROVE  SupervisorTypes' /\ ManagerTypes'
  <2>1. SupervisorTypes'
    BY <1>6, ClosesTypes DEF Exit
  <2>2. call[r] = "begun"
    BY <1>6, ClosesEffect DEF Exit, IInv, NotBegun
  <2>3. /\ state' \in [Runs -> State]
        /\ \A q \in Runs \ {r} : state'[q] = state[q]
        /\ state'[r] # "inactive"
    BY <1>6, ExitEffect
  <2>4. /\ unexpected' \subseteq Runs /\ cleanup' \subseteq Runs
        /\ UNCHANGED <<call, instances, disposing, awaited, dropped>>
    BY <1>6 DEF Exit, ManagerTypes
  <2>5. ManagerTypes'
    BY <2>2, <2>3, <2>4 DEF ManagerTypes
  <2> QED
    BY <2>1, <2>5
<1>7. ASSUME NEW s \in Services, StopService(s) PROVE SupervisorTypes' /\ ManagerTypes'
  <2>1. {instances[s]} \in SUBSET Runs /\ \A r \in {instances[s]} : call[r] = "begun"
    BY <1>7, TrackedBegun DEF StopService, IsRunning
  <2> QED
    BY <1>7, <2>1, StopTypes DEF StopService, ManagerTypes
<1>8. CASE Dispose
  <2> DEFINE running == {instances[s] : s \in {t \in Services : IsRunning(t)}}
  <2>1. running \in SUBSET Runs /\ \A r \in running : call[r] = "begun"
    BY TrackedBegun DEF IsRunning
  <2>2. /\ StopRuns(running) /\ awaited' = running \cap active /\ disposing' = TRUE
        /\ UNCHANGED <<call, instances, cleanup, unexpected>>
    BY <1>8 DEF Dispose, StopAllServices
  <2> HIDE DEF running
  <2> QED
    BY <2>1, <2>2, StopTypes DEF ManagerTypes
<1>9. CASE ClearInstances
  <2>1. SupervisorTypes'
    BY <1>9 DEF ClearInstances, supervisorVars, SupervisorTypes
  <2>2. ManagerTypes'
    BY <1>9 DEF ClearInstances, ManagerTypes
  <2> QED
    BY <2>1, <2>2
<1>10. CASE CleanupStoppedServices
  <2>1. SupervisorTypes'
    BY <1>10 DEF CleanupStoppedServices, supervisorVars, SupervisorTypes
  <2>2. ManagerTypes'
    BY <1>10 DEF CleanupStoppedServices, ManagerTypes
  <2> QED
    BY <2>1, <2>2
<1>11. CASE UNCHANGED vars
  BY <1>11 DEF vars, supervisorVars, managerVars, SupervisorTypes, ManagerTypes
<1> QED
  BY <1>1, <1>2, <1>3, <1>4, <1>5, <1>6, <1>7, <1>8, <1>9, <1>10, <1>11 DEF Next

\* The tables of the manager and of its supervisor keep their types; a start call
\* has made an instance exactly when the instance has a state, and the map names
\* an instance of the service itself (startService of lifecycle.ts).
THEOREM ServiceTypesHold == Spec => []TypeOK
<1>1. Init => SupervisorTypes /\ ManagerTypes
  BY InitTypes
<1>2. SupervisorTypes /\ ManagerTypes /\ IInv /\ [Next]_vars
        => SupervisorTypes' /\ ManagerTypes'
  BY StepTypes
<1> QED
  BY <1>1, <1>2, Invariant, TypesAre, PTL DEF Spec
===========================================================================
