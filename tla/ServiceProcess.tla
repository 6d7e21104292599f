-------------------------- MODULE ServiceProcess --------------------------
(***************************************************************************)
(* The processes of the installed services: ServiceLifecycleManager of     *)
(* services/lifecycle.ts, composed with the process supervisor it spawns   *)
(* them with.  A start call awaits the discovery of the service and the    *)
(* spawn of its process, a stop call awaits the end of the process, and    *)
(* calls for the same service interleave at these awaits.                  *)
(*                                                                         *)
(* A run stands for one start call, for the instance object the call       *)
(* creates and for the process it spawns.                                  *)
(***************************************************************************)
EXTENDS Naturals, FiniteSets

CONSTANTS
  Runs,       \* start calls
  Services,   \* service ids
  None,       \* no run, no reason
  ServiceOf,  \* ServiceOf[r]: the service that the call starts
  MaxExited   \* the supervisor's maxExitedRecords

VARIABLES records, order, active, stage, forced, process, exit, overlapped

VARIABLES
  call,        \* how far each start call is before it has an instance
  state,       \* the state of the instance that each call created
  instances,   \* the map of that name: the instance of each service
  cleanup,     \* the runs whose instance is deleted after a minute
  disposing,   \* has dispose() been called, and not ended
  awaited,     \* the runs whose end stopAllServices waits for
  unexpected,  \* history: runs whose end was reported as unexpected
  dropped      \* history: runs that the map lost, or had as stopped, while their
               \* process was pending or up

\* Every service process is a child without timeouts, in a scope of its
\* service, which replaces the others of the scope.
supervisor == INSTANCE ProcessSupervisor WITH
  Scopes <- Services, ScopeOf <- ServiceOf, Replaces <- Runs, Pty <- {},
  Limits <- [r \in Runs |-> {}], timers <- [r \in Runs |-> {}],
  fallback <- {}, late <- {}

ASSUME ServiceTypes ==
  /\ None \notin Runs \cup Services \cup supervisor!Reasons
  /\ ServiceOf \in [Runs -> Services]

supervisorVars ==
  <<records, order, active, stage, forced, process, exit, overlapped>>
managerVars ==
  <<call, state, instances, cleanup, disposing, awaited, unexpected, dropped>>
vars == <<supervisorVars, managerVars>>

State == {"inactive", "starting", "started", "stopping", "stopped", "error"}

TypeOK ==
  /\ supervisor!TypeOK
  /\ call \in [Runs -> {"none", "discovering", "rejected", "begun"}]
  /\ state \in [Runs -> State]
  /\ \A r \in Runs : call[r] = "begun" <=> state[r] # "inactive"
  /\ instances \in [Services -> Runs \cup {None}]
  /\ \A s \in Services : instances[s] # None => ServiceOf[instances[s]] = s
  /\ cleanup \subseteq Runs
  /\ disposing \in BOOLEAN
  /\ awaited \subseteq Runs
  /\ unexpected \subseteq Runs
  /\ dropped \subseteq Runs

Init ==
  /\ supervisor!Init
  /\ call = [r \in Runs |-> "none"]
  /\ state = [r \in Runs |-> "inactive"]
  /\ instances = [s \in Services |-> None]
  /\ cleanup = {}
  /\ disposing = FALSE
  /\ awaited = {}
  /\ unexpected = {}
  /\ dropped = {}

\* The instance of the run is the one that the map holds for its service.
Tracked(r) == instances[ServiceOf[r]] = r
IsRunning(s) ==
  instances[s] # None /\ state[instances[s]] \in {"starting", "started"}
---------------------------------------------------------------------------
(* startService *)

StartCall(r) ==
  /\ call[r] = "none"
  /\ ~IsRunning(ServiceOf[r])
  /\ call' = [call EXCEPT ![r] = "discovering"]
  /\ UNCHANGED <<supervisorVars, state, instances, cleanup, disposing, awaited,
                 unexpected, dropped>>

\* Mutant: the instance is inactive until its process is up.
StartDiscoveredInactive(r) ==
  /\ call[r] = "discovering"
  /\ call' = [call EXCEPT ![r] = "begun"]
  /\ instances' = [instances EXCEPT ![ServiceOf[r]] = r]
  /\ supervisor!Spawn(r)
  /\ UNCHANGED <<state, cleanup, disposing, awaited, unexpected, dropped>>

\* Whatever has happened to the service since the call, its instance is
\* replaced and the process is spawned; unless the service is not found, or its
\* log directory cannot be made.
StartDiscovered(r) ==
  /\ call[r] = "discovering"
  /\ \/ /\ call' = [call EXCEPT ![r] = "rejected"]
        /\ UNCHANGED <<supervisorVars, state, instances, dropped>>
     \/ /\ call' = [call EXCEPT ![r] = "begun"]
        /\ instances' = [instances EXCEPT ![ServiceOf[r]] = r]
        /\ \/ /\ state' = [state EXCEPT ![r] = "starting"]
              /\ supervisor!Spawn(r)
              /\ UNCHANGED dropped
           \/ /\ state' = [state EXCEPT ![r] = "error"]
              /\ dropped' = dropped \cup ({instances[ServiceOf[r]]} \ {None})
              /\ UNCHANGED supervisorVars
  /\ UNCHANGED <<cleanup, disposing, awaited, unexpected>>

\* The instance is started even if it was stopped, or replaced, meanwhile.
SpawnSucceeds(r) ==
  /\ supervisor!SpawnSucceeds(r)
  /\ state' = [state EXCEPT ![r] = "started"]
  /\ UNCHANGED <<call, instances, cleanup, disposing, awaited, unexpected,
                 dropped>>

SpawnFails(r) ==
  /\ supervisor!SpawnFails(r)
  /\ state' = [state EXCEPT ![r] = "error"]
  /\ UNCHANGED <<call, instances, cleanup, disposing, awaited, unexpected,
                 dropped>>
---------------------------------------------------------------------------
(* stopService, stopAllServices, dispose *)

\* Mutant: the stopped process is not cancelled.
StopRunsWaiting(R) ==
  /\ state' = [r \in Runs |->
       CASE r \in R \cap active -> "stopping"
         [] r \in R \ active -> "stopped"
         [] OTHER -> state[r]]
  /\ dropped' = dropped \cup (R \ active)
  /\ UNCHANGED supervisorVars

\* Mutant: an instance is not marked while its process is cancelled.
StopRunsUnmarked(R) ==
  /\ state' = [r \in Runs |-> IF r \in R \ active THEN "stopped" ELSE state[r]]
  /\ dropped' = dropped \cup (R \ active)
  /\ records' = supervisor!Cancelled({r \in R \cap active : forced[r] = None},
                                     records, "manual-cancel")
  /\ supervisor!Request(R \cap active, "manual-cancel")
  /\ UNCHANGED <<order, active, stage, exit, overlapped>>

\* A process that is up is cancelled, and its end is waited for.  An instance
\* that has no process yet is stopped at once; its spawn goes on.
StopRuns(R) ==
  /\ state' = [r \in Runs |->
       CASE r \in R \cap active -> "stopping"
         [] r \in R \ active -> "stopped"
         [] OTHER -> state[r]]
  /\ dropped' = dropped \cup (R \ active)
  /\ records' = supervisor!Cancelled({r \in R \cap active : forced[r] = None},
                                     records, "manual-cancel")
  /\ supervisor!Request(R \cap active, "manual-cancel")
  /\ UNCHANGED <<order, active, stage, exit, overlapped>>

StopService(s) ==
  /\ IsRunning(s)
  /\ StopRuns({instances[s]})
  /\ UNCHANGED <<call, instances, cleanup, disposing, awaited, unexpected>>

StopAllServices ==
  LET running == {instances[s] : s \in {t \in Services : IsRunning(t)}}
  IN  /\ StopRuns(running)
      /\ awaited' = running \cap active

Dispose ==
  /\ ~disposing
  /\ disposing' = TRUE
  /\ StopAllServices
  /\ UNCHANGED <<call, instances, cleanup, unexpected>>

\* dispose() empties the map when the services it stopped have ended.  A start
\* that began meanwhile is forgotten.
ClearInstances ==
  /\ disposing
  /\ \A r \in awaited : state[r] # "stopping"
  /\ disposing' = FALSE
  /\ awaited' = {}
  /\ instances' = [s \in Services |-> None]
  /\ dropped' = dropped \cup
       {r \in Runs : Tracked(r) /\ stage[r] \in {"spawning", "up"}}
  /\ UNCHANGED <<supervisorVars, call, state, cleanup, unexpected>>
---------------------------------------------------------------------------
(* The end of a process, and what is left of it *)

\* Mutant: only a clean exit changes the state.
ExitClean(r, code) ==
  /\ code = "other" \/ process[r] = "exited"
  /\ state' = [state EXCEPT ![r] =
       IF @ = "stopping" \/ (Tracked(r) /\ code = "zero") THEN "stopped" ELSE @]
  /\ supervisor!Closes(r)
  /\ UNCHANGED <<call, instances, cleanup, disposing, awaited, unexpected,
                 dropped>>

\* The exit handler acts on an instance that is still in the map; after it, a
\* stop call that waits goes on.  A process that ends by a signal has no code.
Exit(r, code) ==
  /\ code = "other" \/ process[r] = "exited"
  /\ state' = [state EXCEPT ![r] =
       CASE @ = "stopping" -> "stopped"
         [] @ # "stopping" /\ Tracked(r) ->
              IF code = "zero" THEN "stopped" ELSE "error"
         [] OTHER -> @]
  /\ IF Tracked(r)
     THEN /\ unexpected' = IF state[r] = "started" /\ code # "zero"
                           THEN unexpected \cup {r} ELSE unexpected
          /\ cleanup' = cleanup \cup {r}
     ELSE UNCHANGED <<unexpected, cleanup>>
  /\ supervisor!Closes(r)
  /\ UNCHANGED <<call, instances, disposing, awaited, dropped>>

\* Mutant: whatever instance the service has is deleted.
CleanupTimerAny(r) ==
  /\ r \in cleanup
  /\ cleanup' = cleanup \ {r}
  /\ instances' = [instances EXCEPT ![ServiceOf[r]] = None]
  /\ UNCHANGED <<supervisorVars, call, state, disposing, awaited, unexpected,
                 dropped>>

\* A minute after its end the instance is deleted, if it was not replaced.
CleanupTimer(r) ==
  /\ r \in cleanup
  /\ cleanup' = cleanup \ {r}
  /\ instances' = IF Tracked(r) THEN [instances EXCEPT ![ServiceOf[r]] = None]
                  ELSE instances
  /\ UNCHANGED <<supervisorVars, call, state, disposing, awaited, unexpected,
                 dropped>>

\* An instance that was stopped before its process came up is deleted too.
CleanupStoppedServices ==
  /\ instances' = [s \in Services |->
       IF instances[s] # None /\ state[instances[s]] \in {"stopped", "error"}
       THEN None ELSE instances[s]]
  /\ instances' # instances
  /\ UNCHANGED <<supervisorVars, call, state, cleanup, disposing, awaited,
                 unexpected, dropped>>

Dies(r) == supervisor!Dies(r) /\ UNCHANGED managerVars
---------------------------------------------------------------------------
Next ==
  \/ \E r \in Runs :
       \/ StartCall(r) \/ StartDiscovered(r) \/ SpawnSucceeds(r) \/ SpawnFails(r)
       \/ CleanupTimer(r) \/ Dies(r)
       \/ \E code \in {"zero", "other"} : Exit(r, code)
  \/ \E s \in Services : StopService(s)
  \/ Dispose \/ ClearInstances \/ CleanupStoppedServices

\* A killed process dies, and its end is noticed.
Fairness ==
  \A r \in Runs :
    /\ WF_vars(process[r] = "killed" /\ Dies(r))
    /\ WF_vars(\E code \in {"zero", "other"} : Exit(r, code))

Spec == Init /\ [][Next]_vars
FairSpec == Spec /\ Fairness
---------------------------------------------------------------------------
(* Properties *)

\* What the map says of a service is true of its process: started means that it
\* has come up and its end was not noticed, starting means that it is spawned.
InstanceTellsProcess ==
  \A r \in Runs : Tracked(r) =>
    /\ state[r] = "started" => r \in active
    /\ state[r] = "starting" => stage[r] = "spawning"
    /\ state[r] \in {"stopped", "error"} => r \notin active

\* A process that is up, and that nobody asked to end, can be stopped: the map
\* has its instance as started.  Excepted are those spawned while another start
\* of their service was pending, those stopped before they had come up, those
\* that came up while dispose() waited for others, and those replaced by a start
\* that could not make its log directory.
LiveIsManaged ==
  \A r \in active :
    forced[r] # None \/ r \in overlapped \cup dropped
      \/ (Tracked(r) /\ state[r] = "started")

\* An end is reported as unexpected only if no stop, no disposal and no later
\* start asked for it.
UnexpectedWasNotAsked == \A r \in unexpected : forced[r] = None

\* What the manager tells of its services is true, in the map and to its hooks.
ReportsSound == InstanceTellsProcess /\ UnexpectedWasNotAsked

\* "Maintains state machine: inactive -> starting -> started -> stopping ->
\* stopped" (lifecycle.ts): a stopped instance does not come back.
StoppedStaysStopped ==
  [][\A r \in Runs : state[r] = "stopped" => state'[r] = "stopped"]_vars

\* Every stop ends, and dispose() with it, whatever the process answers.
StopEnds ==
  /\ \A r \in Runs : state[r] = "stopping" ~> state[r] = "stopped"
  /\ disposing ~> \A r \in awaited : state[r] = "stopped"
===========================================================================
