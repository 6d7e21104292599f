------------------------- MODULE RestartScheduler -------------------------
(***************************************************************************)
(* How a gateway asks itself to restart, infra/restart.ts, with the two    *)
(* users of it: scheduleGatewaySigusr1Restart (config, update and restart  *)
(* commands) and the config watcher of gateway/server-reload-handlers.ts.  *)
(* A request waits for a delay, then for the pending work, and ends in     *)
(* SIGUSR1, which the run loop accepts, or ignores while it shuts down.    *)
(*                                                                         *)
(* Times are what is left of them in units of the clock, which makes the   *)
(* model independent of the date.  process.emit runs the loop's handler at *)
(* once, so the restart cycle of an emission is marked as handled within   *)
(* the call, and the guards that look for an unhandled one never apply.    *)
(***************************************************************************)
EXTENDS Integers, Sequences, SequencesExt

CONSTANTS
  Delays,     \* the delays a request may ask for
  Cooldown,   \* RESTART_COOLDOWN_MS
  MaxWait,    \* DEFAULT_DEFERRAL_MAX_WAIT_MS
  MaxPolls,   \* bound: deferrals at a time
  None

ASSUME SchedulerTypes ==
  Delays \subseteq Nat /\ Cooldown \in Nat /\ MaxWait \in Nat /\ None \notin Nat

VARIABLES
  timer,            \* what is left of pendingRestartTimer, or None
  cooldown,         \* what is left of the cooldown of the last emission
  polls,            \* the deferrals that poll: who asked, and how long ago
  restartPending,   \* the flag of the config watcher of this server
  authorized,       \* sigusr1AuthorizedCount
  externalAllowed,  \* sigusr1ExternalAllowed
  busy,             \* is there pending work
  phase,            \* where the run loop is
  asked             \* history: a request waits for its signal

requestVars == <<timer, cooldown, polls, restartPending, asked>>
schedulerVars == <<timer, cooldown, polls, restartPending, authorized, externalAllowed,
          busy, phase, asked>>

\* "past" is the watcher of an earlier server: its deferral polls on.
Askers == {"command", "watcher", "past"}
Phases == {"serving", "draining", "starting", "down"}

SchedulerTypeOK ==
  /\ timer \in Nat \cup {None}
  /\ cooldown \in 0..Cooldown
  /\ polls \in Seq([by : Askers, waited : 0..MaxWait])
  /\ restartPending \in BOOLEAN
  /\ authorized \in Nat
  /\ externalAllowed \in BOOLEAN
  /\ busy \in BOOLEAN
  /\ phase \in Phases
  /\ asked \in BOOLEAN
  /\ asked => timer # None \/ polls # <<>>

SchedulerInit ==
  /\ timer = None
  /\ cooldown = 0
  /\ polls = <<>>
  /\ restartPending = FALSE
  /\ authorized = 0
  /\ externalAllowed \in BOOLEAN
  /\ busy = FALSE
  /\ phase = "serving"
  /\ asked = FALSE

ServerUp == phase \in {"serving", "draining"}
RoomToPoll == Len(polls) + (IF timer = None THEN 0 ELSE 1) < MaxPolls
---------------------------------------------------------------------------
(* The signal and its handler *)

\* A restart that is accepted during start() restarts nothing; see
\* GatewayRestart.
Restart == phase' = IF phase \in {"serving", "down"} THEN "draining" ELSE phase

\* Mutant: the handler asks for an authorization and does not spend it.
KeepAuthorization(given) ==
  /\ given > 0 \/ externalAllowed
  /\ authorized' = given
  /\ Restart

HandleSigusr1(given) ==
  /\ given > 0 \/ externalAllowed
  /\ authorized' = IF given > 0 THEN given - 1 ELSE given
  /\ Restart

\* Mutant: the emission leaves the scheduled restart to its timer.
EmitBesideTimer ==
  /\ UNCHANGED timer
  /\ cooldown' = Cooldown
  /\ asked' = FALSE
  /\ HandleSigusr1(authorized + 1)

Emit ==
  /\ timer' = None
  /\ cooldown' = Cooldown
  /\ asked' = FALSE
  /\ HandleSigusr1(authorized + 1)

\* SIGUSR1 from another process, such as the command line's restart.
OutsideSignal ==
  /\ HandleSigusr1(authorized)
  /\ UNCHANGED <<requestVars, externalAllowed, busy>>
---------------------------------------------------------------------------
(* Requests *)

\* Mutant: the later of the two requests sets the timer.
ScheduleLatest(delay) ==
  /\ ServerUp /\ RoomToPoll
  /\ asked' = TRUE
  /\ LET due == delay + cooldown
     IN  timer' = IF timer = None \/ due > timer THEN due ELSE timer
  /\ UNCHANGED <<cooldown, polls, restartPending, authorized, externalAllowed,
                 busy, phase>>

\* A request waits for the cooldown too; it joins the scheduled one unless
\* it is due earlier.
Schedule(delay) ==
  /\ ServerUp /\ RoomToPoll
  /\ asked' = TRUE
  /\ LET due == delay + cooldown
     IN  timer' = IF timer = None \/ due < timer THEN due ELSE timer
  /\ UNCHANGED <<cooldown, polls, restartPending, authorized, externalAllowed,
                 busy, phase>>

\* Mutant: the timer gives the request up when work is pending.
TimerGivesUp ==
  /\ timer = 0
  /\ IF busy
     THEN timer' = None /\ UNCHANGED <<polls, cooldown, authorized, phase, asked>>
     ELSE Emit /\ UNCHANGED polls
  /\ UNCHANGED <<restartPending, externalAllowed, busy>>

TimerFires ==
  /\ timer = 0
  /\ IF busy
     THEN /\ timer' = None
          /\ polls' = Append(polls, [by |-> "command", waited |-> 0])
          /\ UNCHANGED <<cooldown, authorized, phase, asked>>
     ELSE Emit /\ UNCHANGED polls
  /\ UNCHANGED <<restartPending, externalAllowed, busy>>

\* The watcher of the server in place finds a change that needs a restart.
\* It neither waits for the cooldown nor looks at the timer.
WatcherRequests ==
  /\ ServerUp /\ RoomToPoll
  /\ externalAllowed' \in BOOLEAN
  /\ \/ /\ ~busy
        /\ Emit
        /\ UNCHANGED <<polls, restartPending>>
     \/ /\ busy /\ restartPending
        /\ UNCHANGED <<requestVars, authorized, phase>>
     \/ /\ busy /\ ~restartPending
        /\ restartPending' = TRUE
        /\ polls' = Append(polls, [by |-> "watcher", waited |-> 0])
        /\ asked' = TRUE
        /\ UNCHANGED <<timer, cooldown, authorized, phase>>
  /\ UNCHANGED busy

\* Mutant: a deferral waits for the work without a limit.
PollsUntilIdle(i) ==
  /\ ~busy
  /\ polls' = RemoveAt(polls, i)
  /\ restartPending' = (restartPending /\ polls[i].by # "watcher")
  /\ Emit
  /\ UNCHANGED <<externalAllowed, busy>>

\* Mutant: the hooks of a deferral that timed out leave the flag.
PollEndsQuietly(i) ==
  /\ ~busy \/ polls[i].waited = MaxWait
  /\ polls' = RemoveAt(polls, i)
  /\ restartPending' = (restartPending /\ (busy \/ polls[i].by # "watcher"))
  /\ Emit
  /\ UNCHANGED <<externalAllowed, busy>>

PollEnds(i) ==
  /\ ~busy \/ polls[i].waited = MaxWait
  /\ polls' = RemoveAt(polls, i)
  /\ restartPending' = (restartPending /\ polls[i].by # "watcher")
  /\ Emit
  /\ UNCHANGED <<externalAllowed, busy>>
---------------------------------------------------------------------------
(* The rest of the process *)

Less(n) == IF n = 0 THEN 0 ELSE n - 1

\* Timers and polls may be late: time passes over them.
Tick ==
  /\ timer' = IF timer = None THEN None ELSE Less(timer)
  /\ cooldown' = Less(cooldown)
  /\ polls' = [i \in DOMAIN polls |-> [polls[i] EXCEPT !.waited =
                 IF @ = MaxWait THEN MaxWait ELSE @ + 1]]
  /\ UNCHANGED <<restartPending, authorized, externalAllowed, busy, phase, asked>>

WorkChanges ==
  /\ busy' = ~busy
  /\ UNCHANGED <<requestVars, authorized, externalAllowed, phase>>

HotReload ==
  /\ ServerUp
  /\ externalAllowed' \in BOOLEAN
  /\ UNCHANGED <<requestVars, authorized, busy, phase>>

ServerCloses ==
  /\ phase = "draining"
  /\ phase' = "starting"
  /\ UNCHANGED <<requestVars, authorized, externalAllowed, busy>>

ServerStartFails ==
  /\ phase = "starting"
  /\ phase' = "down"
  /\ UNCHANGED <<requestVars, authorized, externalAllowed, busy>>

\* A new server has a watcher of its own; what the last one began goes on.
Started ==
  /\ phase = "starting"
  /\ phase' = "serving"
  /\ externalAllowed' \in BOOLEAN
  /\ restartPending' = FALSE
  /\ polls' = [i \in DOMAIN polls |->
                 IF polls[i].by = "watcher" THEN [polls[i] EXCEPT !.by = "past"]
                 ELSE polls[i]]
  /\ UNCHANGED <<timer, cooldown, authorized, busy, asked>>

SchedulerNext ==
  \/ OutsideSignal
  \/ \E d \in Delays : Schedule(d)
  \/ TimerFires
  \/ WatcherRequests
  \/ \E i \in DOMAIN polls : PollEnds(i)
  \/ Tick
  \/ WorkChanges
  \/ HotReload
  \/ ServerCloses
  \/ ServerStartFails
  \/ Started

SchedulerSpec == SchedulerInit /\ [][SchedulerNext]_schedulerVars

FairSchedulerSpec ==
  /\ SchedulerSpec
  /\ WF_schedulerVars(Tick)
  /\ WF_schedulerVars(TimerFires)
  /\ WF_schedulerVars(\E i \in DOMAIN polls : PollEnds(i))
---------------------------------------------------------------------------
(* Properties *)

\* No scheduled restart cuts the cooldown of an emission short, not even one
\* scheduled before that emission: emitGatewayRestart drops it.
CooldownHolds == timer # None => cooldown <= timer

\* The watcher's flag tells whether a deferral of its own server polls: it is
\* never left behind, where it would refuse every later restart.
FlagTellsPoll == restartPending <=> \E i \in DOMAIN polls : polls[i].by = "watcher"

\* Both, in states where each pending request has a timer or a deferral.
RequestsSound == SchedulerTypeOK /\ CooldownHolds /\ FlagTellsPoll

\* A scheduled restart is only ever pulled earlier.
DueNeverLater ==
  [][timer # None /\ timer' # None => timer' <= timer]_schedulerVars

\* Without the policy only an emission of the gateway restarts it: no signal
\* from outside uses an authorization that an emission has left.
OutsideNeedsPolicy ==
  [][phase # "draining" /\ phase' = "draining" =>
       externalAllowed \/ cooldown' = Cooldown]_schedulerVars

\* What no step does: a restart is not put off, an outside signal not let in.
StepsSound == DueNeverLater /\ OutsideNeedsPolicy

\* Every accepted request ends in a signal, even if the work never ends.
AskedIsEmitted == asked ~> ~asked
===========================================================================
