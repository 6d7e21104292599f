# TLA+ models of the serviceclaw gateway

Models, model-checking runs and machine-checked proofs for the core of
serviceclaw: the long-lived *gateway* process, the work it queues, the
processes and services it runs, the jobs it schedules, the store it shares with
other processes, and how it restarts. Paths below are relative to the
repository; `src/...` is its TypeScript source directory.

* [1. The system](#1-the-system): components, state, interactions, what is hard
* [2. The modules](#2-the-modules): which module models which code, and how
* [3. The runs](#3-the-runs): what TLC checks, the bounds, the fairness
* [4. The proofs](#4-the-proofs): what holds for every value of the constants
* [5. What the code does otherwise than it says](#5-what-the-code-does-otherwise-than-it-says)
* [6. What is not modelled](#6-what-is-not-modelled)
* [7. Plan](#7-plan)

To repeat a run: `tlc -config <X>.cfg MC<Module>.tla`; to repeat a proof:
`tlapm <Module>Proofs.tla` (`GatewayProofs.tla` for the run loop, the lock file and
the restart requests). Some definitions are preceded by variants marked
"Mutant:". They are the plausible bugs the properties were tried against: each
property is violated when the definition is replaced by its variant. They take
no part in the specifications.

## 1. The system

The gateway is one Node.js process, usually one per machine. Node runs one
call at a time, so concurrency inside the process means *interleaving at
awaits*: a function reads some state, awaits, and goes on with a state that
signals, timers and other calls have changed. Several gateway processes
compete for a lock file and a port, and the child processes end when they like.

### Components

| Component | Source | State it keeps | Operations | Module |
|---|---|---|---|---|
| Command lanes | `src/process/command-queue.ts` | per lane: queue, active ids, limit, draining flag, generation; one flag that refuses all | enqueue, set limit, clear, wait for active tasks, refuse, reset | `CommandLanes` |
| Run loop | `src/cli/gateway-cli/run-loop.ts` | the running server, the lock handle, `shuttingDown`, `restartResolver` | start, SIGTERM/SIGINT, SIGUSR1, restart in place, respawn, forced exit | `GatewayRestart` |
| Lock file | `src/infra/gateway-lock.ts` | the file and its payload; the port | acquire, judge stale, steal, release | `GatewayLock` |
| Process supervisor | `src/process/supervisor/*` | active runs, records of runs, timers and the forced reason of each run | spawn, cancel, cancelScope, timeouts, settle, prune | `ProcessSupervisor` |
| Service processes | `src/services/lifecycle.ts` (`ServiceLifecycleManager`) | the instance of each service and its state | start, stop, stopAll, dispose, exit handler, clean-up | `ServiceProcess` |
| Restart requests | `src/infra/restart.ts`, `src/gateway/server-reload-handlers.ts` | pending timer, last emission, deferrals, authorizations, the watcher's flag | schedule, defer, emit, authorize, config change | `RestartScheduler` |
| Followup queue | `src/auto-reply/reply/queue/*`, `src/utils/queue-helpers.ts` | per session: items, dropped count, draining flag | enqueue, drain, clear, end of a reply | `FollowupQueue` |
| Service protocol | `src/services/scp-server.ts`, `packages/service-sdk/src/client.ts` | connections by service id, pending calls | register, call, time out, disconnect, reconnect | `ScpLink`, `RemoteCalls` |
| Service installation | `src/services/lifecycle.ts` (`install` ...), `registry.ts` | state of `Service`, triggers created so far | install with rollback, enable, disable, uninstall | not modelled |
| Cron service | `src/cron/service/*` | jobs and their running markers, the persisted store | tick, manual run, catch-up, edit, reload, crash | `CronService` |
| ACP control plane | `src/acp/control-plane/*` | a queue for each actor, cached runtimes | initialise, run, cancel, close, evict | not modelled |
| Session store | `src/config/sessions/*`, `src/agents/session-write-lock.ts` | store file, caches by mtime and size, lock queue, lock file, held locks | load, update, save, rotate, lock, reclaim, watchdog | `SessionStore` |
| Service logs | `src/services/lifecycle.ts` (`rotateLogIfNeeded`) | a log and its backups | append, rotate | not modelled |
| Validation, errors, security of manifests | `src/services/{validator,schema,errors,security}.ts` | none | pure functions | not modelled |
| Agent runner | `src/agents/*` | a run with the model | run, compact, call tools | only its use of the lanes |
| Gateway server | `src/gateway/*` | clients, method handlers | start, close, requests | only start and close |
| Channels, plug-ins, CLI, wizard, media, memory, apps, UI | the rest | | | not modelled |

### How they interact

* An **agent run** enqueues itself in the lane of its session (limit 1), and
  the task it queues there enqueues the run again in the global lane and awaits
  it (`src/agents/pi-embedded-runner/run.ts:256`): nested commands in two
  lanes. Cron jobs and subagents have lanes of their own.
* **SIGUSR1** reaches the run loop, which makes the lanes refuse commands,
  waits at most 90 s for the active ones, closes the server, releases the lock,
  and either hands over to a new process or takes the lock again, *resets* the
  lanes and starts the next iteration. Tasks that outlived the wait still run.
* SIGUSR1 comes from the command line, or from the process itself: a
  configuration command **schedules** it, the config watcher **defers** it until
  the pending work is done, and both meet in `emitGatewayRestart`.
* Each gateway process takes the **lock file**, then binds its **port**; a
  process that finds the file asks the port (and the pid) whether the owner
  lives.
* The **service manager** spawns each service through the **supervisor**, under
  a scope of the service that replaces the earlier run of the scope. Agents'
  shell commands use the same supervisor, some of them in a pty.
* A message that finds its session busy goes to the **followup queue**, whose
  drain delivers it as a reply of its own once the running one has ended.
* The **cron service** runs its jobs as agent turns; a reload of the
  configuration and a restart in place build a new service on the same store.
* A **service** that is up connects back to the gateway (**SCP**): both sides call
  actions of the other over one connection.
* Every reply, heartbeat and command writes the **session store**, a file that
  the gateway shares with each command-line process.

### What is hard, and the properties it calls for

`PROJECT.json` lists every hazard at its line. In short:

* **Lanes**: no lost wake-up when a slot frees, a limit grows, a task enqueues
  while its lane is being pumped, or the lanes are reset; stale completions
  after a reset must not free new slots; commands keep their order, are neither
  lost nor doubled, and end exactly once.
* **Run loop**: a signal can arrive at every await of `start()` and of an
  earlier signal's shutdown. The loop must not start over a running server,
  serve without the lock or leave the lanes refusing for good, and each
  accepted signal must end, even when `server.close` hangs.
* **Lock**: removal is by name and follows a judgement made several awaits
  earlier; owners crash between creating the file and writing it.
* **Supervisor**: two timeouts, cancels of a run, a scope or a handle, the exit
  and the failing pty race for one reason; retention must spare live runs.
* **Services**: start awaits twice without looking again at what it checked;
  stop can hit a service whose process does not exist yet; exit handler,
  waiting stop and clean-up timer all write the instance after one exit.
* **Restart requests**: two kinds of requests, a cooldown, coalescing, and
  deferrals that survive the restart they wait for.
* **Followup queue**: the drain awaits an agent run between reading the head of
  the queue and removing it, while new messages overflow the same queue; the
  drain holds an object, clearing and finishing work by key.
* **Cron**: a marker on disk keeps two runs of a job apart, while edits, failed
  writes, reloads and crashes come between writing it and removing it; the timer
  must be armed after each of them.
* **SCP**: sockets are replaced while events of the old one are under way; a
  lost connection must come back; a call must not be carried out twice or
  answered twice.
* **Session store**: a read, an edit and a write of several processes, with two
  caches, a rotation that moves the file away, and a lock file that is judged
  stale and then removed by name.

## 2. The modules

| Module | Extends or instantiates | About |
|---|---|---|
| `CommandLanes` | `FifoExecutor` (refinement) | the lanes with pumps, flags, generations and the call stack |
| `FifoExecutor` | | abstract: what the lanes promise |
| `GatewayRestart` | `CommandLanes` (composition) | the run loop over the lanes it drains and resets |
| `GatewayLock` | | the lock file and the port, several processes |
| `ProcessSupervisor` | `ManagedRuns` (refinement) | supervisor, registry, and the ends of processes |
| `ManagedRuns` | | abstract: what the supervisor promises of one run |
| `ServiceProcess` | `ProcessSupervisor` (composition) | the service manager over the supervisor |
| `RestartScheduler` | | requests to restart, up to the signal |
| `FollowupQueue` | | the queue of messages of one session and its drains |
| `CronService` | | jobs, their markers and their runs, several services on one store |
| `ScpLink` | `RemoteCalls` (refinement) | the two ends of a service's connection |
| `RemoteCalls` | | abstract: what SCP promises of a call |
| `SessionStore` | | the session store of several processes, its caches and its lock |
| `GatewayProofs` | `GatewayRestart`, `GatewayLock`, `RestartScheduler`, TLAPS | the proofs about these three; hence `LockSpec`, `SchedulerSpec`, `LockTypeOK` ... carry the name of their module |
| `<M>Proofs` | `<M>`, TLAPS | the proofs about each other `<M>` |
| `MC<M>` | `<M>` | small instances for TLC |

`PROJECT.json` ("map") gives, for each definition, the lines it models.

### Atomicity

A step of a model is what runs between two awaits (or callbacks) of the code.
`CommandLanes` is finer: `drainLane` calls `pump`, which calls the task, which
may call `enqueueCommandInLane` and so `drainLane` again, all before anything
else runs. The variable `calls` is that stack, `entering` the task function
being called, and a step of another caller needs both to be empty
(`Quiescent`). That makes the re-entrance visible: a nested `drainLane` that
finds the `draining` flag returns and relies on the loop below it.

### CommandLanes

| Code | Model |
|---|---|
| `LaneState.queue`, `.activeTaskIds`, `.maxConcurrent`, `.draining`, `.generation` | variables of these names, per lane; a task id is its command |
| `gatewayDraining` | `gatewayDraining` |
| the promise of `enqueueCommandInLane` | `status`: queued, running, and the four ways it settles |
| the `taskGeneration` that a started task closes over | `taskGeneration` |
| `enqueueCommandInLane` | `Enqueue` = `Accept` or `Refuse`; `EnterTask` for the nested one |
| `drainLane`, `pump` | `DrainLane`; `PumpStart` (one round), `PumpEnd` |
| the async body of a task, `completeTask` | `TaskSettles`, `CompleteTask`; a stale generation does nothing |
| `setCommandLaneConcurrency`, `clearCommandLane`, `markGatewayDraining`, `resetAllLanes` | actions of these names |
| `waitForActiveTasks` | `WaitForActiveTasks` (snapshot), `WaitCheck` (a poll) |

`Nested[c]` is the command that the task of `c` enqueues and awaits before
anything else, as an agent run does. `arrival` is history. The order in which
`resetAllLanes` drains the lanes is that of a JavaScript Map; any order of the
lanes with queued commands is allowed.

### GatewayRestart

`loop` is where `runGatewayLoop` awaits: in `start()`, in the release of the
lock after a failed start, or for `restartResolver`. `request` is where the
shutdown sequence of `request()` awaits: the drain, `server.close`, the release,
the lock taken again. Both advance on their own; signals come at any moment.
`resolver` tells whether `restartResolver` is unset, belongs to an iteration
that is over, or is armed: calling a past one does nothing, which is the
source of the lost restart below. `server` and `lock` are the variables of the
code. The lanes are an instance of `CommandLanes`, with its own actions for
`markGatewayDraining`, `waitForActiveTasks` and `resetAllLanes`. `early` and
`startFailed` are history: properties name them where the code leaves a gap.

### GatewayLock

`pc[p]` is the await that process `p` is at: opening, writing, reading, probing
the owner, statting, removing. `file` says who created the file, whether its
payload is written, and whether it is older than the stale limit. `seen` is the
payload that `p` has read and not judged: the owner and, as its `createdAt`
tells, its age. An owner of unknown state is judged by that age, and by the file's
where the payload could not be read. Removal is by name. The port that
`resolveGatewayOwnerStatus` asks is bound only later, by `Bind`. `ProbePort`
says whether the caller passes the port, as the gateway command always does
(`gateway-cli/run.ts:424`), `ReadsProc` whether `/proc` can be read. `stolen` and
`verdict`, whose file a process found stale and on what ground, are history. A file
does not pass the stale limit of 30 s between a read of it and the judgement that
follows in the same attempt.

### ProcessSupervisor and ManagedRuns

`records`, `order`, `active`, `forced` and `timers` are the registry, its
insertion order (as the set of pairs of an earlier and a later run), the map of
active runs, `forcedReason` and the armed timers. A record that is written
again keeps its place, one that was pruned comes back at the end, as in a
JavaScript Map.
`stage` is how far `spawn` and the promise of `wait` are, `process` what the
operating system knows, `exit` what `wait` reports. `Request` is
`requestCancel`: it keeps the first reason and kills. `setForcedReason` and
`supervisor.cancel` write the record in two different ways (the first only
when no reason was forced, the second always), and both are kept apart
(`Forces`, `Cancelled`). `Finalize` and `Prune` are `registry.finalize` with
its retention. A run can be spawned again under its id after its spawn
failed, as the shell tool does when the pty does not come up.

`ManagedRuns` promises, for each run on its own: it starts, comes up or fails;
the first request decides the reason it ends with; what was asked to end,
ends; what has ended does not change.

### ServiceProcess

A "run" is one `startService` call with the instance object it creates and the
process it spawns. `call` is how far the call is before the instance exists;
`state` the state of the instance; `instances` the map. `StartDiscovered` is
everything between the awaited discovery and the awaited spawn; it looks at
nothing that the call had checked, as in the code. `StopRuns` is the first
part of `stopService`; the part after its await happens in the same step as
the exit (`Exit`), because the handler and the waiting stop both run on the
settlement of one promise. The instance of the supervisor has no timeouts and
no pty, so `timers`, `fallback` and `late` are empty by substitution.
`dropped` is history: the runs that a stop, a disposal or a failed start lost.

### RestartScheduler

`timer` and `cooldown` are what is left of `pendingRestartTimer` and of the
cooldown since `lastRestartEmittedAt`; `polls` are the deferrals, with who
asked and for how long. `Emit` is `emitGatewayRestart` up to and including the
SIGUSR1 handler of the loop, because `process.emit` runs listeners
synchronously: the authorization is consumed and the cycle marked as handled
before `emit` returns. `phase` is the run loop seen from here. The watcher of
a server that was closed leaves its deferral behind ("past").

### FollowupQueue

| Code | Model |
|---|---|
| `FOLLOWUP_QUEUES.get(key)`, `FOLLOWUP_RUN_CALLBACKS.has(key)` | `map`, `callback` |
| a `FollowupQueueState` object | `queue[k]`; several objects of a key can be alive, because a drain keeps the one it began with |
| `scheduleFollowupDrain`'s loop | `drain[k]`: debouncing or delivering, with the batch and the summary in hand |
| `enqueueFollowupRun`, `shouldSkipQueueItem`, `applyQueueDropPolicy` | `Enqueue` = `Refuse` or `Take`, after `IsDuplicate` and `Overflow` |
| the collect mode, `drainCollectItemIfNeeded`, `drainNextQueueItem`, the summary | `StepCollect`, `StepFollowup`, `Deliver`, `Delivered`, `DeliveryFails` |
| `clearSessionQueues` | `Clear` |
| a reply that ends with `finalizeWithFollowup` | `BeginTurn`, `EndTurn` |

What comes back from a delivery is removed by position and count, whatever has
happened to the queue meanwhile, as in the code. The settings a message comes
with are those of the session at that moment; a "plan" is the sequence of them.
`accepted`, `homes`, `delivered`, `excused` and `causes` are history.

### CronService

| Code | Model |
|---|---|
| `CronJob` with its `state` | a record: `next` = `nextRunAtMs`, `marker` = `runningAtMs` with the run that set it, `last`, `lastRun`, `errors` |
| the store file, `state.store` of each service | `disk`, `mem[s]` |
| `start` with `runMissedJobs` | `Start`, `PlanCatchup`, `ApplyCatchup`, `Started` |
| `armTimer`, `onTimer` | `Arm`, `Fire`, `ApplyTick` |
| `run` (by hand) | `RunNow`, `FinishRunNow` |
| `executeJobCore` between its begin and its end | `Begin`, `Executed`, `TimesOut`, `Aborted` |
| `update` (enable, disable), `remove`, `list`/`status` | `Edit`, `List` |
| reload of the configuration, end of the process | `Reload`, `Crash` |

All that the code does in one `locked` section is one action. A
run of kind "early" belongs to a tick that comes before its service is through
with its start, because a request has armed the timer by then; it does not leave
out the jobs that a crash has cut, so their slot is run again. The marker carries
the run that set it, which the code does not know: only properties use that. A
replaced service goes on with its own memory, so that several members of
`Services` write one disk. The runs of one tick go one after the other, as
with the default of `resolveRunConcurrency` (`timer.ts:93`), and end "ok" or "error",
never "skipped". `cut` and `cutOff` are history: `cut` has the runs that
an edit, a run beside them (`Overrun`) or a late write of a replaced service has
interfered with. The back-off of a
failing repeating job is taken to be no longer than its period.

### ScpLink and RemoteCalls

A socket has two ends and two channels that deliver in order; a socket that is
lost drops what it carries, and each end finds a close. `client`, `ws`,
`attempts`, `retry` and `stray` are the SDK's fields (`stray`: timers that a
second `scheduleReconnect` has overwritten); `server`, `conn` and `metadata` the
connection the gateway counts. `AgentAsks`/`ServiceAsks` are
`sendActionAndWait` and `callAction`; `TimesOut` gives either up. Events of a
socket that is no longer `this.ws` are handled all the same, as in the code;
`crossed` records that it happened. `RemoteCalls` promises that a call ends
exactly once, is carried out at most once, and is answered only if it was: `carried`
*counts* how often the other side has carried a call out, in the link as in the
promise, so that a second reading of a call is a step that the promise has not.

### SessionStore

| Code | Model |
|---|---|
| `sessions.json` | `disk`, the version that is there; `versions` what each contains |
| the stat (mtime, size) that a cache entry is compared with | the version, or torn: the content of one under the stat of another |
| `LOCK_QUEUES` of a process, and its drain | `pending`, `current`, `phase` |
| the lock file, `HELD_LOCKS` | `lock`, `held` |
| `acquireSessionWriteLock`, `inspectLockPayload`, `shouldReclaimContendedLockFile` | `Open`, `WritePayload`, `Judge`, `Stat`, `Reclaim`, `TimeOut` |
| `loadSessionStore` with and without cache | `LoadCached`, `Read` and `StatAfterRead`, `LoadFresh` |
| `updateSessionStore`, `updateLastRoute`, the heartbeat's load and later save | the three `Kinds` of calls |
| the mutator, `rotateSessionFile`, the unchanged check, the atomic write, the caches | `Throw`, `Mutate`, `Skip`, `Write`, `Rename`, `Recache` |
| `releaseHeldLock`, the watchdog | `Release`, `Unlock`; `Watchdog`, `Sweep` |
| `releaseAllLocksSync` as the process exits | `Exit` |
| `handleTerminationSignal` in a process with handlers of its own | `Signal` |

The content of the store is the set of calls whose edit it shows. The file
system is a shared resource: between any two operations on files another process
can take a step. Loads are synchronous in the code, hence `Free(p)`: nothing else
of the process runs between its read and its stat, but other processes do.
A read that fails leaves the stat that was taken before it. `moved` is the version
that a save has moved to the backup and not yet replaced. `Handlers` are the
processes with listeners of their own for SIGTERM and SIGINT: the gateway
(`run-loop.ts:199`). In such a process `handleTerminationSignal` releases the locks
and does not end the process, which goes on to write. `outside`, `missing`,
`faults` and `spent` are history. Two versions are assumed to have different stats.

## 3. The runs

| Run | Instance | Distinct states | Shows |
|---|---|---|---|
| `lanes_safety` | 2 lanes; a nested run, 2 global commands; limits 0 to 2; 1 reset | 2.8 M | every interleaving keeps slots, queues, order and wake-ups exact; a drain that reports success saw its tasks end; accepted commands leave in order |
| `lanes_liveness` | 2 lanes; 2 session runs, one nested | 108 k | every accepted command settles; the lanes implement `FifoExecutor`, its fairness included |
| `gateway_loop` | 1 session lane, 2 runs, 2 restarts in place | 103 k | restarts start alone, keep the lock, end, keep queued work and give up only what they waited for, with the exceptions the properties name |
| `lock_file` | 3 processes, the port probed | 95 k | holders own their file; a live lock is removed only for a named cause; a crash never blocks the others |
| `supervisor_runs` | 2 runs of one scope, one in a pty; keep 1 record | 13 k | bookkeeping, retention, replacement, timeouts; implements `ManagedRuns` |
| `service_process` | 2 start calls for one service | 18 k | the map is true of the processes; only the named cases lose one; stops end |
| `restart_requests` | delays 0 and 3, cooldown 2, wait 2, up to 3 deferrals | 12 k | cooldown, flag, coalescing, authorization; each request ends in a signal |
| `followup_queue` | 4 messages (1 redelivered, 1 of another thread), 6 plans, 3 objects; 2 replies, 1 failure, 1 clear | 325 k | nothing is delivered twice or out of order; the causes of a lost or stuck message; every other one settles |
| `cron_service` | a one-shot and a repeating job, 2 runs, 2 services, 1 trouble | 1.9 M | a job runs once at a time and is not replayed after a crash, but for the named cases; the timer survives every operation; a one-shot runs once |
| `scp_link` | 3 sockets, 1 lost, 2 orders, 1 call in all, of either side | 322 k | both sides mean one socket; a wanted connection returns or is given up aloud; calls implement `RemoteCalls`, its liveness included |
| `session_store` | 2 processes, 3 calls of the 3 kinds, 1 lock that ages, 1 crash, exit or handled signal | 2.3 M | one process inside the lock while nothing has befallen a lock file; why the file can be missing; why any step can make the store show less |
| `session_loss` | 2 updates by 2 processes, no lock ages, nobody dies | violation | a save that changes nothing loses the store |

Several properties are conjunctions of named parts, which the theorems and the
comments take one by one: `Bookkeeping` (`TypeOK`, `ActiveExact`, `QueueExact`),
`LoopSound` (`LockHeldWhileServing`, `RefusalHasCause`), `FileSound` (`LockTypeOK`,
`HolderOwnsFile`), `RecordsBounded` (`TypeOK`, `RetentionBound`), `ActiveSound`
(`UpIsActive`, `ReplacesUnlessOverlapped`), `ReportsSound`
(`InstanceTellsProcess`, `UnexpectedWasNotAsked`), `RequestsSound`
(`SchedulerTypeOK`, `CooldownHolds`, `FlagTellsPoll`), `StepsSound` (`DueNeverLater`,
`OutsideNeedsPolicy`), `TroubleHasCause` (`LossHasCause`, `StuckHasCause`),
`RunsAllowed` (`RunsAlone`, `NotReplayedAtOnce`), `OneLink` (`OneConnection`,
`EndsAgree`), `StoreSound` (`TypeOK`, `OneInside`, `FileHasKeeper`).

Each property was tried against a plausible bug of the code. None of the exceptions
of the session store is idle: without any one of the causes that `DropsHaveCause`
allows, or of the faults that `OneInside` excepts, TLC finds a counterexample.

**What the exceptions mean.** A property with an exception says that *nothing else*
goes wrong. The exception itself is explained and not caught: no run fails when the
code takes it, and none would fail if it became more frequent. `PROJECT.json`
says so at each hazard concerned.

| Exception | Of | What it stands for |
|---|---|---|
| `early` | `StartsAlone`, `RefusalHasCause` | a signal during `start()` (finding 2) |
| `startFailed` | `LockHeldWhileServing` | a start that failed, and a restart after it |
| `waiter.state = "timeout"` | `GivesUpOnlyAfterWait` | tasks that outlive the drain execute across the reset (finding 3) |
| `portFree` | `StealNeedsCause` | a free port taken for a dead owner (finding 4) |
| `overlapped` | `ActiveSound` | two spawns of one scope that were both pending |
| `late` | `ExitedStays` | a cancel through the handle after the end (finding 5) |
| `overlapped`, `dropped` | `LiveIsManaged` | two starts of one service; a stop before there is a process (finding 6) |
| `causes` | `TroubleHasCause` | overflow during a delivery, a drain that outlives a clear, changed settings |
| `cut`, "early" | `RunsAllowed` | edits, forced runs and replaced services beside a run |
| `unsaved` | `TimerStays` | a manual result that cannot be written |
| `crossed` | `OneLink` | events of a socket that was replaced |
| `gaveUp` | `LinkReturns` | a reconnection that failed, told to the program: nothing follows it |
| `faults` | `OneInside` | aged locks, ends without a release, handled signals |
| `missing` | `FileHasKeeper` | the rotation without a write (finding 1), a death in between |
| `DropCause` | `DropsHaveCause` | see "Session store" in section 5 |

### The bounds, and why they are enough

* `lanes_*`: two lanes are what an agent run needs; three commands in the
  global lane (one nested) make a queue of two behind a running one, so a slot
  that frees, a limit that grows and a clear all find somebody waiting. A limit
  of 2 lets completions overtake each other. `MaxReset = 1` gives two
  generations, so stale completions meet fresh ones. The limit 0 shows the clamp.
  `SetCommandLaneConcurrency` is tried with every value at every moment.
* `gateway_loop`: two restarts are the least with which a restart can arrive during
  the start of another one's iteration; one session lane with two runs has one
  running and one that waits across the reset.
* `lock_file`: with three processes, one can judge the file of a second and remove
  that of a third; one of them starting, a second judging and a third after the file
  is the race of finding 4. The age of a file is a flag: only one limit is compared.
  With no port to probe (`ProbePort = FALSE`) the run passes as well.
* `supervisor_runs`: two runs race for one scope and one retained record. Each run
  has other timers, one of them is a pty with its own fallback.
* `service_process`: two calls for one service are what can overlap; services share
  nothing but `dispose`. The supervisor keeps 3 records, more than there are
  runs: retention is the subject of the run above.
* `restart_requests`: a delay of 0 is inside the cooldown of 2, one of 3 beyond
  it. Three requests (`MaxPolls`) are one deferral of the watcher, one left by
  an earlier server, and a timer. The counts of `authorized` need no bound: the
  handler consumes what an emission adds.

* `followup_queue`: a cap of 2 with four messages overflows a queue whose head is
  being delivered; the caps of 1 and the changes of settings are the boundary
  cases of the drop policies and of the drain's choice of a mode. Three objects
  are those of the map, of a drain that outlived a clear, and of one that is
  finishing.
* `cron_service`: two runs are what can overlap. The clock has two instants and a
  marker counts for one of them, so that a marker can be older than its limit;
  the "trouble" is an edit, a failed write, a new service or a crash. A larger
  instance (a clock of three instants, `StuckAfter = 1`, `AtTime = 1`, 4.7 M
  states) and the kinds "once" and "cron" held as well, as did two troubles with
  one job; they take longer than a run should.
* `scp_link`: with three sockets a client can lose one, replace it, and still have
  another before it. There is one call, made by either side: it meets every event of a
  socket. Two calls share only the map of pending ones, which is keyed by their ids.
* `session_store`: three calls are the three ways to write the store, two of them
  in one process, so that a queue, two caches and two lock holders take part.
  `RotateAbove = 1` makes the saves after the first edit rotate, one that follows a
  rotated and skipped save included. One lock that ages, or one crash, exit or handled
  signal, is what it takes for two to be inside or for a lock to be stolen. Attempts at the lock are bounded
  by `MaxTries`; a call that has used them times out.
* `session_loss`: two updates and a limit one edit over which the store rotates.

Deadlock is checked in the lanes and the scheduler, which never stop, and in the
session store, where `Rest` is possible only when every call was answered or
went down with its process: the run shows that no call hangs. In the others
`CHECK_DEADLOCK FALSE` stands for real ends: the process exited, all processes
are gone, every run has ended, the bounds are used up.

### Fairness, and what in the code justifies it

* **Lanes**: a call in progress runs on (`PumpStep`, WF). Tasks settle once
  what they await has settled (agent runs have a timeout), and the poll timer of
  a waiter fires; both are callbacks that wait for a busy process again and
  again, and an event loop serves a ready callback: SF. No caller has to enqueue. No
  task enqueues into the lane that is being pumped in these instances (an agent run
  enqueues into another one): the branch in which a nested `drainLane` returns to the
  pump below it is covered by `NoLostWakeUp` and `BookkeepingExact`, which hold for
  every `Nested`.
* **Run loop**: `start()` and the operations on the lock file end, timers fire
  (SF, for the same reason). `server.close()` need *not* end: that is what the
  force-exit timer is for.
* **Lock**: a process that acquires goes on, and time passes. Processes need
  not serve, release or start.
* **Supervisor**: a killed process dies (`killProcessTree` ends with SIGKILL),
  the close of a child is reported, the overall timer fires. The second is an
  assumption about the descendants: "close" comes when the stdio pipes are closed, and
  a descendant that escaped the kill can hold them open after the child's death
  (`child.ts:34`). `TimedRunEnds`, `ImplementsManagedRuns` and `StopEnds` rest on it. The exit of a pty
  need not be reported; its fallback timer fires. The no-output timer is not
  assumed to fire, because output may re-arm it for ever.
* **Services**: killed processes die and their end is noticed. Discovery and
  spawn need not end.
* **Restart requests**: the clock ticks, a due timer fires, a due poll ends. Work
  need not drain, and the loop need not start.
* **Followup queue**: replies and deliveries end (they have timeouts), the debounce
  timer fires, and a message that found the agent busy is enqueued. Nobody has
  to send one. `Settles` excepts a queue that is stuck; `TroubleHasCause` says when
  that can be.
* **SCP**: timers fire, connections that are being opened open or fail, closes are
  noticed, messages on a socket that is not lost arrive, and handlers answer or
  their caller times out. Sockets need not be lost, and programs need not connect.
* **Cron and session store**: safety only. The clock of the cron model is bounded,
  and no call of the store waits for more than the lock.

## 4. The proofs

14710 proof obligations, all checked; no step is left open. The assumptions are
the `ASSUME`s of the modules: constants have the types one expects, the sets
of lanes, commands and runs are finite, a retention limit is positive, no
two commands nest the same command, and there are more queue objects than
clears (`EnoughQueues`: the program allocates an object when it needs one, the
model must not run out of them). TLC evaluates them in the runs.

Every invariant and every action property that a passing run checks is a theorem
here, except `GivesUpOnlyAfterWait`.

| Theorem | Says, for every value of the constants |
|---|---|
| `CommandLanesProofs!TypeCorrect` | `[]TypeOK` |
| `CommandLanesProofs!BookkeepingExact` | `[]Bookkeeping`: types, slots and queues at once |
| `CommandLanesProofs!QueuesExact` | `[]QueueExact`: accepted commands are queued once until they start or are cleared |
| `CommandLanesProofs!ActiveIdsExact` | `[]ActiveExact`: no slot leaks or is freed twice |
| `CommandLanesProofs!NoLostWakeUp` | `[]NoStall` |
| `CommandLanesProofs!ArrivalOrder` | `[]FifoOrder`: commands leave a lane in the order they were accepted |
| `CommandLanesProofs!DrainedIsTrue` | `[]DrainedMeansFinished` |
| `CommandLanesProofs!LanesAreExecutor` | initial states and steps of the lanes are those of `FifoExecutor`, or stutters |
| `GatewayProofs!GatewayTypesHold` | `[]TypeOK` of `GatewayRestart`: the loop and the lanes it composes |
| `GatewayProofs!ServingHoldsLock` | `[]LockHeldWhileServing` |
| `GatewayProofs!RefusalIsExplained` | `[]RefusalHasCause` |
| `GatewayProofs!LoopIsSound` | `[]LoopSound`: both of them |
| `GatewayProofs!RestartsStartAlone` | `StartsAlone`, an action property |
| `GatewayProofs!HoldersOwnTheirFile` | `[]HolderOwnsFile`, with and without a port to probe |
| `GatewayProofs!FileIsSound` | `[]FileSound`: with the types of the state |
| `GatewayProofs!SecondHolderNeedsRemoval` | two holders only after the removal of a running process's file |
| `GatewayProofs!StealHasCause` | `StealNeedsCause`, an action property, with and without a port to probe, with a readable /proc |
| `ProcessSupervisorProofs!ActiveIsCancellable` | `[]UpIsActive` |
| `ProcessSupervisorProofs!ReplacementHolds` | `[]ReplacesUnlessOverlapped` |
| `ProcessSupervisorProofs!ActiveIsSound` | `[]ActiveSound`: both of them |
| `ProcessSupervisorProofs!EndedIsKept` | `ExitedStays`, an action property: an exited record changes only by a late cancel through the handle |
| `ProcessSupervisorProofs!RetentionHolds` | `[]RecordsBounded`: types, and few ended runs keep a record |
| `ProcessSupervisorProofs!RunsAreManaged` | initial states and steps of the supervisor are those of `ManagedRuns`, or stutters |
| `ServiceProcessProofs!ServiceTypesHold` | `[]TypeOK` of `ServiceProcess`, its supervisor's included |
| `ServiceProcessProofs!MapTellsTruth` | `[]InstanceTellsProcess` |
| `ServiceProcessProofs!NoProcessLost` | `[]LiveIsManaged` |
| `ServiceProcessProofs!AskedIsExpected` | `[]UnexpectedWasNotAsked` |
| `ServiceProcessProofs!ReportsAreSound` | `[]ReportsSound`: the map and the hooks tell the truth |
| `GatewayProofs!RequestTypesHold` | `[]SchedulerTypeOK`, with "a request that waits has a timer or a deferral" |
| `GatewayProofs!NoRestartInCooldown` | `[]CooldownHolds` |
| `GatewayProofs!FlagIsNeverStale` | `[]FlagTellsPoll` |
| `GatewayProofs!RequestsAreSound` | `[]RequestsSound`: the three of them |
| `GatewayProofs!NeverPostponed` | `DueNeverLater`, an action property |
| `GatewayProofs!OutsideIsRefused` | `OutsideNeedsPolicy`, an action property |
| `GatewayProofs!StepsAreSound` | `StepsSound`: both action properties |
| `FollowupQueueProofs!QueueTypes` | `[]TypeOK` |
| `FollowupQueueProofs!DeliveredOnceInOrder` | `[]OnceInOrder` |
| `FollowupQueueProofs!TroubleExplained` | `[]TroubleHasCause`: why a message can be lost or left behind |
| `CronServiceProofs!CronTypesHold` | `[]TypeOK` |
| `CronServiceProofs!TimerNeverLost` | `[]TimerStays` |
| `CronServiceProofs!OnlyAllowedRuns` | `[]RunsAllowed`: `RunsAlone` and `NotReplayedAtOnce` |
| `CronServiceProofs!OneShotsRunOnce` | `OneShotOnce`, an action property |
| `SessionStoreProofs!StoreIsSound` | `[]StoreSound`: types, `OneInside` and `FileHasKeeper` |
| `SessionStoreProofs!DropsNeedCause` | `DropsHaveCause`, an action property: of every step after which the store shows less |
| `ScpLinkProofs!LinkTypesHold` | `[]TypeOK`: among other things, never more forgotten timers than sockets |
| `ScpLinkProofs!LinkIsOne` | `[]OneLink` |
| `ScpLinkProofs!CallsKeepPromise` | initial states and steps of the link are those of `RemoteCalls`, or stutters |

### The inductive invariants

**Lanes.** `NoStall` speaks of moments when no call is in progress, and a step
in the middle of a call says nothing about those. `WakeUp` does: a lane that
could start a command has a frame on the call stack, and a lane whose draining
flag is set has a *pump* on it. The second half is why a nested `drainLane`
may return when it finds the flag: the pump below will look at the queue
again. With an empty stack, the first half is `NoStall`. `resetAllLanes` clears
the flags while no call is in progress and pushes a frame for every lane that
has a queue, which restores the first half after the slots were emptied.
`ActiveExact` needs `GenerationBound` (nobody has captured a generation the
lane has not reached), so that after a reset no old task counts as current.
`QueueExact` needs `NestedIdle`: a command nested in one that has not been
entered is untouched, hence cannot be queued twice. `ArrivalOrder` needs
to know that what is queued are the *last* arrivals of the lane
(`LastArrivals`) and that each command arrives once (`ArrivedOnce`): a step
then adds at the end, takes the first, or empties the queue, and the three
lemmas on suffixes say that each keeps it so. `DrainedIsTrue` needs that the
tasks of a snapshot have started (`SnapshotStarted`): a started task can only
settle or become stale, and neither is undone, so an id that is no longer active
never is again. For `LanesAreExecutor`, the mapping `Phase` reads what a caller
sees of a command from its status and the active ids (`RunningIsActive`:
`ActiveExact` makes what runs what is counted); one lemma per kind of step then
names the step of the executor that it is, and the rest are stutters.

**Run loop.** Whether a restart is safe depends on when it was asked for.
`RequestMeetsLoop` says that one that came while the loop was waiting finds it
waiting on an armed promise until the end, and that the server it closed stays
closed; `LockIsKept` follows the handle through the shutdown sequence: failed
starts aside it is given up only between its release and its acquisition. The
lanes enter through `LaneKeeps` only, which says that a step of theirs leaves
the loop alone. For `GatewayTypesHold` the lanes' own types are shown again under
the composition's names, one lemma per step of the lanes (an assumption or a theorem
of an instantiated module cannot be cited, so `LaneConstants` repeats it).

**Lock.** `OwnerHasFile` extends the property to processes that still write
the payload: between `open` and the handle nobody can create the file again
unless it was removed. `SecondHolderNeedsRemoval` is its corollary, and pins
the two known ways to a second holder on `RemoveStale` and `Release`. For
`StealHasCause`, a process that is about to remove a file has a verdict
(`JudgedRightly`): with /proc to read, and the port not found free, it judged the file of
an owner that is gone for good, so a running process that loses its file to it is
another one.

**Supervisor.** `RivalsOverlapped` speaks of runs that *will* go on, pending
ones included: two of them in a scope have overlapped, because the later
`spawn` cancels what is up. `TimersUp`: only runs that are up have timers, so
a timer never meets an exited record. `EndedIsKept` rests on `StepChanges`,
which lists for each action the one record it changes and in which state that
record is. `RunsAreManaged` looks at one run at a time (`Promised`): cancelling a
scope asks several at once, and `ManagedRuns` lets every run do a step of its own.
`RetentionHolds` rests on `Kept`: `order` is a strict total order of the runs that
have a record (`Ordered`), and of these at most `MaxExited` are exited. `finalize`
adds one and prunes: in a total order no two of the exited runs have the same rank
(`RankIs`), so those that are spared inject into the last `MaxExited` ranks
(`FewAbove`). A run that ended and whose record is not exited was cancelled late.

**Services.** `Follows` ties the state of an instance to the stage of its
run, `TrackedFollows` says what is known in addition while the map has it,
and `PendingIsManaged` carries the property over from the spawn to the end: a
process that goes on is tracked from the moment it is spawned. The lemmas
`SpawnEffect` and `ClosesEffect` state the effect of the supervisor's actions
once, so that the steps of the manager do not open them. `ServiceTypesHold` needs the
first two: only an instance that has begun is ever stopped, started or ended.

**Restart requests.** `OneWatcher`: a server has at most one deferral of its
own, so clearing the flag when *one* ends never leaves another polling. The
lemma `Removed` says what `RemoveAt` leaves of a sequence and where it was.
`NothingLeft`: no authorization survives the emission that made it, hence a
signal from outside has none to use.

**Service protocol.** `OneLink` needs only what the client may still mean until
events cross: no open socket but its own (`OwnSocket`), no call that waits over
another (`OwnCalls`). `LinkTypesHold` bounds the timers that `reconnectTimeout`
has forgotten: each of them, the pending one and the client's socket stem from a
socket of their own (`StrayBound`). For `CallsKeepPromise`, `CallInv` says of both
channels that each call is carried once over all sockets (`Once`), and that what
is carried was asked and not done, or answers what was done (`Known`). A call that is
under way has been carried out no time, so the one reading of it is the first and
`carried` never exceeds one. Lemmas on channels say how losing, reading and sending
keep that.

**Session store.** `LockFollows` is about the time while no fault has befallen a lock
file: the file names a process whose task has it, a task that works has the file, and
nobody is about to remove another's; two inside would own one file. For
`DropsNeedCause`, `ViewsTrue` says of a task that owns the lock and has none of the
other causes that what it has in hand *covers* (`Covers`) the version on disk and the
one it moved to the backup (`ViewOk`), which rests on what the caches contain (`CacheOk`,
`CachingOk`) and on a backup being under way only until the write (`MovedOk`).
`NewVersion`: the version of a call that has not written is nowhere, on disk or in a
cache. The lemmas `WriteDrops`, `BackupShows`, `EndShows` and `OthersShow` say of each
kind of step what it can take from `Shown`.

**Followup queue.** `FewOutlive`: a drain outlives the map's object only through a
clear, so a new object can always be had. `OrderInv` follows each message from
`accepted` through its object to `delivered`: what an object still holds, and what
its drain has in hand, comes after everything of that object that was delivered
(`Orderly`), and no message is accepted twice.
`LossInv` says that until one of the named causes has occurred nothing is missing:
each accepted message is delivered, excused or in the map's object, no drain works
on another object, and what a delivery has in hand is still at the front of its
queue, so that removing by count removes the right ones. `StuckInv`: a queue with
work and a callback is being drained (`Kicked`), and a queue in mode "followup" can
report what it dropped, because overflow leaves it a message to report with
(`Reportable`), unless its settings were changed under it.

**Cron.** `CronInv` has a conjunct for each property and those they share. `UsedFirst`:
run records are taken in their order. `Phases`: services come one after the other,
and only one that is up has ticks and runs. `Planned`: an enabled job has a next
time, unless it is a one-shot that is over; without it "a job to wait for" would say
nothing. `Alone`: a run that nothing has interfered with holds its job's marker, on
disk and in the memory in use, so no other can begin it. `Replay`: after a crash the
jobs that were cut are marked, then skipped, then have a next time behind the slot
that was cut. `Once`: a one-shot that succeeded is over on disk and in memory
(`Over`), or one of the exceptions of `OneShotOnce` has come about (`Spoilt`). The
proof found three behaviours of the code that the exceptions had not named, or too
broadly: a request during a start arms the timer before the catch-up is planned
("early"), the catch-up of a replaced service writes its old memory over a result, and
a catch-up gives a deferred job a new time although it has been run meanwhile. The
model has them; the kind "early" names the first, `cut` the others.

### What stays with TLC

* Liveness under fairness, and with it the promise of `FifoExecutor` that every
  accepted command settles, `ShutdownEnds`, `QueuedWorkSurvives`, `TimedRunEnds`,
  `StopEnds`, `AskedIsEmitted`, `CrashedOwnerIsRemoved`, `Settles`, `LinkReturns`, and
  the fairness of `FifoExecutor`, `ManagedRuns` and `RemoteCalls`: the prover has no
  rules for `ENABLED`.
* `GivesUpOnlyAfterWait`, which looks at the moment of a reset through the waiter's
  snapshot, the loop and the lanes at once.
* The violation: `NoDataLoss` of the session store is not proved but refuted.

No definition that a theorem reaches is recursive. What the theorems say of
sequences comes from the theorems of the library on `Append`, `SubSeq` and `\o`.

## 5. What the code does otherwise than it says

Each of the following was met while modelling. The first is a run; 2 to 6 have a
configuration that TLC refutes when it is run by hand, with the property named.

1. **A save can lose the session store** (run `session_loss`, `NoDataLoss`,
   `store.ts:459`). With maintenance enforced, a save first moves an oversized
   `sessions.json` to a backup, and then returns without writing when the text
   equals what the process last read. No store is left, and the next call starts
   from an empty one.
2. **A restart can be lost** (`MCGatewayRestartLost.cfg`, `RestartHappens`,
   `run-loop.ts:91`). "SIGUSR1 triggers an in-process restart": a SIGUSR1 accepted
   while `start()` is pending ends its sequence by calling `restartResolver`,
   which is unset in the first iteration and belongs to the previous one later.
   Nothing restarts, and since `markGatewayDraining` is undone only by the next
   iteration, the lanes refuse every command until another restart
   (`RefusalHasCause` is checked with exactly this exception).
3. **Two runs of a session at once** (`MCGatewayRestartOverlap.cfg`,
   `OneRunPerSession`, `command-queue.ts:249`). `docs/concepts/queue.md` guarantees
   one. A run that outlives the drain executes on; `resetAllLanes` empties the
   active ids and starts the next queued run of the session beside it.
4. **The lock is not exclusive while the owner starts**
   (`MCGatewayLockExclusive.cfg`, `LockIsExclusive`, `gateway-lock.ts:110`). An owner
   that has the lock but has not bound the port is judged dead, because the port
   is free. The gateway always passes its port, so this is the case of production:
   `StealNeedsCause` names it (`portFree`), with the race of two removals and the
   release of a lock that was lost before.
5. **A late cancel rewrites an ended run** (`MCProcessSupervisorLate.cfg`,
   `TerminalReasonStays`, `supervisor.ts:96`). The registry's test says that the
   first terminal metadata is preserved; `setForcedReason` does not ask whether
   the run has settled. The record leaves "exited" and retention no longer prunes
   it.
6. **A stopped service comes up** (`MCServiceProcessStopped.cfg`,
   `StoppedStaysStopped`, `lifecycle.ts:1653`). Stopping a service whose process is
   being spawned reports success at once; the spawn goes on and sets the instance
   to started.

The passing properties name these gaps as exceptions (`early`, `startFailed`,
`late`, `overlapped`, `dropped`, `missing`, `portFree`; see the table in section 3), so
that they say what *does* hold around them and fail for any other cause.

Further observations, which the models contain:

* **Run loop**: a restart whose start fails gives up the lock; the next restart
  then finds none to release and for that reason takes none, so the gateway serves
  without it (`startFailed` in `LockHeldWhileServing`).
* **Restart requests**: the guard against a second deferral
  (`hasUnconsumedRestartSignal`, `restart.ts:112`) never applies in a process with a
  run loop, because the handler marks the cycle as consumed inside the emission: a
  configuration command and the watcher that sees its write can each keep a
  deferral, and restart twice.
* **Session store**: a heartbeat saves a view that it loaded before it queued for
  the lock (`heartbeat-runner.ts:972`), and overwrites what was saved in between,
  within one process too. A load outside the lock takes the stat after the read
  (`store.ts:238`), so that old content can be cached under a new stat;
  `updateLastRoute` (`store.ts:816`) then loads it through the cache inside the lock,
  against the comment "Always re-read inside the lock to avoid clobbering
  concurrent writers" (`store.ts:527`). The lock counts as stale after 30 s while a
  holder may keep it for 5 min, and is removed by name. On SIGTERM and SIGINT
  `handleTerminationSignal` releases every lock and raises the signal again only where
  it is the sole listener (`session-write-lock.ts:229`, shown by
  `session-write-lock.test.ts:348`); the gateway has listeners of its own
  (`run-loop.ts:199`), so it goes on for the seconds of its shutdown and writes the
  store with its locks gone, beside a process that takes the lock meanwhile
  ("signalled"). What the store shows shrinks in a write by a process that does not own
  the lock or over a version by one that did not, a heartbeat's write, a write from a
  torn load, a write after another process has moved the store away, and in a save that
  moved the store to the backup and then finds nothing to write (finding 1) or ends;
  `DropsHaveCause` says that no other step has this effect.
* **Followup queue**: a message that arrives at the cap while a collected batch runs
  drops the oldest of the batch, and the drain then removes as many as it had
  taken, newer ones included (`drain.ts:125`). A drain that outlives
  `clearSessionQueues` deletes by key the queue that was created after it
  (`drain.ts:167`).
* **Cron**: the catch-up skips a one-shot that a crash has interrupted
  (`service.restart-catchup.test.ts:200`), but its next run is computed to be in the
  past, so the first tick runs it: `NotReplayedAtOnce` is about the catch-up, and
  of ticks only about jobs that repeat. A request during the start can arm the timer
  before the catch-up has skipped anything; that tick does run the interrupted slot
  again ("early"). Forced runs of a disabled job can
  overlap, because disabling clears its marker. `stop()` during a tick is undone by
  the `armTimer` at the tick's end. A catch-up of a replaced service writes its stale
  memory. A result of a manual run that cannot be written leaves no timer behind
  (`unsaved` in `TimerStays`). The message of a timeout is not among the transient
  errors, so a one-shot that timed out is not retried.
* **SCP**: `reconnectAttempts` never exceeds 1, because a reconnection that fails
  schedules nothing (`client.ts:456`), so the 5 retries of
  `packages/service-sdk/README.md:70` are never used; `LinkReturns` says that the
  program is at least told. What the property shows is thus that a dropped link, and each
  later order to connect, is followed by an attempt whose end is known. `docs/scp-protocol-v1.md:367` says that services do not
  reconnect at all. The close of an old socket can reach the handler of the new one
  (`client.ts:265`, `crossed`). `disconnect()` does not cancel a connection that is
  being opened. A disconnection settles the calls of the service, but not those of
  the gateway, which wait for their timeout.
* **Service installation** (not modelled, read): `install` of an installed service
  clears the references to its triggers, and a failing clean-up leaves a rollback
  half done (`lifecycle.ts:1052`).

## 6. What is not modelled

* **Data**: task payloads, results, log lines, messages, output of processes
  (only that it arms a timer), paths, signal names.
* **Lanes**: wait warnings and `onWait`, whose only user logs; lane names.
* **Run loop**: aborts of embedded runs, which only make tasks settle earlier;
  the second drain, over embedded runs (`waitForActiveEmbeddedRuns`), which is of the
  same form but polls the runs that are active at each poll, so that it also waits for
  some that started after the snapshot of the lanes; details of
  the respawn; authorization of SIGUSR1 (see `RestartScheduler`).
* **Lock**: a pid that was given to another program (the start time check is
  there for it), the multi-gateway override that takes no lock, a process that is stopped
  for 30 s between reading a file and judging it.
* **Supervisor**: an error event of a child that is up, which nothing in the
  adapters provokes; the stdin of runs.
* **Services**: hooks, log files and their rotation; restoring services at the
  start of the server.
* **Restart requests**: a process without a SIGUSR1 listener, where the signal
  is sent with `process.kill`; the counters behind `getPendingCount`, which
  count and cannot throw; `triggerOpenClawRestart`, which calls the system's
  service manager.
* **Followup queue**: other keys (they share nothing), the formatting of collected
  prompts and summaries, the routing of replies.
* **Cron**: adding jobs and editing schedules, waking the agent and the session
  targets, failure alerts, schedule errors, a failing write at the start, concurrent
  runs of one tick (`maxConcurrentRuns` above its default of 1), results "skipped".
* **SCP**: events, subscriptions, the content of messages, the server's `close`,
  which only tests call; the answer to `service.started`, which the SDK takes for an
  unknown request and reports as an "error" event (a listener is assumed).
* **Session store**: pruning, capping and the disk budget, which remove sessions on
  purpose; writes that fail and the retries for Windows; a lock file whose payload
  cannot be written; the re-entrant count of a held lock, which the store never
  uses; transcripts, which use the same lock. A process that dies is replaced at
  once, and two versions have two stats.
* **Service installation**: sequential operations over registry, cron and webhook
  triggers; its hazards are partial failures that a model of the trigger stores
  would have to invent. **ACP control plane**: a queue for each actor of the form
  of `CommandLanes` with one slot, in front of external runtimes.
* **Log rotation**: two file operations without concurrency. It keeps four of the
  five backups that its comment promises (`lifecycle.ts:1524`).
* **The other components without a module** (section 1): pure functions; adapters
  to external services, whose behaviour is that of the remote side; user
  interfaces and applications in other languages.

## 7. Plan

The modules were written in the order of section 2, the most depended-upon
first. What would add most next:

1. **ServiceInstall**: the states of `Service` with the rollback stack over cron and
   webhook triggers; after a failure no trigger of it is left.
2. **ACP control plane**: the actor queues with the runtime cache and its eviction.
3. **Managers of successive servers**: a restart in place builds a second
   `ServiceLifecycleManager` beside the first; composing `ServiceProcess` with
   `GatewayRestart` would show what becomes of the first one's processes.
