---------------------------- MODULE CronService ----------------------------
(***************************************************************************)
(* The scheduled jobs of the gateway: cron/service (ops, timer, jobs,      *)
(* store, locked).  A job is run by a tick of the timer, by the catch-up   *)
(* after a start, or by hand; a running marker in the job, persisted       *)
(* before the run begins, is to keep the others away from it.              *)
(*                                                                         *)
(* What the code does under the lock of the store is one action; runs      *)
(* execute outside of it.  A reload of the configuration, or a restart of  *)
(* the gateway in its process, builds a new service on the same store, and *)
(* what the old one has under way goes on with the old one's memory.       *)
(* The clock counts the shortest period of a job.                          *)
(***************************************************************************)
EXTENDS Naturals, FiniteSets

CONSTANTS
  JobCount,    \* number of jobs, in the order of the store
  KindOf,      \* KindOf[j]: the kind of its schedule; "once" is "at" with
               \* deleteAfterRun
  AtTime,      \* the time of the one-shot jobs
  StuckAfter,  \* STUCK_RUN_MS
  MaxMissed,   \* maxMissedJobsPerRestart
  MaxAttempts, \* retry.maxAttempts
  None,        \* no time, no run
  MaxTime,     \* bound: the clock
  RunCount,    \* bound: runs
  MaxServices, \* bound: services that are built
  MaxTroubles  \* bound: edits of jobs (other than to enable a disabled one), writes
               \* of the store that fail, and new services, together

Jobs == 1 .. JobCount
Runs == 1 .. RunCount
Times == 0 .. MaxTime + 1
Services == 1 .. MaxServices
Markers == [run : Runs, since : Times]

ASSUME CronTypes ==
  /\ JobCount \in Nat \ {0} /\ RunCount \in Nat /\ MaxServices \in Nat \ {0}
  /\ KindOf \in [Jobs -> {"at", "once", "every", "cron"}]
  /\ AtTime \in Nat /\ StuckAfter \in Nat /\ MaxMissed \in Nat
  /\ MaxAttempts \in Nat /\ MaxTime \in Nat /\ MaxTroubles \in Nat
  /\ None \notin Nat \cup Markers

VARIABLES
  now,         \* the clock
  disk,        \* the jobs in the file of the store
  mem,         \* the jobs in the memory of each service
  phase,       \* how far the start of each service is
  skip,        \* jobs that each service found interrupted when it started
  timer,       \* does each service have a timer
  tick,        \* has each service jobs of a tick under way
  current,     \* the service that the gateway uses
  run,         \* the runs
  alive,       \* runs whose job is executing
  cut,         \* history: runs of a disabled job, and runs that were interfered with:
               \* by an edit, by a run beside them or by a late write
  cutOff,      \* history: jobs that were executing when the process crashed, with
               \* the time of the crash
  faults, edits

storeVars == <<disk, mem>>
serviceVars == <<phase, skip, timer, tick, current>>
runVars == <<run, alive, cut>>
vars == <<now, storeVars, serviceVars, runVars, cutOff, faults, edits>>

OneShot(j) == KindOf[j] \in {"at", "once"}

JobState ==
  [exists : BOOLEAN, enabled : BOOLEAN, next : Nat \cup {None},
   marker : Markers \cup {None}, last : {"none", "ok", "error"},
   lastRun : Times \cup {None}, errors : Nat]
RunState ==
  [phase : {"unused", "queued", "executing", "ended", "done", "unsaved", "dead"},
   job : Jobs, by : Services, kind : {"tick", "early", "catchup", "due", "force"},
   since : Times, at : Times, result : {"none", "ok", "transient", "permanent"}, fresh : BOOLEAN]

Init ==
  /\ now = 0
  /\ disk = [j \in Jobs |->
       [exists |-> TRUE, enabled |-> TRUE, marker |-> None, last |-> "none",
        lastRun |-> None, errors |-> 0,
        next |-> IF OneShot(j) THEN AtTime ELSE 1]]
  /\ mem = [s \in Services |-> disk]
  /\ phase = [s \in Services |-> IF s = 1 THEN "off" ELSE "unbuilt"]
  /\ skip = [s \in Services |-> {}]
  /\ timer = [s \in Services |-> FALSE]
  /\ tick = [s \in Services |-> FALSE]
  /\ current = 1
  /\ run = [r \in Runs |->
       [phase |-> "unused", job |-> 1, by |-> 1, kind |-> "tick", since |-> 0, at |-> 0,
        result |-> "none", fresh |-> FALSE]]
  /\ alive = {}
  /\ cut = {}
  /\ cutOff = {}
  /\ faults = 0 /\ edits = 0
---------------------------------------------------------------------------
(* The state of a job *)

\* computeJobNextRunAtMs
ComputeNext(j, x) ==
  IF ~x.enabled THEN None
  ELSE IF OneShot(j)
  THEN IF x.last = "ok" /\ AtTime <= x.lastRun THEN None ELSE AtTime
  ELSE IF KindOf[j] = "every" /\ x.lastRun # None /\ x.lastRun + 1 > now
  THEN x.lastRun + 1 ELSE now + 1

IsDue(x) == x.next # None /\ now >= x.next

\* Mutant: the marker ends with the two hours, not after them.
NormalizeEarly(x) ==
  IF ~x.enabled THEN [x EXCEPT !.next = None, !.marker = None]
  ELSE IF x.marker # None /\ now - x.marker.since >= StuckAfter
  THEN [x EXCEPT !.marker = None]
  ELSE x

\* normalizeJobTickState: disabled jobs have no marker, and a marker counts for
\* two hours.
Normalize(x) ==
  IF ~x.enabled THEN [x EXCEPT !.next = None, !.marker = None]
  ELSE IF x.marker # None /\ now - x.marker.since > StuckAfter
  THEN [x EXCEPT !.marker = None]
  ELSE x

\* recomputeNextRunsForMaintenance: a slot that is due stays, unless it was run.
Maintain(store, expired) ==
  [j \in Jobs |->
     LET x == Normalize(store[j])
         stale == \/ x.next = None
                  \/ /\ expired /\ IsDue(x) /\ x.marker = None
                     /\ x.lastRun # None /\ x.lastRun >= x.next
     IN  IF x.exists /\ x.enabled /\ stale
         THEN [x EXCEPT !.next = ComputeNext(j, x)] ELSE x]

\* recomputeNextRuns: a slot that is due is given up.
Recompute(store) ==
  [j \in Jobs |->
     LET x == Normalize(store[j])
     IN  IF x.exists /\ x.enabled /\ (x.next = None \/ IsDue(x))
         THEN [x EXCEPT !.next = ComputeNext(j, x)] ELSE x]

\* Mutant: the attempts are counted, whatever the result.
ApplyResultRetried(store, r) ==
  LET j == run[r].job
      x == store[j]
      ok == run[r].result = "ok"
      y == [x EXCEPT !.marker = None, !.lastRun = run[r].at,
              !.last = IF ok THEN "ok" ELSE "error",
              !.errors = IF ok THEN 0 ELSE x.errors + 1]
      kept == IF run[r].kind = "force" /\ KindOf[j] = "every"
              THEN [y EXCEPT !.lastRun = x.lastRun] ELSE y
      retried == y.errors <= MaxAttempts
      z == CASE OneShot(j) /\ retried -> [y EXCEPT !.next = now + 1]
             [] OneShot(j) /\ ~retried ->
                  [y EXCEPT !.enabled = FALSE, !.next = None,
                            !.exists = ~(ok /\ KindOf[j] = "once")]
             [] OTHER -> [y EXCEPT !.next = ComputeNext(j, kept)]
  IN  IF x.exists THEN [store EXCEPT ![j] = z] ELSE store

\* applyJobResult, for a job that is still in the store.
ApplyResult(store, r) ==
  LET j == run[r].job
      x == store[j]
      ok == run[r].result = "ok"
      y == [x EXCEPT !.marker = None, !.lastRun = run[r].at,
              !.last = IF ok THEN "ok" ELSE "error",
              !.errors = IF ok THEN 0 ELSE x.errors + 1]
      kept == IF run[r].kind = "force" /\ KindOf[j] = "every"
              THEN [y EXCEPT !.lastRun = x.lastRun] ELSE y
      retried == run[r].result = "transient" /\ y.errors <= MaxAttempts
      z == CASE OneShot(j) /\ retried -> [y EXCEPT !.next = now + 1]
             [] OneShot(j) /\ ~retried ->
                  [y EXCEPT !.enabled = FALSE, !.next = None,
                            !.exists = ~(ok /\ KindOf[j] = "once")]
             [] OTHER -> [y EXCEPT !.next = ComputeNext(j, kept)]
  IN  IF x.exists THEN [store EXCEPT ![j] = z] ELSE store

\* The results of the runs of one tick or catch-up concern different jobs.
ApplyAll(store, rs) ==
  [j \in Jobs |->
     IF \E r \in rs : run[r].job = j
     THEN ApplyResult(store, CHOOSE r \in rs : run[r].job = j)[j]
     ELSE store[j]]

\* isRunnableJob for a tick.
Runnable(store) ==
  {j \in Jobs : store[j].exists /\ store[j].enabled /\ store[j].marker = None
                  /\ IsDue(store[j])}

\* isRunnableJob for the catch-up: one-shot jobs that have run only for a retry,
\* and cron jobs whose last slot is later than their last run.
Missed(store) ==
  {j \in Jobs :
     LET x == store[j]
         retry == x.last = "error" /\ x.next # None /\ x.next > x.lastRun
     IN
     /\ x.exists /\ x.enabled /\ x.marker = None
     /\ IF OneShot(j) /\ x.last # "none" THEN retry /\ IsDue(x)
        ELSE \/ IsDue(x)
             \/ /\ KindOf[j] = "cron" /\ x.next # None /\ x.last # "error"
                /\ x.lastRun # None /\ now > x.lastRun}
---------------------------------------------------------------------------
(* Services and runs *)

IsUp(s) == phase[s] \notin {"unbuilt", "off", "dead"}
Batch(s, kinds) ==
  {r \in Runs : run[r].by = s /\ run[r].kind \in kinds
                  /\ run[r].phase \in {"queued", "executing", "ended"}}
Used == Cardinality({r \in Runs : run[r].phase # "unused"})

\* The run of job j when the runs of the jobs js are next.
RunOf(j, js) == Used + Cardinality({i \in js : i <= j})
CanRun(js) == Used + Cardinality(js) <= RunCount

Marked(store, js) ==
  [j \in Jobs |->
     IF j \in js THEN [store[j] EXCEPT !.marker = [run |-> RunOf(j, js), since |-> now]]
     ELSE store[j]]

\* The runs of js begin; a reload replaces the job objects that s has handed out.
Begun(s, js, kind, how, reloaded) ==
  [r \in Runs |->
     IF \E j \in js : r = RunOf(j, js)
     THEN [phase |-> how, job |-> CHOOSE j \in js : r = RunOf(j, js), by |-> s,
           kind |-> kind, since |-> now, at |-> now, result |-> "none", fresh |-> TRUE]
     ELSE IF reloaded /\ run[r].by = s THEN [run[r] EXCEPT !.fresh = FALSE]
     ELSE run[r]]

Done(s, rs) ==
  [r \in Runs |->
     IF r \in rs THEN [run[r] EXCEPT !.phase = "done", !.since = 0, !.fresh = FALSE]
     ELSE IF run[r].by = s THEN [run[r] EXCEPT !.fresh = FALSE]
     ELSE run[r]]

Wanted(store) == \E j \in Jobs : store[j].exists /\ store[j].enabled /\ store[j].next # None
\* Mutant: jobs that are overdue are not waited for.
ArmLater(s, store) ==
  timer' = [timer EXCEPT ![s] =
    \E j \in Jobs : store[j].exists /\ store[j].enabled /\ store[j].next # None
                       /\ store[j].next > now]

\* armTimer
Arm(s, store) == timer' = [timer EXCEPT ![s] = Wanted(store)]

CanTrouble == faults + edits + current - 1 < MaxTroubles

Memory(s, store) == mem' = [mem EXCEPT ![s] = store]

\* persist, after which the store is both in memory and on disk, or which throws.
Save(s, store) == Memory(s, store) /\ disk' = store /\ UNCHANGED faults
SaveFails(s, store) ==
  /\ CanTrouble
  /\ faults' = faults + 1
  /\ Memory(s, store)
  /\ UNCHANGED disk

\* Runs that are known not to be alone: see RunsAlone.
Exempt(r) ==
  \/ r \in cut
  \/ run[r].by # current
  \/ now - run[r].since > StuckAfter
  \/ r \in alive /\ run[r].phase # "executing"

Beside(j) ==
  {r \in Runs : run[r].job = j /\ run[r].phase \in {"queued", "executing", "ended"}}

\* The results of a run that was not alone take the marker of the others.
Overrun(rs) == UNION {Beside(run[r].job) : r \in {q \in rs : Exempt(q)}}

Tick ==
  /\ now < MaxTime
  /\ now' = now + 1
  /\ UNCHANGED <<storeVars, serviceVars, runVars, cutOff, faults, edits>>
---------------------------------------------------------------------------
(* The start of a service *)

\* Mutant: the markers go before the interrupted jobs are noted.
StartForgets(s) ==
  /\ phase[s] = "off"
  /\ phase' = [phase EXCEPT ![s] = "marked"]
  /\ skip' = [skip EXCEPT ![s] = {}]
  /\ Save(s, [j \in Jobs |-> [disk[j] EXCEPT !.marker = None]])
  /\ UNCHANGED <<now, timer, tick, current, runVars, cutOff, edits>>

\* Jobs with a marker were interrupted; the markers go.
Start(s) ==
  /\ phase[s] = "off"
  /\ phase' = [phase EXCEPT ![s] = "marked"]
  /\ skip' = [skip EXCEPT ![s] = {j \in Jobs : disk[j].marker # None}]
  /\ Save(s, [j \in Jobs |-> [disk[j] EXCEPT !.marker = None]])
  /\ UNCHANGED <<now, timer, tick, current, runVars, cutOff, edits>>

\* planStartupCatchup: of the missed jobs the first are run now, one by one.  A
\* service that was replaced may undo with its memory what was run since.
PlanCatchup(s) ==
  LET missed == Missed(mem[s]) \ skip[s]
  IN
  /\ phase[s] = "marked"
  /\ IF missed = {}
     THEN /\ phase' = [phase EXCEPT ![s] = "caught"]
          /\ UNCHANGED <<storeVars, skip, runVars, faults>>
     ELSE \E first \in SUBSET missed :
            /\ Cardinality(first) = IF Cardinality(missed) < MaxMissed
                                    THEN Cardinality(missed) ELSE MaxMissed
            /\ \A i \in first, j \in missed \ first :
                 mem[s][i].next <= mem[s][j].next
            /\ CanRun(first)
            /\ phase' = [phase EXCEPT ![s] = "catchup"]
            /\ skip' = [skip EXCEPT ![s] = missed \ first]
            /\ run' = Begun(s, first, "catchup", "queued", FALSE)
            /\ Save(s, Marked(mem[s], first))
            /\ cut' = cut \cup (IF s = current THEN {}
                               ELSE {r \in Runs : run[r].phase # "unused"})
            /\ UNCHANGED alive
  /\ UNCHANGED <<now, timer, tick, current, cutOff, edits>>

\* applyStartupCatchupOutcomes: the jobs that were left for later get their time,
\* if they are enabled, even when they have been run meanwhile.
ApplyCatchup(s) ==
  LET rs == Batch(s, {"catchup"})
      applied == ApplyAll(disk, rs)
      deferred == [j \in Jobs |->
        IF j \in skip[s] /\ applied[j].exists /\ applied[j].enabled
        THEN [applied[j] EXCEPT !.next = now + 1] ELSE applied[j]]
  IN
  /\ phase[s] = "catchup"
  /\ \A r \in rs : run[r].phase = "ended"
  /\ phase' = [phase EXCEPT ![s] = "caught"]
  /\ Save(s, Maintain(deferred, FALSE))
  /\ run' = Done(s, rs)
  /\ cut' = cut \cup Overrun(rs)
               \cup {r \in Runs : run[r].phase = "done" /\ run[r].job \in skip[s]}
  /\ UNCHANGED <<now, skip, timer, tick, current, alive, cutOff, edits>>

Started(s) ==
  LET store == Recompute(disk)
  IN
  /\ phase[s] = "caught"
  /\ phase' = [phase EXCEPT ![s] = "on"]
  /\ Save(s, store)
  /\ Arm(s, store)
  /\ skip' = [skip EXCEPT ![s] = {}]
  /\ run' = Done(s, {})
  /\ UNCHANGED <<now, tick, current, alive, cut, cutOff, edits>>
---------------------------------------------------------------------------
(* The timer *)

Ticks == {"tick", "early"}   \* "early": before the start of the service is through

\* onTimer takes the due jobs: those on disk count.  A watchdog timer is armed,
\* and whatever happens a tick ends with a timer for the jobs in memory.  During
\* a start, a request may have armed the timer.
Fire(s) ==
  LET due == Runnable(disk)
      idle == Maintain(disk, TRUE)
      marked == Marked(disk, due)
  IN
  /\ IsUp(s) /\ timer[s] /\ ~tick[s]
  /\ CanRun(due)
  /\ \/ /\ due = {}
        /\ Save(s, idle)
        /\ Arm(s, idle)
        /\ run' = Done(s, {})
        /\ UNCHANGED tick
     \/ /\ due # {}
        /\ Save(s, marked)
        /\ tick' = [tick EXCEPT ![s] = TRUE]
        /\ run' = Begun(s, due, IF phase[s] = "on" THEN "tick" ELSE "early", "queued", TRUE)
        /\ UNCHANGED timer
     \/ /\ due # {}
        /\ SaveFails(s, marked)
        /\ Arm(s, marked)
        /\ run' = Done(s, {})
        /\ UNCHANGED tick
  /\ UNCHANGED <<now, phase, skip, current, alive, cut, cutOff, edits>>

\* The results of a tick are applied together, to what is on disk by then.
ApplyTick(s) ==
  LET rs == Batch(s, Ticks)
      store == Maintain(ApplyAll(disk, rs), FALSE)
  IN
  /\ tick[s]
  /\ \A r \in rs : run[r].phase = "ended"
  /\ tick' = [tick EXCEPT ![s] = FALSE]
  /\ (Save(s, store) \/ SaveFails(s, store))
  /\ Arm(s, store)
  /\ run' = Done(s, rs)
  /\ cut' = cut \cup Overrun(rs)
  /\ UNCHANGED <<now, phase, skip, current, alive, cutOff, edits>>

\* runDueJob and runStartupCatchupCandidate: the runs of a tick go one after the
\* other, as with the default of resolveRunConcurrency.  A tick writes the marker
\* again, into the object that it was given.
Begin(r) ==
  /\ run[r].phase = "queued"
  /\ \A q \in Batch(run[r].by, {run[r].kind}) : run[q].phase # "executing"
  /\ run' = [run EXCEPT ![r].phase = "executing", ![r].at = now]
  /\ alive' = alive \cup {r}
  /\ mem' = IF run[r].kind \in Ticks /\ run[r].fresh
            THEN [mem EXCEPT ![run[r].by][run[r].job].marker =
                                  [run |-> r, since |-> now]] ELSE mem
  /\ UNCHANGED <<now, disk, serviceVars, cut, cutOff, faults, edits>>

\* Mutant: the outcome of a run is not kept.
ExecutedUnkept(r, result) ==
  /\ run[r].phase = "executing"
  /\ alive' = alive \ {r}
  /\ UNCHANGED <<now, storeVars, serviceVars, run, cut, cutOff, faults, edits>>

\* The errors are told apart for one-shot jobs only.
Executed(r, result) ==
  /\ run[r].phase = "executing"
  /\ result = "transient" => OneShot(run[r].job)
  /\ run' = [run EXCEPT ![r].phase = "ended", ![r].result = result]
  /\ alive' = alive \ {r}
  /\ UNCHANGED <<now, storeVars, serviceVars, cut, cutOff, faults, edits>>

\* executeJobCoreWithTimeout gives up waiting: the job is told to abort, and may
\* go on all the same.  The message of the timeout is not one that is retried.
TimesOut(r) ==
  /\ run[r].phase = "executing"
  /\ run' = [run EXCEPT ![r].phase = "ended", ![r].result = "permanent"]
  /\ UNCHANGED <<now, storeVars, serviceVars, alive, cut, cutOff, faults, edits>>

Aborted(r) ==
  /\ r \in alive /\ run[r].phase \in {"ended", "done", "unsaved"}
  /\ alive' = alive \ {r}
  /\ UNCHANGED <<now, storeVars, serviceVars, run, cut, cutOff, faults, edits>>
---------------------------------------------------------------------------
(* Requests, which the gateway sends to the current service *)

\* prepareManualRun, on the jobs in memory.
RunNow(j, kind) ==
  LET s == current
      store == Maintain(mem[s], FALSE)
      x == store[j]
      marked == Marked(store, {j})
  IN
  /\ IsUp(s)
  /\ x.exists /\ x.marker = None
  /\ kind = "due" => x.enabled /\ IsDue(x)
  /\ CanRun({j})
  /\ \/ /\ Save(s, marked)
        /\ run' = Begun(s, {j}, kind, "executing", FALSE)
        /\ alive' = alive \cup {RunOf(j, {j})}
        /\ cut' = cut \cup (IF x.enabled THEN {} ELSE {RunOf(j, {j})})
     \/ SaveFails(s, marked) /\ UNCHANGED runVars
  /\ UNCHANGED <<now, serviceVars, cutOff, edits>>

\* finishPreparedManualRun: the result is applied in memory, and the job as it is
\* there goes into the reloaded store.
FinishRunNow(r) ==
  LET s == run[r].by
      j == run[r].job
      applied == ApplyResult(mem[s], r)[j]
      merged == [disk EXCEPT ![j] = IF @.exists THEN applied ELSE @]
      store == Maintain(merged, TRUE)
  IN
  /\ IsUp(s)
  /\ run[r].kind \in {"due", "force"} /\ run[r].phase = "ended"
  /\ IF mem[s][j].exists
     THEN /\ \/ Save(s, store) /\ Arm(s, store) /\ run' = Done(s, {r})
             \/ /\ SaveFails(s, store)
                /\ run' = [Done(s, {r}) EXCEPT ![r].phase = "unsaved"]
                /\ UNCHANGED timer
     ELSE /\ run' = [run EXCEPT ![r].phase = "done"]
          /\ UNCHANGED <<storeVars, timer, faults>>
  /\ cut' = cut \cup Overrun({r})
  /\ UNCHANGED <<now, phase, skip, tick, current, alive, cutOff, edits>>

\* update with a new value of "enabled", and remove.
Edit(j, what) ==
  LET s == current
      x == mem[s][j]
      y == CASE what = "enable" -> [x EXCEPT !.enabled = TRUE,
                  !.next = ComputeNext(j, [x EXCEPT !.enabled = TRUE])]
             [] what = "disable" -> [x EXCEPT !.enabled = FALSE, !.next = None, !.marker = None]
             [] what = "remove" -> [x EXCEPT !.exists = FALSE, !.enabled = FALSE,
                  !.next = None, !.marker = None]
      store == [mem[s] EXCEPT ![j] = y]
  IN
  /\ IsUp(s) /\ x.exists
  /\ IF what = "enable" /\ ~x.enabled THEN UNCHANGED edits
     ELSE CanTrouble /\ edits' = edits + 1
  /\ Save(s, store)
  /\ Arm(s, store)
  /\ cut' = cut \cup (IF what = "enable" THEN {} ELSE Beside(j))
  /\ UNCHANGED <<now, phase, skip, tick, current, run, alive, cutOff>>

\* list and status repair the jobs, and arm no timer; so does a manual run that
\* is refused, in memory only.
List ==
  LET store == Maintain(mem[current], FALSE)
  IN
  /\ IsUp(current)
  /\ store # mem[current]
  /\ \/ Save(current, store)
     \/ Memory(current, store) /\ UNCHANGED <<disk, faults>>
  /\ UNCHANGED <<now, serviceVars, runVars, cutOff, edits>>

\* stop, and a new service on the same store.
Reload ==
  /\ IsUp(current) /\ current < MaxServices /\ CanTrouble
  /\ timer' = [timer EXCEPT ![current] = FALSE]
  /\ current' = current + 1
  /\ phase' = [phase EXCEPT ![current + 1] = "off"]
  /\ cutOff' = {}
  /\ UNCHANGED <<now, storeVars, skip, tick, runVars, faults, edits>>

Crash ==
  /\ current < MaxServices /\ CanTrouble
  /\ current' = current + 1
  /\ phase' = [s \in Services |->
       IF s <= current THEN "dead" ELSE IF s = current + 1 THEN "off" ELSE phase[s]]
  /\ timer' = [s \in Services |-> FALSE]
  /\ tick' = [s \in Services |-> FALSE]
  /\ run' = [r \in Runs |->
       IF run[r].phase \in {"unused", "done"} THEN run[r]
       ELSE [run[r] EXCEPT !.phase = "dead", !.since = 0, !.fresh = FALSE]]
  /\ alive' = {}
  /\ cutOff' = {<<run[r].job, now>> : r \in {q \in alive : ~Exempt(q)}}
  /\ mem' = [s \in Services |-> disk]
  /\ skip' = [s \in Services |-> {}]
  /\ UNCHANGED <<now, disk, cut, faults, edits>>

Next ==
  \/ Tick \/ List \/ Reload \/ Crash
  \/ \E s \in Services :
       \/ Start(s) \/ PlanCatchup(s) \/ ApplyCatchup(s) \/ Started(s)
       \/ Fire(s) \/ ApplyTick(s)
  \/ \E r \in Runs :
       \/ Begin(r) \/ TimesOut(r) \/ Aborted(r) \/ FinishRunNow(r)
       \/ \E result \in {"ok", "transient", "permanent"} : Executed(r, result)
  \/ \E j \in Jobs :
       \/ \E kind \in {"due", "force"} : RunNow(j, kind)
       \/ \E what \in {"enable", "disable", "remove"} : Edit(j, what)

Spec == Init /\ [][Next]_vars
---------------------------------------------------------------------------
(* Properties *)

TypeOK ==
  /\ now \in 0 .. MaxTime
  /\ disk \in [Jobs -> JobState]
  /\ mem \in [Services -> [Jobs -> JobState]]
  /\ phase \in [Services -> {"unbuilt", "off", "marked", "catchup", "caught", "on", "dead"}]
  /\ skip \in [Services -> SUBSET Jobs]
  /\ timer \in [Services -> BOOLEAN]
  /\ tick \in [Services -> BOOLEAN]
  /\ current \in Services
  /\ run \in [Runs -> RunState]
  /\ alive \subseteq Runs /\ cut \subseteq Runs
  /\ cutOff \subseteq Jobs \X Times
  /\ faults \in 0 .. MaxTroubles /\ edits \in 0 .. MaxTroubles
  /\ \A r \in Runs : run[r].phase = "executing" => r \in alive

\* A job is executed once at a time.  Excepted are runs whose marker was removed
\* by an edit or along with that of a run beside them, runs of a service that
\* was replaced, runs of more than two hours, and runs that went on after their
\* timeout.
RunsAlone ==
  \A q, r \in alive :
    q # r /\ run[q].job = run[r].job => Exempt(q) \/ Exempt(r)

\* A job that a crash interrupted is not among the missed jobs that the next
\* start runs, and the ticks leave it alone until its next slot, if it has one.
\* Excepted are ticks before the start is through: a request that arms the timer
\* by then has the slot run again that the crash has cut.
NotReplayedAtOnce ==
  \A r \in Runs : \A cutJob \in cutOff :
    run[r].by = current /\ run[r].job = cutJob[1] =>
      /\ run[r].kind # "catchup"
      /\ run[r].kind = "tick" /\ ~OneShot(run[r].job) => run[r].at > cutJob[2]

\* What starts is neither beside a run of the job nor a run that a crash has cut.
RunsAllowed == RunsAlone /\ NotReplayedAtOnce

\* A one-shot job that has run at its time and succeeded is not run again.
\* Excepted are jobs of which a run was forced or interfered with, and what
\* follows a write that failed.
OneShotOnce ==
  [][\A q, r \in Runs :
       /\ run[r].phase = "unused" /\ run'[r].phase # "unused"
       /\ run[q].phase = "done" /\ run[q].result = "ok"
       /\ run[q].job = run'[r].job /\ OneShot(run[q].job) /\ AtTime <= run[q].at
       => \/ \E f \in Runs : /\ run'[f].job = run[q].job
                             /\ run'[f].kind = "force" \/ f \in cut'
          \/ faults > 0]_vars

\* The service in use has a timer as long as it has a job to wait for.  Excepted
\* is a result of a manual run that could not be written.
TimerStays ==
  phase[current] = "on" /\ ~tick[current] /\ Wanted(mem[current]) =>
    timer[current] \/ \E r \in Runs : run[r].phase = "unsaved"
===========================================================================
