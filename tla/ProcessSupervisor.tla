------------------------ MODULE ProcessSupervisor ------------------------
(***************************************************************************)
(* The supervisor of child processes, process/supervisor/supervisor.ts and *)
(* registry.ts, with the parts of the child and pty adapters that end a    *)
(* process.  Each call is one atomic step up to its first await; what the  *)
(* awaits wait for (the process is spawned, it ends) and the timers are    *)
(* steps of their own.                                                     *)
(***************************************************************************)
EXTENDS Naturals, FiniteSets

CONSTANTS
  Runs,       \* run ids
  Scopes,     \* scope keys
  None,       \* no scope, no reason
  ScopeOf,    \* ScopeOf[r]: the scopeKey of the run, or None
  Replaces,   \* the runs that are spawned with replaceExistingScope
  Pty,        \* the runs spawned in a pty
  Limits,     \* Limits[r]: the timeouts that are configured for the run
  MaxExited   \* maxExitedRecords

Timeouts == {"overall-timeout", "no-output-timeout"}
Reasons == Timeouts \cup {"manual-cancel", "spawn-error", "signal", "exit"}

ASSUME NoneType == None \notin Scopes \cup Reasons
ASSUME RunTypes ==
  /\ IsFiniteSet(Runs)
  /\ ScopeOf \in [Runs -> Scopes \cup {None}]
  /\ Replaces \subseteq Runs /\ Pty \subseteq Runs
  /\ Limits \in [Runs -> SUBSET Timeouts]
ASSUME MaxExitedType == MaxExited \in Nat \ {0}

VARIABLES
  records,     \* the records of the registry, by run id
  order,       \* the insertion order of the map: earlier and later run, in pairs
  active,      \* the runs in the map of that name
  stage,       \* how far the spawn call and its wait promise are
  forced,      \* forcedReason of each run
  timers,      \* the timers of each run that are armed
  process,     \* the operating system's process of each run
  fallback,    \* the runs whose pty force-kill fallback timer is armed
  exit,        \* the reason that wait() reports
  late,        \* history: runs whose handle was cancelled after they settled
  overlapped   \* history: runs spawned while another of their scope was

vars == <<records, order, active, stage, forced, timers, process, fallback,
          exit, late, overlapped>>

Record == [state : {"absent", "starting", "running", "exiting", "exited"},
           reason : Reasons \cup {None}]
Absent == [state |-> "absent", reason |-> None]
Stage == {"none", "spawning", "failed", "up", "settled"}

TypeOK ==
  /\ records \in [Runs -> Record]
  /\ order \subseteq Runs \X Runs
  /\ active \subseteq Runs
  /\ stage \in [Runs -> Stage]
  /\ forced \in [Runs -> Reasons \cup {None}]
  /\ timers \in [Runs -> SUBSET Timeouts]
  /\ process \in [Runs -> {"none", "live", "killed", "exited", "signalled"}]
  /\ fallback \subseteq Pty
  /\ exit \in [Runs -> Reasons \cup {None}]
  /\ late \subseteq Runs
  /\ overlapped \subseteq Runs

Init ==
  /\ records = [r \in Runs |-> Absent]
  /\ order = {}
  /\ active = {}
  /\ stage = [r \in Runs |-> "none"]
  /\ forced = [r \in Runs |-> None]
  /\ timers = [r \in Runs |-> {}]
  /\ process = [r \in Runs |-> "none"]
  /\ fallback = {}
  /\ exit = [r \in Runs |-> None]
  /\ late = {}
  /\ overlapped = {}
---------------------------------------------------------------------------
(* The registry *)

First(value, default) == IF value = None THEN default ELSE value

Exited(recs) == {r \in Runs : recs[r].state = "exited"}

Present == {r \in Runs : records[r] # Absent}

\* Mutant: one record too many is kept.
SurplusLess(recs) ==
  LET rank(r) == Cardinality({q \in Exited(recs) : q = r \/ <<q, r>> \in order})
  IN  {r \in Exited(recs) : rank(r) + MaxExited < Cardinality(Exited(recs))}

\* The oldest exited records beyond the retention limit.
Surplus(recs) ==
  LET rank(r) == Cardinality({q \in Exited(recs) : q = r \/ <<q, r>> \in order})
  IN  {r \in Exited(recs) : rank(r) + MaxExited <= Cardinality(Exited(recs))}

Prune(recs) ==
  /\ records' = [r \in Runs |-> IF r \in Surplus(recs) THEN Absent ELSE recs[r]]
  /\ order' = {p \in order : {p[1], p[2]} \cap Surplus(recs) = {}}

\* finalize keeps the reason the record has, and prunes.
Finalize(r, why) ==
  IF records[r] = Absent THEN UNCHANGED <<records, order>>
  ELSE Prune([records EXCEPT ![r] =
         [state |-> "exited", reason |-> First(@.reason, why)]])
---------------------------------------------------------------------------
(* Cancelling *)

\* supervisor.cancel of active runs: their records say so at once, and take the
\* new reason even when an earlier one was forced.
Cancelled(S, recs, why) ==
  [r \in Runs |-> IF r \in S THEN [state |-> "exiting", reason |-> why] ELSE recs[r]]

\* Mutant: every run gets the timer of the pty adapter.
RequestFallback(S, why) ==
  /\ forced' = [r \in Runs |-> IF r \in S THEN First(forced[r], why) ELSE forced[r]]
  /\ process' = [r \in Runs |->
       IF r \in S /\ process[r] = "live" THEN "killed" ELSE process[r]]
  /\ fallback' = fallback \cup S

\* Mutant: the last reason is kept.
RequestLast(S, why) ==
  /\ forced' = [r \in Runs |-> IF r \in S THEN why ELSE forced[r]]
  /\ process' = [r \in Runs |->
       IF r \in S /\ process[r] = "live" THEN "killed" ELSE process[r]]
  /\ fallback' = fallback \cup (S \cap Pty)

\* requestCancel of each run in S: the first reason is kept, the process is
\* killed, and a pty gets a timer in case it never reports its exit.
Request(S, why) ==
  /\ forced' = [r \in Runs |-> IF r \in S THEN First(forced[r], why) ELSE forced[r]]
  /\ process' = [r \in Runs |->
       IF r \in S /\ process[r] = "live" THEN "killed" ELSE process[r]]
  /\ fallback' = fallback \cup (S \cap Pty)

Cancel(r) ==
  /\ r \in active
  /\ records' = Cancelled({r}, records, "manual-cancel")
  /\ Request({r}, "manual-cancel")
  /\ UNCHANGED <<order, active, stage, timers, exit, late, overlapped>>

InScope(s) == {r \in active : ScopeOf[r] = s}

CancelScope(s) ==
  /\ InScope(s) # {}
  /\ records' = Cancelled(InScope(s), records, "manual-cancel")
  /\ Request(InScope(s), "manual-cancel")
  /\ UNCHANGED <<order, active, stage, timers, exit, late, overlapped>>

\* setForcedReason writes the record whenever no reason was forced before, the
\* record of a settled run too.
Forces(r, why) ==
  records' = IF forced[r] # None \/ records[r] = Absent THEN records
             ELSE Cancelled({r}, records, why)

\* cancel of the handle that spawn returned, by whoever holds it.
CancelHandle(r) ==
  /\ stage[r] \in {"up", "settled"}
  /\ Forces(r, "manual-cancel")
  /\ IF stage[r] = "up"
     THEN Request({r}, "manual-cancel") /\ UNCHANGED late
     ELSE /\ forced' = [forced EXCEPT ![r] = First(@, "manual-cancel")]
          /\ late' = late \cup {r}
          /\ UNCHANGED <<process, fallback>>
  /\ UNCHANGED <<order, active, stage, timers, exit, overlapped>>

\* Mutant: the timeout is noted, and the process goes on.
TimerFiresOnly(r, k) ==
  /\ k \in timers[r]
  /\ timers' = [timers EXCEPT ![r] = @ \ {k}]
  /\ Forces(r, k)
  /\ forced' = [forced EXCEPT ![r] = First(@, k)]
  /\ UNCHANGED <<order, active, stage, process, fallback, exit, late, overlapped>>

TimerFires(r, k) ==
  /\ k \in timers[r]
  /\ timers' = [timers EXCEPT ![r] = @ \ {k}]
  /\ Forces(r, k)
  /\ Request({r}, k)
  /\ UNCHANGED <<order, active, stage, exit, late, overlapped>>
---------------------------------------------------------------------------
(* spawn *)

\* Mutant: the record is added, and the runs of the scope go on.
ReplacedNone(r) == {}

Replaced(r) ==
  IF r \in Replaces /\ ScopeOf[r] # None THEN InScope(ScopeOf[r]) ELSE {}

Pending(s) == {q \in Runs : s # None /\ stage[q] = "spawning" /\ ScopeOf[q] = s}

\* The runs of the scope are cancelled and the record is added before the first
\* await.  A run whose spawn failed may be spawned again under its id.
Spawn(r) ==
  /\ stage[r] \in {"none", "failed"}
  /\ records' = [Cancelled(Replaced(r), records, "manual-cancel") EXCEPT ![r] =
                   [state |-> "starting", reason |-> None]]
  /\ order' = order \cup (IF records[r] = Absent THEN Present \X {r} ELSE {})
  /\ Request(Replaced(r), "manual-cancel")
  /\ stage' = [stage EXCEPT ![r] = "spawning"]
  /\ LET others == Pending(ScopeOf[r])
     IN  overlapped' = IF others = {} THEN overlapped
                       ELSE overlapped \cup others \cup {r}
  /\ UNCHANGED <<active, timers, exit, late>>

SpawnFails(r) ==
  /\ stage[r] = "spawning"
  /\ stage' = [stage EXCEPT ![r] = "failed"]
  /\ Finalize(r, "spawn-error")
  /\ UNCHANGED <<active, forced, timers, process, fallback, exit, late, overlapped>>

SpawnSucceeds(r) ==
  /\ stage[r] = "spawning"
  /\ stage' = [stage EXCEPT ![r] = "up"]
  /\ process' = [process EXCEPT ![r] = "live"]
  /\ records' = [records EXCEPT ![r] = [state |-> "running", reason |-> @.reason]]
  /\ timers' = [timers EXCEPT ![r] = Limits[r]]
  /\ active' = active \cup {r}
  /\ UNCHANGED <<order, forced, fallback, exit, late, overlapped>>
---------------------------------------------------------------------------
(* The process runs, ends, and its end is noticed. *)

\* Output arms the no-output timer anew.
Output(r) ==
  /\ stage[r] = "up" /\ process[r] \in {"live", "killed"}
  /\ timers' = [timers EXCEPT ![r] = @ \cup (Limits[r] \cap {"no-output-timeout"})]
  /\ UNCHANGED <<records, order, active, stage, forced, process, fallback, exit,
                 late, overlapped>>

Dies(r) ==
  /\ process[r] \in {"live", "killed"}
  /\ \E how \in {"exited", "signalled"} : process' = [process EXCEPT ![r] = how]
  /\ UNCHANGED <<records, order, active, stage, forced, timers, fallback, exit,
                 late, overlapped>>

\* Mutant: the timers of a settled run stay armed.
SettleKeepsTimers(r, natural) ==
  /\ stage[r] = "up"
  /\ stage' = [stage EXCEPT ![r] = "settled"]
  /\ active' = active \ {r}
  /\ fallback' = fallback \ {r}
  /\ exit' = [exit EXCEPT ![r] = First(forced[r], natural)]
  /\ Finalize(r, First(forced[r], natural))
  /\ UNCHANGED <<forced, timers, process, late, overlapped>>

\* Mutant: the run stays in the map of active runs.
SettleKeepsActive(r, natural) ==
  /\ stage[r] = "up"
  /\ stage' = [stage EXCEPT ![r] = "settled"]
  /\ timers' = [timers EXCEPT ![r] = {}]
  /\ fallback' = fallback \ {r}
  /\ exit' = [exit EXCEPT ![r] = First(forced[r], natural)]
  /\ Finalize(r, First(forced[r], natural))
  /\ UNCHANGED <<active, forced, process, late, overlapped>>

Settle(r, natural) ==
  /\ stage[r] = "up"
  /\ stage' = [stage EXCEPT ![r] = "settled"]
  /\ timers' = [timers EXCEPT ![r] = {}]
  /\ active' = active \ {r}
  /\ fallback' = fallback \ {r}
  /\ exit' = [exit EXCEPT ![r] = First(forced[r], natural)]
  /\ Finalize(r, First(forced[r], natural))
  /\ UNCHANGED <<forced, process, late, overlapped>>

Closes(r) ==
  \/ process[r] = "exited" /\ Settle(r, "exit")
  \/ process[r] = "signalled" /\ Settle(r, "signal")

\* A pty that was killed and does not report its exit.
FallbackFires(r) == r \in fallback /\ Settle(r, "signal")
---------------------------------------------------------------------------
Next ==
  \/ \E r \in Runs :
       \/ Cancel(r) \/ CancelHandle(r)
       \/ Spawn(r) \/ SpawnFails(r) \/ SpawnSucceeds(r)
       \/ Output(r) \/ Dies(r) \/ Closes(r) \/ FallbackFires(r)
       \/ \E k \in Timeouts : TimerFires(r, k)
  \/ \E s \in Scopes : CancelScope(s)

\* A killed process dies (killProcessTree sends SIGKILL in the end), the close of
\* a child is noticed, the end of a pty need not be but its fallback timer fires,
\* and so does the overall timer, which nothing arms anew.
Fairness ==
  /\ \A r \in Runs : /\ WF_vars(process[r] = "killed" /\ Dies(r))
                    /\ WF_vars(TimerFires(r, "overall-timeout"))
  /\ \A r \in Runs \ Pty : WF_vars(Closes(r))
  /\ \A r \in Pty : WF_vars(FallbackFires(r))

Spec == Init /\ [][Next]_vars
FairSpec == Spec /\ Fairness
---------------------------------------------------------------------------
(* Properties *)

\* A process that has come up can be cancelled until its end is noticed: it is
\* in the map, with a record that retention does not touch.  The map holds
\* nothing else.
UpIsActive ==
  /\ active = {r \in Runs : stage[r] = "up"}
  /\ \A r \in active : records[r].state \in {"running", "exiting"}
  /\ \A r \in Runs : stage[r] = "spawning" => records[r].state = "starting"

\* The record of a run that has ended stays as it is until it is pruned or its
\* failed spawn is tried again, whatever timers and cancels come late; only the
\* handle of a settled run can change it.
ExitedStays ==
  [][\A r \in Runs \ late' :
       records[r].state = "exited" /\ records'[r] # records[r] =>
         \/ records'[r] = Absent
         \/ stage[r] = "failed" /\ records'[r].state = "starting"]_vars

\* At most MaxExited ended runs are kept, those aside whose handle was cancelled
\* after they ended.
RetentionBound ==
  Cardinality({r \in Runs \ late : /\ stage[r] \in {"settled", "failed"}
                                   /\ records[r] # Absent}) <= MaxExited

\* The records have their types and their bound.
RecordsBounded == TypeOK /\ RetentionBound

\* Of the runs that replace the others of their scope, one goes on: two only if
\* they were spawned while neither had come up.
ReplacesUnlessOverlapped ==
  \A q, r \in Replaces :
    /\ ScopeOf[q] = ScopeOf[r] /\ ScopeOf[q] # None
    /\ stage[q] = "up" /\ stage[r] = "up"
    /\ forced[q] = None /\ forced[r] = None
    => q = r \/ {q, r} \subseteq overlapped

\* What supersedes, and is cancelled, is what really runs.
ActiveSound == UpIsActive /\ ReplacesUnlessOverlapped

\* "preserves first terminal metadata" (registry.test.ts).
TerminalReasonStays ==
  [][\A r \in Runs :
       records[r].state = "exited" /\ records'[r] # Absent /\ stage[r] = "settled"
         => records'[r].reason = records[r].reason]_vars

\* A run with an overall timeout ends once it is up, whatever its output does to
\* the no-output timer, whether or not its process obeys and its pty reports.
TimedRunEnds ==
  \A r \in Runs :
    "overall-timeout" \in Limits[r] => (stage[r] = "up" ~> stage[r] = "settled")

\* What the promise knows of a run.
RunPhase ==
  [r \in Runs |->
    CASE stage[r] = "none" -> "absent"
      [] stage[r] = "spawning" -> "starting"
      [] stage[r] = "up" -> "running"
      [] stage[r] = "settled" -> "ended"
      [] OTHER -> "failed"]

Verdict == [r \in Runs |-> IF stage[r] = "settled" THEN exit[r] ELSE forced[r]]

\* Records, timers, forced reasons and the map of active runs implement the
\* promise made of each run.
Promise == INSTANCE ManagedRuns WITH phase <- RunPhase, verdict <- Verdict

ImplementsRuns == Promise!Spec
===========================================================================
