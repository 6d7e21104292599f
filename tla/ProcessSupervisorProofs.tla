--------------------- MODULE ProcessSupervisorProofs ---------------------
(***************************************************************************)
(* Facts about the process supervisor, for any runs, scopes, timeouts and  *)
(* retention limit: what is up can be cancelled, two runs that replace one *)
(* another go on together only if their spawns overlapped, each run gets   *)
(* what it is promised, and few records of ended runs are kept.            *)
(***************************************************************************)
EXTENDS ProcessSupervisor, FiniteSetTheorems, TLAPS

\* Two runs that replace one another in the same scope.
Rivals(q, r) ==
  q # r /\ q \in Replaces /\ r \in Replaces /\ ScopeOf[q] = ScopeOf[r]
        /\ ScopeOf[q] # None

\* Will go on, unless it is cancelled from now on.
GoesOn(r) == stage[r] = "spawning" \/ (stage[r] = "up" /\ forced[r] = None)

\* The spawns of rivals that both go on have overlapped: each of them would have
\* cancelled the other, had it been up.
RivalsOverlapped ==
  \A q, r \in Runs :
    Rivals(q, r) /\ GoesOn(q) /\ GoesOn(r) => {q, r} \subseteq overlapped

Types ==
  /\ DOMAIN records = Runs
  /\ stage \in [Runs -> Stage]
  /\ DOMAIN timers = Runs
  /\ forced \in [Runs -> Reasons \cup {None}]
  /\ overlapped \subseteq Runs

\* Only the timers of a run that is up are armed.
TimersUp == \A r \in Runs : timers[r] # {} => stage[r] = "up"

IInv == Types /\ UpIsActive /\ RivalsOverlapped /\ TimersUp

\* Pruning drops and changes records of exited runs only.
LEMMA PruneKeeps ==
  ASSUME NEW recs, Prune(recs)
  PROVE  /\ DOMAIN records' = Runs
         /\ \A r \in Runs : recs[r].state # "exited" => records'[r] = recs[r]
  BY DEF Prune, Surplus, Exited

\* Finalizing a run leaves the records of the others alone, unless they exited.
LEMMA FinalizeKeeps ==
  ASSUME Types, NEW r \in Runs, NEW why, Finalize(r, why)
  PROVE  /\ DOMAIN records' = Runs
         /\ \A q \in Runs \ {r} :
              records[q].state # "exited" => records'[q] = records[q]
<1>1. CASE records[r] = Absent
  BY <1>1 DEF Finalize, Types
<1>2. CASE records[r] # Absent
  <2> DEFINE recs == [records EXCEPT ![r] =
               [state |-> "exited", reason |-> First(@.reason, why)]]
  <2>1. Prune(recs)
    BY <1>2 DEF Finalize
  <2>2. \A q \in Runs \ {r} : recs[q] = records[q]
    BY DEF Types
  <2> HIDE DEF recs
  <2>3. QED
    BY <2>1, <2>2, PruneKeeps
<1>3. QED
  BY <1>1, <1>2

\* Requests never take a forced reason back.
LEMMA RequestForces ==
  ASSUME Types, NEW S \in SUBSET Runs, NEW why \in Reasons, Request(S, why)
  PROVE  /\ forced' \in [Runs -> Reasons \cup {None}]
         /\ \A r \in Runs : forced'[r] = None => forced[r] = None
         /\ \A r \in S : forced'[r] # None
  BY NoneType DEF Request, First, Types

LEMMA InitInv == Init => IInv
  BY DEF Init, IInv, Types, UpIsActive, RivalsOverlapped, GoesOn, Absent, Stage,
         TimersUp

\* A step that only forces reasons on runs, and writes records of active or
\* settled runs as exiting, keeps the invariant.
LEMMA ForcingKeeps ==
  ASSUME IInv, UNCHANGED <<active, stage, overlapped>>,
         DOMAIN timers' = Runs,
         \A r \in Runs : timers'[r] \subseteq timers[r],
         forced' \in [Runs -> Reasons \cup {None}],
         \A r \in Runs : forced'[r] = None => forced[r] = None,
         DOMAIN records' = Runs,
         \A r \in Runs : \/ records'[r] = records[r]
                         \/ records'[r].state = "exiting" /\ stage[r] \in {"up", "settled"}
  PROVE  IInv'
<1>1. Types'
  BY DEF IInv, Types
<1>2. UpIsActive'
  BY DEF IInv, UpIsActive
<1>3. RivalsOverlapped'
  BY DEF IInv, RivalsOverlapped, GoesOn, Rivals
<1>4. TimersUp'
  BY DEF IInv, TimersUp
<1>5. QED
  BY <1>1, <1>2, <1>3, <1>4 DEF IInv

LEMMA CancelInv ==
  ASSUME IInv, NEW S \in SUBSET active, Request(S, "manual-cancel"),
         records' = Cancelled(S, records, "manual-cancel"),
         UNCHANGED <<active, stage, timers, overlapped>>
  PROVE  IInv'
<1>1. S \subseteq Runs /\ \A r \in S : stage[r] = "up"
  BY DEF IInv, UpIsActive
<1>2. "manual-cancel" \in Reasons
  BY DEF Reasons
<1>3. /\ forced' \in [Runs -> Reasons \cup {None}]
      /\ \A r \in Runs : forced'[r] = None => forced[r] = None
  BY <1>1, <1>2, RequestForces DEF IInv
<1>4. /\ DOMAIN records' = Runs
      /\ \A r \in Runs : \/ records'[r] = records[r]
                         \/ records'[r].state = "exiting" /\ stage[r] \in {"up", "settled"}
  BY <1>1 DEF Cancelled
<1>5. DOMAIN timers' = Runs /\ \A r \in Runs : timers'[r] \subseteq timers[r]
  BY DEF IInv, Types
<1>6. QED
  BY <1>3, <1>4, <1>5, ForcingKeeps

\* Forces writes at most the record of its run.
LEMMA ForcesRecord ==
  ASSUME Types, NEW r \in Runs, NEW why, Forces(r, why),
         stage[r] \in {"up", "settled"}
  PROVE  /\ DOMAIN records' = Runs
         /\ \A q \in Runs : \/ records'[q] = records[q]
                            \/ records'[q].state = "exiting"
                               /\ stage[q] \in {"up", "settled"}
  BY DEF Forces, Cancelled, Types

LEMMA CancelHandleInv ==
  ASSUME IInv, NEW r \in Runs, CancelHandle(r) PROVE IInv'
<1>1. UNCHANGED <<active, stage, timers, overlapped>>
  BY DEF CancelHandle
<1>2. /\ DOMAIN records' = Runs
      /\ \A q \in Runs : \/ records'[q] = records[q]
                         \/ records'[q].state = "exiting" /\ stage[q] \in {"up", "settled"}
  BY ForcesRecord DEF CancelHandle, IInv
<1>3. "manual-cancel" \in Reasons
  BY DEF Reasons
<1>4. /\ forced' \in [Runs -> Reasons \cup {None}]
      /\ \A q \in Runs : forced'[q] = None => forced[q] = None
  <2>1. CASE stage[r] = "up"
    BY <2>1, <1>3, RequestForces DEF CancelHandle, IInv
  <2>2. CASE stage[r] # "up"
    BY <2>2, <1>3, NoneType DEF CancelHandle, IInv, Types, First
  <2>3. QED
    BY <2>1, <2>2
<1>5. DOMAIN timers' = Runs /\ \A q \in Runs : timers'[q] \subseteq timers[q]
  BY <1>1 DEF IInv, Types
<1>6. QED
  BY <1>1, <1>2, <1>4, <1>5, ForcingKeeps

LEMMA TimerInv ==
  ASSUME IInv, NEW r \in Runs, NEW k \in Timeouts, TimerFires(r, k)
  PROVE  IInv'
<1>0. stage[r] = "up" /\ r \in Runs
  BY DEF IInv, TimersUp, TimerFires
<1>1. UNCHANGED <<active, stage, overlapped>>
  BY DEF TimerFires
<1>2. /\ DOMAIN records' = Runs
      /\ \A q \in Runs : \/ records'[q] = records[q]
                         \/ records'[q].state = "exiting" /\ stage[q] \in {"up", "settled"}
  BY <1>0, ForcesRecord DEF TimerFires, IInv
<1>3. /\ forced' \in [Runs -> Reasons \cup {None}]
      /\ \A q \in Runs : forced'[q] = None => forced[q] = None
  BY RequestForces DEF TimerFires, IInv, Reasons
<1>4. DOMAIN timers' = Runs /\ \A q \in Runs : timers'[q] \subseteq timers[q]
  BY DEF TimerFires, IInv, Types
<1>5. QED
  BY <1>1, <1>2, <1>3, <1>4, ForcingKeeps

---------------------------------------------------------------------------
(* Spawning *)

\* The record written by Spawn, given which runs it cancels.
LEMMA SpawnInv ==
  ASSUME IInv, NEW r \in Runs, Spawn(r) PROVE IInv'
<1> DEFINE S == Replaced(r)
<1>1. S \subseteq active /\ \A q \in S : q \in Runs /\ q # r /\ stage[q] = "up"
  BY DEF Replaced, InScope, IInv, UpIsActive, Spawn
<1>2. stage' = [stage EXCEPT ![r] = "spawning"] /\ UNCHANGED <<active, timers>>
  BY DEF Spawn
<1>3. /\ forced' \in [Runs -> Reasons \cup {None}]
      /\ \A q \in Runs : forced'[q] = None => forced[q] = None
      /\ \A q \in S : forced'[q] # None
  <2>1. Request(S, "manual-cancel") /\ "manual-cancel" \in Reasons
    BY DEF Spawn, Reasons
  <2>2. S \in SUBSET Runs
    BY <1>1
  <2> HIDE DEF S
  <2>3. QED
    BY <2>1, <2>2, RequestForces DEF IInv
<1>4. /\ DOMAIN records' = Runs
      /\ records'[r].state = "starting"
      /\ \A q \in S : records'[q].state = "exiting"
      /\ \A q \in Runs \ S : q # r => records'[q] = records[q]
  BY <1>1 DEF Spawn, Cancelled
<1>5. overlapped' = overlapped
        \cup (IF Pending(ScopeOf[r]) = {} THEN {} ELSE Pending(ScopeOf[r]) \cup {r})
  BY DEF Spawn
<1>6. Pending(ScopeOf[r]) \subseteq Runs
  BY DEF Pending
<1>7. Types'
  BY <1>2, <1>3, <1>4, <1>5, <1>6 DEF IInv, Types, Stage
<1>8. stage[r] # "up"
  BY DEF Spawn
<1>9. UpIsActive'
  <2>1. active' = {q \in Runs : stage'[q] = "up"}
    BY <1>2, <1>8 DEF IInv, Types, UpIsActive
  <2>2. \A q \in active' : records'[q].state \in {"running", "exiting"}
    <3> HIDE DEF S
    <3>1. QED
      BY <1>1, <1>2, <1>4, <1>8 DEF IInv, UpIsActive
  <2>3. \A q \in Runs : stage'[q] = "spawning" => records'[q].state = "starting"
    <3> HIDE DEF S
    <3>1. QED
      BY <1>1, <1>2, <1>4 DEF IInv, Types, UpIsActive
  <2>4. QED
    BY <2>1, <2>2, <2>3 DEF UpIsActive
<1>10. TimersUp'
  BY <1>2, <1>8 DEF IInv, Types, TimersUp
<1>11. ASSUME NEW p \in Runs, NEW q \in Runs, Rivals(p, q), GoesOn(p)', GoesOn(q)'
       PROVE  {p, q} \subseteq overlapped'
  <2>1. CASE p # r /\ q # r
    <3>1. GoesOn(p) /\ GoesOn(q)
      BY <1>2, <1>3, <1>11, <2>1 DEF GoesOn, IInv, Types
    <3>2. QED
      BY <3>1, <1>5, <1>11 DEF IInv, RivalsOverlapped
  <2>2. ASSUME NEW t \in Runs, Rivals(r, t), GoesOn(t)' PROVE {r, t} \subseteq overlapped'
    <3>1. stage[t] = "up" => t \in S
      BY <2>2 DEF Rivals, Replaced, InScope, IInv, UpIsActive
    <3>2. stage[t] = "spawning"
      BY <3>1, <1>2, <1>3, <2>2 DEF Rivals, GoesOn, IInv, Types
    <3>3. t \in Pending(ScopeOf[r])
      BY <3>2, <2>2 DEF Pending, Rivals
    <3>4. QED
      BY <3>3, <1>5
  <2>3. CASE p = r
    BY <1>11, <2>2, <2>3
  <2>4. CASE q = r
    BY <1>11, <2>2, <2>4 DEF Rivals
  <2>5. QED
    BY <2>1, <2>3, <2>4
<1>12. RivalsOverlapped'
  BY <1>11 DEF RivalsOverlapped, Rivals
<1>13. QED
  BY <1>7, <1>9, <1>10, <1>12 DEF IInv

LEMMA SpawnFailsInv ==
  ASSUME IInv, NEW r \in Runs, SpawnFails(r) PROVE IInv'
<1>1. /\ stage[r] = "spawning" /\ stage' = [stage EXCEPT ![r] = "failed"]
      /\ UNCHANGED <<active, forced, timers, overlapped>>
  BY DEF SpawnFails
<1>2. /\ DOMAIN records' = Runs
      /\ \A q \in Runs \ {r} :
           records[q].state # "exited" => records'[q] = records[q]
  BY FinalizeKeeps DEF SpawnFails, IInv
<1>3. Types'
  BY <1>1, <1>2 DEF IInv, Types, Stage
<1>4. UpIsActive'
  BY <1>1, <1>2 DEF IInv, Types, UpIsActive
<1>5. TimersUp'
  BY <1>1 DEF IInv, Types, TimersUp
<1>6. RivalsOverlapped'
  BY <1>1 DEF IInv, Types, RivalsOverlapped, GoesOn, Rivals
<1>7. QED
  BY <1>3, <1>4, <1>5, <1>6 DEF IInv

LEMMA SpawnSucceedsInv ==
  ASSUME IInv, NEW r \in Runs, SpawnSucceeds(r) PROVE IInv'
<1>1. /\ stage[r] = "spawning" /\ stage' = [stage EXCEPT ![r] = "up"]
      /\ records' = [records EXCEPT ![r] = [state |-> "running", reason |-> @.reason]]
      /\ timers' = [timers EXCEPT ![r] = Limits[r]]
      /\ active' = active \cup {r}
      /\ UNCHANGED <<forced, overlapped>>
  BY DEF SpawnSucceeds
<1>2. Types'
  BY <1>1 DEF IInv, Types, Stage
<1>3. records'[r].state = "running" /\ \A q \in Runs \ {r} : records'[q] = records[q]
  BY <1>1 DEF IInv, Types
<1>4. UpIsActive'
  BY <1>1, <1>3 DEF IInv, Types, UpIsActive
<1>5. TimersUp'
  BY <1>1 DEF IInv, Types, TimersUp
<1>6. RivalsOverlapped'
  BY <1>1 DEF IInv, Types, RivalsOverlapped, GoesOn, Rivals
<1>7. QED
  BY <1>2, <1>4, <1>5, <1>6 DEF IInv
---------------------------------------------------------------------------
(* Settling *)

LEMMA SettleInv ==
  ASSUME IInv, NEW r \in Runs, NEW natural, Settle(r, natural) PROVE IInv'
<1>1. /\ stage[r] = "up" /\ stage' = [stage EXCEPT ![r] = "settled"]
      /\ timers' = [timers EXCEPT ![r] = {}]
      /\ active' = active \ {r}
      /\ UNCHANGED <<forced, overlapped>>
  BY DEF Settle
<1>2. /\ DOMAIN records' = Runs
      /\ \A q \in Runs \ {r} :
           records[q].state # "exited" => records'[q] = records[q]
  BY FinalizeKeeps DEF Settle, IInv
<1>3. Types'
  BY <1>1, <1>2 DEF IInv, Types, Stage
<1>4. UpIsActive'
  BY <1>1, <1>2 DEF IInv, Types, UpIsActive
<1>5. TimersUp'
  BY <1>1 DEF IInv, Types, TimersUp
<1>6. RivalsOverlapped'
  BY <1>1 DEF IInv, Types, RivalsOverlapped, GoesOn, Rivals
<1>7. QED
  BY <1>3, <1>4, <1>5, <1>6 DEF IInv

LEMMA StepInv == IInv /\ [Next]_vars => IInv'
<1> SUFFICES ASSUME IInv, [Next]_vars PROVE IInv'
  OBVIOUS
<1>1. ASSUME NEW r \in Runs, Cancel(r) PROVE IInv'
  BY <1>1, CancelInv DEF Cancel
<1>2. ASSUME NEW r \in Runs, CancelHandle(r) PROVE IInv'
  BY <1>2, CancelHandleInv
<1>3. ASSUME NEW r \in Runs, Spawn(r) PROVE IInv'
  BY <1>3, SpawnInv
<1>4. ASSUME NEW r \in Runs, SpawnFails(r) PROVE IInv'
  BY <1>4, SpawnFailsInv
<1>5. ASSUME NEW r \in Runs, SpawnSucceeds(r) PROVE IInv'
  BY <1>5, SpawnSucceedsInv
<1>6. ASSUME NEW r \in Runs, Output(r) PROVE IInv'
  <2>1. /\ stage[r] = "up" /\ DOMAIN timers' = Runs
        /\ \A q \in Runs \ {r} : timers'[q] = timers[q]
    BY <1>6 DEF Output, IInv, Types
  <2>2. UNCHANGED <<records, active, stage, forced, overlapped>>
    BY <1>6 DEF Output
  <2>3. QED
    BY <2>1, <2>2 DEF IInv, Types, UpIsActive, RivalsOverlapped, TimersUp, GoesOn, Rivals
<1>7. ASSUME NEW r \in Runs, Dies(r) PROVE IInv'
  BY <1>7 DEF Dies, IInv, Types, UpIsActive, RivalsOverlapped, TimersUp, GoesOn, Rivals
<1>8. ASSUME NEW r \in Runs, Closes(r) \/ FallbackFires(r) PROVE IInv'
  BY <1>8, SettleInv DEF Closes, FallbackFires
<1>9. ASSUME NEW r \in Runs, NEW k \in Timeouts, TimerFires(r, k) PROVE IInv'
  BY <1>9, TimerInv
<1>10. ASSUME NEW s \in Scopes, CancelScope(s) PROVE IInv'
  <2>1. InScope(s) \in SUBSET active
    BY DEF InScope
  <2>2. QED
    BY <1>10, <2>1, CancelInv DEF CancelScope
<1>11. ASSUME UNCHANGED vars PROVE IInv'
  BY <1>11 DEF vars, IInv, Types, UpIsActive, RivalsOverlapped, TimersUp, GoesOn, Rivals
<1>12. QED
  BY <1>1, <1>2, <1>3, <1>4, <1>5, <1>6, <1>7, <1>8, <1>9, <1>10, <1>11 DEF Next

\* For any runs and scopes, the map of active runs holds exactly those that are
\* up, and retention never drops their records.
THEOREM ActiveIsCancellable == Spec => []UpIsActive
<1>1. IInv => UpIsActive
  BY DEF IInv
<1>2. QED
  BY InitInv, StepInv, <1>1, PTL DEF Spec

\* For any runs and scopes, two runs that replace one another are both left to
\* go on only if their spawns overlapped.
THEOREM ReplacementHolds == Spec => []ReplacesUnlessOverlapped
<1>1. IInv => ReplacesUnlessOverlapped
  BY RunTypes DEF IInv, RivalsOverlapped, ReplacesUnlessOverlapped, Rivals, GoesOn
<1>2. QED
  BY InitInv, StepInv, <1>1, PTL DEF Spec

---------------------------------------------------------------------------
(* The records of ended runs *)

\* A run that was never spawned has no record.
NoRecordYet == \A r \in Runs : stage[r] = "none" => records[r] = Absent

\* Pruning drops records of exited runs and keeps the others.
LEMMA PruneDrops ==
  ASSUME NEW recs, Prune(recs)
  PROVE  \A r \in Runs : records'[r] = recs[r] \/ records'[r] = Absent
  BY DEF Prune

LEMMA FinalizeDrops ==
  ASSUME Types, NEW r \in Runs, NEW why, Finalize(r, why)
  PROVE  \A q \in Runs \ {r} : records'[q] = records[q] \/ records'[q] = Absent
<1>1. CASE records[r] = Absent
  BY <1>1 DEF Finalize
<1>2. CASE records[r] # Absent
  <2> DEFINE recs == [records EXCEPT ![r] =
               [state |-> "exited", reason |-> First(@.reason, why)]]
  <2>1. Prune(recs)
    BY <1>2 DEF Finalize
  <2>2. \A q \in Runs \ {r} : recs[q] = records[q]
    BY DEF Types
  <2> HIDE DEF recs
  <2> QED
    BY <2>1, <2>2, PruneDrops
<1> QED
  BY <1>1, <1>2

\* What a step does to the record of a run: it leaves it, drops it, changes that
\* of a run which is pending or up, starts a run, or cancels a settled one.
Changed(r) ==
  \/ records'[r] = records[r] /\ (stage'[r] = "none" => stage[r] = "none")
  \/ records'[r] = Absent
  \/ stage[r] \in {"spawning", "up"} /\ stage'[r] # "none"
  \/ /\ stage[r] \in {"none", "failed"} /\ stage'[r] = "spawning"
     /\ records'[r].state = "starting"
  \/ stage[r] = "settled" /\ stage'[r] = "settled" /\ r \in late'

LEMMA StepChanges ==
  ASSUME IInv, [Next]_vars, NEW q \in Runs PROVE Changed(q)
<1> USE DEF Changed
<1>1. ASSUME NEW S \in SUBSET active, records' = Cancelled(S, records, "manual-cancel"),
             UNCHANGED stage
      PROVE  Changed(q)
  BY <1>1 DEF IInv, UpIsActive, Cancelled
<1>2. ASSUME NEW r \in Runs, Cancel(r) PROVE Changed(q)
  BY <1>1, <1>2 DEF Cancel
<1>3. ASSUME NEW s \in Scopes, CancelScope(s) PROVE Changed(q)
  BY <1>1, <1>3 DEF CancelScope, InScope
<1>4. ASSUME NEW r \in Runs, CancelHandle(r) PROVE Changed(q)
  BY <1>4 DEF CancelHandle, Forces, Cancelled
<1>5. ASSUME NEW r \in Runs, NEW k \in Timeouts, TimerFires(r, k) PROVE Changed(q)
  BY <1>5 DEF TimerFires, Forces, Cancelled, IInv, TimersUp
<1>6. ASSUME NEW r \in Runs, Spawn(r) PROVE Changed(q)
  <2>1. Replaced(r) \subseteq active /\ \A t \in active : stage[t] = "up"
    BY DEF Replaced, InScope, IInv, UpIsActive
  <2>2. /\ stage[r] \in {"none", "failed"} /\ stage' = [stage EXCEPT ![r] = "spawning"]
        /\ records' = [Cancelled(Replaced(r), records, "manual-cancel") EXCEPT ![r] =
                         [state |-> "starting", reason |-> None]]
    BY <1>6 DEF Spawn
  <2> QED
    BY <2>1, <2>2 DEF Cancelled, IInv, Types
<1>7. ASSUME NEW r \in Runs, NEW why, Finalize(r, why), stage[r] \in {"spawning", "up"},
             NEW end \in {"failed", "settled"}, stage' = [stage EXCEPT ![r] = end]
      PROVE  Changed(q)
  BY <1>7, FinalizeDrops DEF IInv, Types
<1>8. ASSUME NEW r \in Runs, SpawnFails(r) PROVE Changed(q)
  BY <1>7, <1>8 DEF SpawnFails
<1>9. ASSUME NEW r \in Runs, Closes(r) \/ FallbackFires(r) PROVE Changed(q)
  BY <1>7, <1>9 DEF Closes, FallbackFires, Settle
<1>10. ASSUME NEW r \in Runs, SpawnSucceeds(r) PROVE Changed(q)
  BY <1>10 DEF SpawnSucceeds, IInv, Types
<1>11. CASE UNCHANGED <<records, stage>>
  BY <1>11
<1> QED
  BY <1>2, <1>3, <1>4, <1>5, <1>6, <1>8, <1>9, <1>10, <1>11
     DEF Next, Output, Dies, vars

\* The record of an ended run stays until it is pruned or its failed spawn is
\* tried again, whatever timers, exits and cancels of the supervisor come later.
\* A late cancel through the handle of the run is the exception: it does write
\* the record again (setForcedReason; the history late).
THEOREM EndedIsKept == Spec => ExitedStays
<1> DEFINE A == \A r \in Runs \ late' :
                  records[r].state = "exited" /\ records'[r] # records[r] =>
                    \/ records'[r] = Absent
                    \/ stage[r] = "failed" /\ records'[r].state = "starting"
<1>1. ASSUME IInv, NoRecordYet, [Next]_vars PROVE [A]_vars
  <2> SUFFICES ASSUME NEW r \in Runs, r \notin late', records[r].state = "exited",
                      records'[r] # records[r], records'[r] # Absent
               PROVE  stage[r] = "failed" /\ records'[r].state = "starting"
    OBVIOUS
  <2>1. stage[r] \notin {"spawning", "up", "none"}
    BY <1>1 DEF IInv, UpIsActive, NoRecordYet, Absent
  <2> QED
    BY <1>1, <2>1, StepChanges DEF Changed
<1>2. Init => NoRecordYet
  BY DEF Init, NoRecordYet
<1>3. IInv /\ NoRecordYet /\ [Next]_vars => NoRecordYet'
  BY StepChanges DEF NoRecordYet, Changed
<1> QED
  BY InitInv, StepInv, <1>1, <1>2, <1>3, PTL DEF Spec, ExitedStays

\* What can be cancelled, and what is replaced, is what really runs.
THEOREM ActiveIsSound == Spec => []ActiveSound
<1>1. UpIsActive /\ ReplacesUnlessOverlapped => ActiveSound
  BY DEF ActiveSound
<1> QED  BY ActiveIsCancellable, ReplacementHolds, <1>1, PTL

---------------------------------------------------------------------------
(* The supervisor keeps its promise: the part without fairness *)

\* What a step may do to one run, as the promise has it.
Promised(r) ==
  \/ Promise!Rests(r) \/ Promise!Starts(r) \/ Promise!Fails(r)
  \/ Promise!ComesUp(r) \/ Promise!IsAsked(r) \/ Promise!Ends(r)

ExitOfRuns == DOMAIN exit = Runs

\* Nothing that the promise knows of a run has changed.
LEMMA RestsWell ==
  ASSUME NEW q \in Runs, stage'[q] = stage[q], exit'[q] = exit[q],
         stage[q] # "settled" => forced'[q] = forced[q]
  PROVE  Promised(q)
BY DEF Promised, Promise!Rests, Promise!Keeps, RunPhase, Verdict

\* Requests keep the first reason, and change that of their runs only.
LEMMA RequestAsks ==
  ASSUME NEW S \in SUBSET Runs, NEW why \in Reasons, Request(S, why), NEW q \in Runs,
         Types
  PROVE  \/ forced'[q] = forced[q]
         \/ q \in S /\ forced[q] = None /\ forced'[q] \in Reasons
BY NoneType DEF Request, First, Types

\* So a step that only requests keeps the promise of every run.
LEMMA RequestsWell ==
  ASSUME Types, NEW S \in SUBSET Runs, NEW why \in Reasons, Request(S, why),
         \A r \in S : stage[r] = "up", NEW q \in Runs, stage'[q] = stage[q],
         exit'[q] = exit[q]
  PROVE  Promised(q)
<1>1. CASE forced'[q] = forced[q]
  BY <1>1, RestsWell
<1>2. CASE forced'[q] # forced[q]
  <2>1. stage[q] = "up" /\ forced[q] = None /\ forced'[q] \in Reasons
    BY <1>2, RequestAsks
  <2> QED
    BY <2>1 DEF Promised, Promise!IsAsked, Promise!Moves, RunPhase, Verdict
<1> QED
  BY <1>1, <1>2

\* A run ends with the reason that was forced first, or with its own.
LEMMA SettlesWell ==
  ASSUME Types, ExitOfRuns, NEW r \in Runs, NEW natural \in {"exit", "signal"},
         Settle(r, natural), NEW q \in Runs
  PROVE  Promised(q)
<1>1. /\ stage[r] = "up" /\ stage' = [stage EXCEPT ![r] = "settled"]
      /\ exit' = [exit EXCEPT ![r] = First(forced[r], natural)]
      /\ forced' = forced
  BY DEF Settle
<1>2. CASE q = r
  <2>1. /\ stage'[q] = "settled" /\ stage[q] = "up"
        /\ exit'[q] = IF forced[q] = None THEN natural ELSE forced[q]
    BY <1>1, <1>2 DEF Types, ExitOfRuns, First
  <2>2. /\ RunPhase[q] = "running" /\ RunPhase'[q] = "ended"
        /\ Verdict[q] = forced[q] /\ Verdict'[q] = exit'[q]
    BY <2>1 DEF RunPhase, Verdict
  <2>3. Verdict'[q] \in IF Verdict[q] = None THEN {"exit", "signal"} ELSE {Verdict[q]}
    BY <2>1, <2>2
  <2> QED
    BY <2>2, <2>3 DEF Promised, Promise!Ends, Promise!Moves
<1>3. CASE q # r
  BY <1>1, <1>3, RestsWell
<1> QED
  BY <1>2, <1>3

\* Every step does to each run what ManagedRuns allows.
LEMMA StepOfPromise ==
  ASSUME IInv, ExitOfRuns, [Next]_vars, NEW q \in Runs
  PROVE  Promised(q)
<1>0. /\ Types /\ active = {r \in Runs : stage[r] = "up"}
      /\ "manual-cancel" \in Reasons /\ Timeouts \subseteq Reasons
  BY DEF IInv, UpIsActive, Reasons
<1>1. ASSUME NEW r \in Runs, Cancel(r) PROVE Promised(q)
  BY <1>0, <1>1, RequestsWell DEF Cancel
<1>2. ASSUME NEW s \in Scopes, CancelScope(s) PROVE Promised(q)
  <2>1. InScope(s) \in SUBSET Runs /\ \A r \in InScope(s) : stage[r] = "up"
    BY <1>0 DEF InScope
  <2> QED
    BY <1>0, <1>2, <2>1, RequestsWell DEF CancelScope
<1>3. ASSUME NEW r \in Runs, CancelHandle(r) PROVE Promised(q)
  <2>1. CASE stage[r] = "up"
    BY <1>0, <1>3, <2>1, RequestsWell DEF CancelHandle
  <2>2. CASE stage[r] # "up"
    <3>1. /\ stage[r] = "settled" /\ UNCHANGED <<stage, exit>>
          /\ forced' = [forced EXCEPT ![r] = First(@, "manual-cancel")]
      BY <1>3, <2>2 DEF CancelHandle
    <3> QED
      BY <3>1, RestsWell
  <2> QED
    BY <2>1, <2>2
<1>4. ASSUME NEW r \in Runs, NEW k \in Timeouts, TimerFires(r, k) PROVE Promised(q)
  <2>1. stage[r] = "up"
    BY <1>4 DEF IInv, TimersUp, TimerFires
  <2> QED
    BY <1>0, <1>4, <2>1, RequestsWell DEF TimerFires
<1>5. ASSUME NEW r \in Runs, Spawn(r) PROVE Promised(q)
  <2> DEFINE S == Replaced(r)
  <2>1. /\ S \in SUBSET Runs /\ r \notin S /\ \A t \in S : stage[t] = "up"
    BY <1>0, <1>5 DEF Replaced, InScope, Spawn
  <2>2. /\ stage[r] \in {"none", "failed"} /\ stage' = [stage EXCEPT ![r] = "spawning"]
        /\ Request(S, "manual-cancel") /\ exit' = exit
    BY <1>5 DEF Spawn
  <2> HIDE DEF S
  <2>3. CASE q = r
    <3>1. forced'[q] = forced[q]
      BY <1>0, <2>1, <2>2, <2>3, RequestAsks
    <3>2. stage'[q] = "spawning"
      BY <1>0, <2>2, <2>3 DEF Types
    <3> QED
      BY <2>2, <2>3, <3>1, <3>2
      DEF Promised, Promise!Starts, Promise!Moves, Promise!Keeps, RunPhase, Verdict
  <2>4. CASE q # r
    BY <1>0, <2>1, <2>2, <2>4, RequestsWell
  <2> QED
    BY <2>3, <2>4
<1>6. ASSUME NEW r \in Runs, SpawnFails(r) PROVE Promised(q)
  <2>1. /\ stage[r] = "spawning" /\ stage' = [stage EXCEPT ![r] = "failed"]
        /\ UNCHANGED <<forced, exit>>
    BY <1>6 DEF SpawnFails
  <2>2. CASE q = r
    BY <1>0, <2>1, <2>2
    DEF Promised, Promise!Fails, Promise!Moves, Promise!Keeps, RunPhase, Verdict, Types
  <2> QED
    BY <2>1, <2>2, RestsWell
<1>7. ASSUME NEW r \in Runs, SpawnSucceeds(r) PROVE Promised(q)
  <2>1. /\ stage[r] = "spawning" /\ stage' = [stage EXCEPT ![r] = "up"]
        /\ UNCHANGED <<forced, exit>>
    BY <1>7 DEF SpawnSucceeds
  <2>2. CASE q = r
    BY <1>0, <2>1, <2>2
    DEF Promised, Promise!ComesUp, Promise!Moves, Promise!Keeps, RunPhase, Verdict, Types
  <2> QED
    BY <2>1, <2>2, RestsWell
<1>8. ASSUME NEW r \in Runs, Closes(r) \/ FallbackFires(r) PROVE Promised(q)
  BY <1>0, <1>8, SettlesWell DEF Closes, FallbackFires
<1>9. ASSUME \/ \E r \in Runs : Output(r) \/ Dies(r)
             \/ UNCHANGED vars
      PROVE  Promised(q)
  BY <1>9, RestsWell DEF Output, Dies, vars
<1> QED
  BY <1>1, <1>2, <1>3, <1>4, <1>5, <1>6, <1>7, <1>8, <1>9 DEF Next

\* No step adds a run to the exit reasons or removes one.
LEMMA ExitStep == ExitOfRuns /\ [Next]_vars => ExitOfRuns'
<1> SUFFICES ASSUME ExitOfRuns, [Next]_vars PROVE ExitOfRuns'
  OBVIOUS
<1>1. ASSUME NEW r \in Runs, Closes(r) \/ FallbackFires(r) PROVE ExitOfRuns'
  BY <1>1 DEF Closes, FallbackFires, Settle, ExitOfRuns
<1>2. ASSUME NEW r \in Runs, Cancel(r) \/ CancelHandle(r) \/ Spawn(r) \/ SpawnFails(r)
      PROVE  ExitOfRuns'
  BY <1>2 DEF Cancel, CancelHandle, Spawn, SpawnFails, ExitOfRuns
<1>3. ASSUME NEW r \in Runs,
             \/ SpawnSucceeds(r) \/ Output(r) \/ Dies(r)
             \/ \E k \in Timeouts : TimerFires(r, k)
      PROVE  ExitOfRuns'
  BY <1>3 DEF SpawnSucceeds, Output, Dies, TimerFires, ExitOfRuns
<1>4. ASSUME UNCHANGED vars \/ \E s \in Scopes : CancelScope(s) PROVE ExitOfRuns'
  BY <1>4 DEF CancelScope, vars, ExitOfRuns
<1> QED
  BY <1>1, <1>2, <1>3, <1>4 DEF Next

\* The supervisor does to each run what it promises: the first request decides
\* how a run ends, an ended run never changes, whatever is asked of several runs
\* at once.
THEOREM RunsAreManaged == Spec => Promise!Init /\ [][Promise!Next]_(Promise!vars)
<1>1. Init => Promise!Init /\ ExitOfRuns
  BY DEF Init, Promise!Init, RunPhase, Verdict, ExitOfRuns
<1>2. IInv /\ ExitOfRuns /\ [Next]_vars => [Promise!Next]_(Promise!vars)
  <2> SUFFICES ASSUME IInv, ExitOfRuns, [Next]_vars PROVE Promise!Next
    OBVIOUS
  <2> QED
    BY StepOfPromise DEF Promise!Next, Promised
<1> QED
  BY InitInv, StepInv, ExitStep, <1>1, <1>2, PTL DEF Spec
---------------------------------------------------------------------------
(* Retention: the order of the records, and how many of ended runs are kept. *)

\* The records are ordered, as the entries of a map are.
Ordered(ord, S) ==
  /\ \A p \in ord : p = <<p[1], p[2]>> /\ p[1] \in S /\ p[2] \in S
  /\ \A r \in S : <<r, r>> \notin ord
  /\ \A q, r \in S : q # r => <<q, r>> \in ord \/ <<r, q>> \in ord
  /\ \A p, q, r \in S : <<p, q>> \in ord /\ <<q, r>> \in ord => <<p, r>> \in ord

LEMMA OrderedAdd ==
  ASSUME NEW ord, NEW S, Ordered(ord, S), NEW r, r \notin S
  PROVE  Ordered(ord \cup (S \X {r}), S \cup {r})
<1> DEFINE new == ord \cup (S \X {r})
<1>1. \A p, q : <<p, q>> \in ord => p \in S /\ q \in S
  BY DEF Ordered
<1>2. \A p, q : <<p, q>> \in new <=> <<p, q>> \in ord \/ (p \in S /\ q = r)
  OBVIOUS
<1>3. \A p \in new : p = <<p[1], p[2]>> /\ p[1] \in S \cup {r} /\ p[2] \in S \cup {r}
  BY DEF Ordered
<1>4. \A q, t \in S \cup {r} : q # t => <<q, t>> \in new \/ <<t, q>> \in new
  BY <1>2 DEF Ordered
<1>5. \A q \in S \cup {r} : <<q, q>> \notin new
  BY <1>1, <1>2 DEF Ordered
<1>6. \A p, q, t \in S \cup {r} :
        <<p, q>> \in new /\ <<q, t>> \in new => <<p, t>> \in new
  <2> HIDE DEF new
  <2> SUFFICES ASSUME NEW p \in S \cup {r}, NEW q \in S \cup {r}, NEW t \in S \cup {r},
                      <<p, q>> \in new, <<q, t>> \in new
               PROVE  <<p, t>> \in new
    OBVIOUS
  <2>1. q # r /\ p \in S /\ q \in S /\ <<p, q>> \in ord
    BY <1>1, <1>2
  <2>2. CASE t = r
    BY <1>2, <2>1, <2>2
  <2>3. CASE t # r
    BY <1>1, <1>2, <2>1, <2>3 DEF Ordered
  <2> QED
    BY <2>2, <2>3
<1> HIDE DEF new
<1>7. Ordered(new, S \cup {r})
  BY <1>3, <1>4, <1>5, <1>6 DEF Ordered
<1> QED
  BY <1>7 DEF new

LEMMA OrderedDrop ==
  ASSUME NEW ord, NEW S, Ordered(ord, S), NEW D
  PROVE  Ordered({p \in ord : {p[1], p[2]} \cap D = {}}, S \ D)
<1> DEFINE new == {p \in ord : {p[1], p[2]} \cap D = {}}
<1>1. \A p, q : <<p, q>> \in new <=> <<p, q>> \in ord /\ p \notin D /\ q \notin D
  OBVIOUS
<1>2. \A p \in new : p = <<p[1], p[2]>> /\ p[1] \in S \ D /\ p[2] \in S \ D
  BY DEF Ordered
<1> HIDE DEF new
<1>3. Ordered(new, S \ D)
  BY <1>1, <1>2 DEF Ordered
<1> QED
  BY <1>3 DEF new

\* The place of a run among those of E, in the order of the records.
Rank(ord, E, r) == Cardinality({q \in E : q = r \/ <<q, r>> \in ord})

LEMMA RankIs ==
  ASSUME NEW ord, NEW S, Ordered(ord, S), NEW E \in SUBSET S, IsFiniteSet(E)
  PROVE  /\ Cardinality(E) \in Nat
         /\ \A r \in E : Rank(ord, E, r) \in 1 .. Cardinality(E)
         /\ \A q, r \in E : Rank(ord, E, q) = Rank(ord, E, r) => q = r
<1> DEFINE upTo(r) == {q \in E : q = r \/ <<q, r>> \in ord}
<1>1. Cardinality(E) \in Nat
  BY FS_CardinalityType
<1>2. ASSUME NEW r \in E
      PROVE  /\ IsFiniteSet(upTo(r)) /\ Cardinality(upTo(r)) \in Nat
             /\ Cardinality(upTo(r)) <= Cardinality(E) /\ Cardinality(upTo(r)) # 0
  <2>1. upTo(r) \in SUBSET E /\ r \in upTo(r)
    OBVIOUS
  <2> HIDE DEF upTo
  <2>2. IsFiniteSet(upTo(r)) /\ Cardinality(upTo(r)) <= Cardinality(E)
    BY <2>1, FS_Subset
  <2> QED
    BY <2>1, <2>2, FS_CardinalityType, FS_EmptySet
<1>3. ASSUME NEW q \in E, NEW r \in E, <<q, r>> \in ord
      PROVE  Cardinality(upTo(q)) # Cardinality(upTo(r))
  <2>1. q # r /\ <<r, q>> \notin ord
    BY <1>3 DEF Ordered
  <2>2. upTo(q) \in SUBSET upTo(r) /\ r \in upTo(r) /\ r \notin upTo(q)
    BY <1>3, <2>1 DEF Ordered
  <2>3. IsFiniteSet(upTo(r))
    BY <1>2
  <2> HIDE DEF upTo
  <2> QED
    BY <2>2, <2>3, FS_Subset
<1>4. \A r \in E : Rank(ord, E, r) = Cardinality(upTo(r))
  BY DEF Rank
<1> HIDE DEF upTo
<1>5. \A r \in E : Rank(ord, E, r) \in 1 .. Cardinality(E)
  BY <1>1, <1>2, <1>4
<1>6. \A q, r \in E : Rank(ord, E, q) = Rank(ord, E, r) => q = r
  BY <1>3, <1>4 DEF Ordered
<1> QED
  BY <1>1, <1>5, <1>6

\* Of n things with different ranks, those above n - m are at most m.
LEMMA FewAbove ==
  ASSUME NEW ord, NEW S, Ordered(ord, S), NEW E \in SUBSET S, IsFiniteSet(E), NEW m \in Nat
  PROVE  Cardinality({r \in E : ~(Rank(ord, E, r) + m <= Cardinality(E))}) <= m
<1> DEFINE n == Cardinality(E)
           K == {r \in E : ~(Rank(ord, E, r) + m <= n)}
           f == [r \in K |-> Rank(ord, E, r)]
           T == n - m + 1 .. n
<1>1. /\ n \in Nat
      /\ \A r \in E : Rank(ord, E, r) \in 1 .. n
      /\ \A q, r \in E : Rank(ord, E, q) = Rank(ord, E, r) => q = r
  BY RankIs
<1> HIDE DEF n
<1>2. \A r \in K : f[r] \in T
  <2> SUFFICES ASSUME NEW r \in K PROVE f[r] \in T
    OBVIOUS
  <2>1. r \in E /\ ~(Rank(ord, E, r) + m <= n) /\ f[r] = Rank(ord, E, r)
    OBVIOUS
  <2>2. Rank(ord, E, r) \in 1 .. n
    BY <1>1, <2>1
  <2> HIDE DEF f, K
  <2>3. Rank(ord, E, r) \in Int /\ Rank(ord, E, r) <= n /\ n - m + 1 <= Rank(ord, E, r)
    BY <1>1, <2>1, <2>2
  <2> QED
    BY <1>1, <2>1, <2>3
<1>3. f \in [K -> T]
  BY <1>2
<1>4. \A q, r \in K : f[q] = f[r] => q = r
  BY <1>1
<1>5. f \in Injection(K, T)
  BY <1>3, <1>4 DEF Injection, IsInjective
<1>6. IsFiniteSet(T) /\ Cardinality(T) = m
  <2>1. n - m + 1 \in Int /\ n \in Int
    BY <1>1
  <2>2. IsFiniteSet(T) /\ Cardinality(T) = IF n - m + 1 > n THEN 0 ELSE n - (n - m + 1) + 1
    BY <2>1, FS_Interval
  <2> QED
    BY <1>1, <2>2
<1> HIDE DEF f, T, K
<1>7. Cardinality(K) <= m
  BY <1>5, <1>6, FS_Injection
<1> QED
  BY <1>7 DEF K, n

---------------------------------------------------------------------------
(* Types, and the records that are kept *)

\* What is in the order are the records; and of ended runs few are kept, besides
\* those whose handle was cancelled late.
Kept ==
  /\ Ordered(order, Present)
  /\ Cardinality(Exited(records)) <= MaxExited
  /\ \A r \in Runs \ late :
       stage[r] \in {"settled", "failed"} /\ r \in Present => records[r].state = "exited"

LEMMA FewExited == IsFiniteSet(Exited(records)) /\ Exited(records) \subseteq Runs
<1>1. Exited(records) \subseteq Runs
  BY DEF Exited
<1> QED
  BY <1>1, RunTypes, FS_Subset

LEMMA KeptEnough == TypeOK /\ Kept => RecordsBounded
<1> SUFFICES ASSUME TypeOK, Kept PROVE RetentionBound
  BY DEF RecordsBounded
<1> DEFINE ended == {r \in Runs \ late : /\ stage[r] \in {"settled", "failed"}
                                         /\ records[r] # Absent}
<1>1. ended \subseteq Exited(records)
  BY DEF Kept, Exited, Present
<1>2. IsFiniteSet(Exited(records)) /\ Cardinality(Exited(records)) \in Nat
  BY FewExited, FS_CardinalityType
<1> HIDE DEF ended
<1>3. IsFiniteSet(ended) /\ Cardinality(ended) <= Cardinality(Exited(records))
      /\ Cardinality(ended) \in Nat
  BY <1>1, <1>2, FS_Subset, FS_CardinalityType
<1>4. Cardinality(ended) <= MaxExited
  BY <1>2, <1>3, MaxExitedType DEF Kept
<1> QED
  BY <1>4 DEF ended, RetentionBound

LEMMA InitKept == Init => TypeOK /\ Kept
<1> SUFFICES ASSUME Init PROVE TypeOK /\ Kept
  OBVIOUS
<1>1. TypeOK
  BY DEF Init, TypeOK, Absent, Record, Stage
<1>2. Present = {} /\ Exited(records) = {}
  BY DEF Init, Present, Exited, Absent
<1>3. Ordered(order, {})
  BY DEF Init, Ordered
<1>4. \A r \in Runs : stage[r] = "none"
  BY DEF Init
<1> QED
  BY <1>1, <1>2, <1>3, <1>4, FS_EmptySet, MaxExitedType DEF Kept

\* A step that adds no record, drops none and ends no run.
LEMMA ChangingKeeps ==
  ASSUME TypeOK, Kept, UNCHANGED order, late \subseteq late',
         \A r \in Runs :
           \/ records'[r] = records[r]
           \/ r \in Present /\ records'[r].state \in {"running", "exiting"}
                /\ (stage'[r] \in {"settled", "failed"} => r \in late'),
         \A r \in Runs : stage'[r] \in {"settled", "failed"} => stage'[r] = stage[r]
  PROVE  Kept'
<1>1. Present' = Present
  BY DEF Present, Absent
<1>2. Exited(records') \subseteq Exited(records)
  BY DEF Exited
<1>3. Cardinality(Exited(records')) <= MaxExited
  <2>1. Cardinality(Exited(records)) \in Nat
    BY FewExited, FS_CardinalityType
  <2>2. Cardinality(Exited(records')) <= Cardinality(Exited(records))
        /\ Cardinality(Exited(records')) \in Nat
    BY <1>2, FewExited, FS_Subset, FS_CardinalityType
  <2> QED
    BY <2>1, <2>2, MaxExitedType DEF Kept
<1>4. \A r \in Runs \ late' :
        stage'[r] \in {"settled", "failed"} /\ r \in Present => records'[r].state = "exited"
  BY DEF Kept
<1> QED
  BY <1>1, <1>3, <1>4 DEF Kept, Exited

\* finalize: the run it ends is counted, and the oldest are dropped.
LEMMA FinalizeKept ==
  ASSUME TypeOK, Kept, NEW r \in Runs, NEW why \in Reasons, Finalize(r, why),
         UNCHANGED late,
         \A q \in Runs \ {r} : stage'[q] = stage[q]
  PROVE  Kept' /\ records' \in [Runs -> Record] /\ order' \subseteq Runs \X Runs
<1>1. CASE records[r] = Absent
  <2>1. UNCHANGED <<records, order>>
    BY <1>1 DEF Finalize
  <2>2. Present' = Present /\ Exited(records') = Exited(records) /\ r \notin Present
    BY <1>1, <2>1 DEF Present, Exited
  <2> QED
    BY <2>1, <2>2 DEF Kept, Exited, TypeOK, Record, Present
<1>2. CASE records[r] # Absent
  <2> DEFINE recs == [records EXCEPT ![r] =
               [state |-> "exited", reason |-> First(@.reason, why)]]
             E == Exited(recs)
             D == Surplus(recs)
  <2>1. Prune(recs)
    BY <1>2 DEF Finalize
  <2>2. /\ recs \in [Runs -> Record] /\ recs[r].state = "exited"
        /\ \A q \in Runs \ {r} : recs[q] = records[q]
    <3>1. records \in [Runs -> Record] /\ records[r].reason \in Reasons \cup {None}
      BY DEF TypeOK, Record
    <3>2. First(records[r].reason, why) \in Reasons \cup {None}
      BY <3>1 DEF First
    <3>3. [state |-> "exited", reason |-> First(records[r].reason, why)] \in Record
      BY <3>2 DEF Record
    <3> QED
      BY <3>1, <3>3
  <2> HIDE DEF recs
  <2>3. /\ \A q \in Runs : q \in E <=> recs[q].state = "exited"
        /\ E \subseteq Present /\ E \subseteq Runs /\ IsFiniteSet(E) /\ D \subseteq E
    <3>1. E \subseteq Runs /\ \A q \in Runs : q \in E <=> recs[q].state = "exited"
      BY DEF Exited
    <3>2. E \subseteq Present
      BY <1>2, <2>2, <3>1 DEF Present, Absent
    <3> QED
      BY <3>1, <3>2, RunTypes, FS_Subset DEF Surplus
  <2>4. D = {q \in E : Rank(order, E, q) + MaxExited <= Cardinality(E)}
    BY DEF Surplus, Rank
  <2>5. Cardinality(E \ D) <= MaxExited
    <3>1. E \ D = {q \in E : ~(Rank(order, E, q) + MaxExited <= Cardinality(E))}
      BY <2>4
    <3> HIDE DEF E, D
    <3> QED
      BY <2>3, <3>1, FewAbove, MaxExitedType DEF Kept
  <2>6. /\ records' = [q \in Runs |-> IF q \in D THEN Absent ELSE recs[q]]
        /\ order' = {p \in order : {p[1], p[2]} \cap D = {}}
    BY <2>1 DEF Prune
  <2> HIDE DEF E, D
  <2>7. Present' = Present \ D
    BY <1>2, <2>2, <2>3, <2>6 DEF Present, Absent
  <2>8. Exited(records') = E \ D
    BY <2>3, <2>6 DEF Exited, Absent
  <2>9. Ordered(order', Present')
    <3>1. Ordered({p \in order : {p[1], p[2]} \cap D = {}}, Present \ D)
      BY OrderedDrop DEF Kept
    <3> QED
      BY <2>6, <2>7, <3>1
  <2>10. \A q \in Runs \ late' :
           stage'[q] \in {"settled", "failed"} /\ q \in Present' => records'[q].state = "exited"
    BY <2>2, <2>6, <2>7 DEF Kept
  <2>11. records' \in [Runs -> Record]
    BY <2>2, <2>6 DEF Record, Absent
  <2> QED
    BY <2>5, <2>6, <2>8, <2>9, <2>10, <2>11 DEF Kept, Exited, TypeOK
<1> QED
  BY <1>1, <1>2

LEMMA CancelledTypes ==
  ASSUME TypeOK, NEW S \in SUBSET Runs, NEW why \in Reasons
  PROVE  Cancelled(S, records, why) \in [Runs -> Record]
BY DEF TypeOK, Cancelled, Record

LEMMA RequestTypes ==
  ASSUME TypeOK, NEW S \in SUBSET Runs, NEW why \in Reasons, Request(S, why)
  PROVE  /\ forced' \in [Runs -> Reasons \cup {None}]
         /\ process' \in [Runs -> {"none", "live", "killed", "exited", "signalled"}]
         /\ fallback' \subseteq Pty
<1>1. forced' \in [Runs -> Reasons \cup {None}]
  BY DEF Request, First, TypeOK
<1> QED
  BY <1>1 DEF Request, TypeOK

LEMMA ForcesTypes ==
  ASSUME TypeOK, IInv, NEW r \in Runs, NEW why \in Reasons, Forces(r, why)
  PROVE  /\ records' \in [Runs -> Record]
         /\ \A q \in Runs : \/ records'[q] = records[q]
                            \/ q = r /\ r \in Present /\ records'[q].state = "exiting"
<1>1. records \in [Runs -> Record]
  BY DEF TypeOK
<1>2. CASE forced[r] # None \/ records[r] = Absent
  BY <1>1, <1>2 DEF Forces
<1>3. CASE ~(forced[r] # None \/ records[r] = Absent)
  <2>1. records' = Cancelled({r}, records, why)
    BY <1>3 DEF Forces
  <2> QED
    BY <1>3, <2>1, CancelledTypes DEF Cancelled, Present
<1> QED
  BY <1>2, <1>3

\* What is active has a record.
LEMMA ActivePresent == IInv => active \subseteq Runs /\ active \subseteq Present
BY DEF IInv, UpIsActive, Present, Absent

LEMMA CancelKept ==
  ASSUME TypeOK, Kept, IInv, NEW S \in SUBSET active, Request(S, "manual-cancel"),
         records' = Cancelled(S, records, "manual-cancel"),
         UNCHANGED <<order, active, stage, timers, exit, late, overlapped>>
  PROVE  TypeOK' /\ Kept'
<1>1. S \in SUBSET Runs /\ S \subseteq Present /\ "manual-cancel" \in Reasons
      /\ \A r \in S : stage[r] = "up"
  BY ActivePresent DEF Reasons, IInv, UpIsActive
<1>2. records' \in [Runs -> Record]
  BY <1>1, CancelledTypes
<1>3. \A r \in Runs : \/ records'[r] = records[r]
                      \/ r \in S /\ records'[r].state = "exiting"
  BY DEF Cancelled
<1>4. TypeOK'
  BY <1>1, <1>2, RequestTypes DEF TypeOK
<1>5. Kept'
  BY <1>1, <1>3, ChangingKeeps
<1> QED
  BY <1>4, <1>5

LEMMA CancelHandleKept ==
  ASSUME TypeOK, Kept, IInv, NEW r \in Runs, CancelHandle(r) PROVE TypeOK' /\ Kept'
<1>1. "manual-cancel" \in Reasons /\ {r} \in SUBSET Runs
  BY DEF Reasons
<1>2. /\ records' \in [Runs -> Record]
      /\ \A q \in Runs : \/ records'[q] = records[q]
                         \/ q = r /\ r \in Present /\ records'[q].state = "exiting"
  BY <1>1, ForcesTypes DEF CancelHandle
<1>3. UNCHANGED <<order, active, stage, timers, exit, overlapped>>
      /\ stage[r] \in {"up", "settled"}
  BY DEF CancelHandle
<1>4. /\ forced' \in [Runs -> Reasons \cup {None}]
      /\ process' \in [Runs -> {"none", "live", "killed", "exited", "signalled"}]
      /\ fallback' \subseteq Pty
      /\ late' \subseteq Runs /\ late \subseteq late'
      /\ stage[r] = "settled" => r \in late'
  <2>1. CASE stage[r] = "up"
    BY <1>1, <2>1, RequestTypes DEF CancelHandle, TypeOK
  <2>2. CASE stage[r] = "settled"
    BY <1>1, <2>2 DEF CancelHandle, TypeOK, First
  <2> QED
    BY <1>3, <2>1, <2>2
<1>5. TypeOK'
  BY <1>2, <1>3, <1>4 DEF TypeOK
<1>6. Kept'
  BY <1>2, <1>3, <1>4, ChangingKeeps
<1> QED
  BY <1>5, <1>6

LEMMA TimerKept ==
  ASSUME TypeOK, Kept, IInv, NEW r \in Runs, NEW k \in Timeouts, TimerFires(r, k)
  PROVE  TypeOK' /\ Kept'
<1>1. k \in Reasons /\ {r} \in SUBSET Runs /\ stage[r] = "up"
  BY DEF Reasons, TimerFires, IInv, TimersUp
<1>2. /\ records' \in [Runs -> Record]
      /\ \A q \in Runs : \/ records'[q] = records[q]
                         \/ q = r /\ r \in Present /\ records'[q].state = "exiting"
  BY <1>1, ForcesTypes DEF TimerFires
<1>3. UNCHANGED <<order, active, stage, exit, late, overlapped>>
      /\ timers' \in [Runs -> SUBSET Timeouts]
  BY DEF TimerFires, TypeOK
<1>4. /\ forced' \in [Runs -> Reasons \cup {None}]
      /\ process' \in [Runs -> {"none", "live", "killed", "exited", "signalled"}]
      /\ fallback' \subseteq Pty
  BY <1>1, RequestTypes DEF TimerFires
<1>5. TypeOK'
  BY <1>2, <1>3, <1>4 DEF TypeOK
<1>6. Kept'
  BY <1>1, <1>2, <1>3, ChangingKeeps
<1> QED
  BY <1>5, <1>6

LEMMA SpawnKept ==
  ASSUME TypeOK, Kept, IInv, NEW r \in Runs, Spawn(r) PROVE TypeOK' /\ Kept'
<1> DEFINE S == Replaced(r)
           recs == Cancelled(S, records, "manual-cancel")
<1>1. S \in SUBSET active /\ S \in SUBSET Runs /\ S \subseteq Present
      /\ "manual-cancel" \in Reasons
  BY ActivePresent DEF Replaced, InScope, Reasons
<1>2. /\ stage[r] \in {"none", "failed"}
      /\ records' = [recs EXCEPT ![r] = [state |-> "starting", reason |-> None]]
      /\ order' = order \cup (IF records[r] = Absent THEN Present \X {r} ELSE {})
      /\ Request(S, "manual-cancel")
      /\ stage' = [stage EXCEPT ![r] = "spawning"]
      /\ UNCHANGED <<active, timers, exit, late>>
  BY DEF Spawn
<1>3. recs \in [Runs -> Record]
  BY <1>1, CancelledTypes
<1>4. overlapped' \subseteq Runs
  BY DEF Spawn, Pending, TypeOK
<1> HIDE DEF S
<1>5. \A q \in Runs : recs[q] = records[q] \/ (q \in S /\ recs[q].state = "exiting")
  BY DEF Cancelled
<1> HIDE DEF recs
<1>6. records' \in [Runs -> Record] /\ records'[r].state = "starting"
      /\ \A q \in Runs \ {r} : records'[q] = recs[q]
  <2>1. [state |-> "starting", reason |-> None] \in Record
    BY DEF Record
  <2> QED
    BY <1>2, <1>3, <2>1
<1>7. TypeOK'
  <2>1. order' \subseteq Runs \X Runs
    BY <1>2 DEF TypeOK, Present
  <2>2. stage' \in [Runs -> Stage]
    BY <1>2 DEF TypeOK, Stage
  <2>3. /\ forced' \in [Runs -> Reasons \cup {None}]
        /\ process' \in [Runs -> {"none", "live", "killed", "exited", "signalled"}]
        /\ fallback' \subseteq Pty
    BY <1>1, <1>2, RequestTypes
  <2> QED
    BY <1>2, <1>4, <1>6, <2>1, <2>2, <2>3 DEF TypeOK
<1>8. Present' = Present \cup {r}
  BY <1>1, <1>5, <1>6 DEF Present, Absent
<1>9. Ordered(order', Present')
  <2>1. CASE records[r] = Absent
    <3>1. r \notin Present
      BY <2>1 DEF Present
    <3>2. Ordered(order \cup (Present \X {r}), Present \cup {r})
      BY <3>1, OrderedAdd DEF Kept
    <3> QED
      BY <1>2, <1>8, <2>1, <3>2
  <2>2. CASE records[r] # Absent
    <3>1. Present' = Present /\ order' = order
      BY <1>2, <1>8, <2>2 DEF Present
    <3> QED
      BY <3>1 DEF Kept
  <2> QED
    BY <2>1, <2>2
<1>10. Cardinality(Exited(records')) <= MaxExited
  <2>1. Exited(records') \subseteq Exited(records)
    BY <1>5, <1>6 DEF Exited
  <2>2. Cardinality(Exited(records)) \in Nat
    BY FewExited, FS_CardinalityType
  <2>3. Cardinality(Exited(records')) <= Cardinality(Exited(records))
        /\ Cardinality(Exited(records')) \in Nat
    BY <2>1, FewExited, FS_Subset, FS_CardinalityType
  <2> QED
    BY <2>2, <2>3, MaxExitedType DEF Kept
<1>11. \A q \in Runs \ late' :
         stage'[q] \in {"settled", "failed"} /\ q \in Present' => records'[q].state = "exited"
  <2>1. \A q \in S : stage[q] = "up"
    BY <1>1 DEF IInv, UpIsActive
  <2> QED
    BY <1>2, <1>5, <1>6, <1>8, <2>1 DEF Kept, TypeOK
<1> QED
  BY <1>7, <1>9, <1>10, <1>11 DEF Kept, Exited

LEMMA SpawnFailsKept ==
  ASSUME TypeOK, Kept, NEW r \in Runs, SpawnFails(r) PROVE TypeOK' /\ Kept'
<1>1. /\ stage' = [stage EXCEPT ![r] = "failed"] /\ Finalize(r, "spawn-error")
      /\ UNCHANGED <<active, forced, timers, process, fallback, exit, late, overlapped>>
      /\ "spawn-error" \in Reasons
  BY DEF SpawnFails, Reasons
<1>2. stage' \in [Runs -> Stage] /\ \A q \in Runs \ {r} : stage'[q] = stage[q]
  BY <1>1 DEF TypeOK, Stage
<1>3. Kept' /\ records' \in [Runs -> Record] /\ order' \subseteq Runs \X Runs
  BY <1>1, <1>2, FinalizeKept
<1> QED
  BY <1>1, <1>2, <1>3 DEF TypeOK

LEMMA SpawnSucceedsKept ==
  ASSUME TypeOK, Kept, IInv, NEW r \in Runs, SpawnSucceeds(r) PROVE TypeOK' /\ Kept'
<1>1. /\ stage[r] = "spawning" /\ stage' = [stage EXCEPT ![r] = "up"]
      /\ records' = [records EXCEPT ![r] = [state |-> "running", reason |-> @.reason]]
      /\ UNCHANGED <<order, forced, fallback, exit, late, overlapped>>
  BY DEF SpawnSucceeds
<1>2. r \in Present
  BY <1>1 DEF IInv, UpIsActive, Present, Absent
<1>3. /\ stage' \in [Runs -> Stage] /\ active' \subseteq Runs
      /\ process' \in [Runs -> {"none", "live", "killed", "exited", "signalled"}]
      /\ timers' \in [Runs -> SUBSET Timeouts]
  BY RunTypes DEF SpawnSucceeds, TypeOK, Stage
<1>4. records' \in [Runs -> Record] /\ records'[r].state = "running"
      /\ \A q \in Runs \ {r} : records'[q] = records[q]
  <2>1. [state |-> "running", reason |-> records[r].reason] \in Record
    BY DEF TypeOK, Record
  <2> QED
    BY <1>1, <2>1 DEF TypeOK
<1>5. TypeOK'
  BY <1>1, <1>3, <1>4 DEF TypeOK
<1>6. Kept'
  BY <1>1, <1>2, <1>4, ChangingKeeps DEF TypeOK
<1> QED
  BY <1>5, <1>6

LEMMA SettleKept ==
  ASSUME TypeOK, Kept, NEW r \in Runs, NEW natural \in Reasons, Settle(r, natural)
  PROVE  TypeOK' /\ Kept'
<1> DEFINE why == First(forced[r], natural)
<1>1. /\ stage' = [stage EXCEPT ![r] = "settled"] /\ Finalize(r, why)
      /\ timers' = [timers EXCEPT ![r] = {}] /\ active' = active \ {r}
      /\ fallback' = fallback \ {r} /\ exit' = [exit EXCEPT ![r] = why]
      /\ UNCHANGED <<forced, process, late, overlapped>>
  BY DEF Settle
<1>2. why \in Reasons
  BY DEF First, TypeOK
<1> HIDE DEF why
<1>3. /\ stage' \in [Runs -> Stage] /\ timers' \in [Runs -> SUBSET Timeouts]
      /\ active' \subseteq Runs /\ fallback' \subseteq Pty
      /\ exit' \in [Runs -> Reasons \cup {None}]
      /\ \A q \in Runs \ {r} : stage'[q] = stage[q]
  BY <1>1, <1>2 DEF TypeOK, Stage
<1>4. Kept' /\ records' \in [Runs -> Record] /\ order' \subseteq Runs \X Runs
  BY <1>1, <1>2, <1>3, FinalizeKept
<1> QED
  BY <1>1, <1>3, <1>4 DEF TypeOK

LEMMA StepKept == TypeOK /\ Kept /\ IInv /\ [Next]_vars => TypeOK' /\ Kept'
<1> SUFFICES ASSUME TypeOK, Kept, IInv, [Next]_vars PROVE TypeOK' /\ Kept'
  OBVIOUS
<1>1. ASSUME NEW r \in Runs, Cancel(r) PROVE TypeOK' /\ Kept'
  BY <1>1, CancelKept DEF Cancel
<1>2. ASSUME NEW s \in Scopes, CancelScope(s) PROVE TypeOK' /\ Kept'
  <2>1. InScope(s) \in SUBSET active
    BY DEF InScope
  <2> QED
    BY <1>2, <2>1, CancelKept DEF CancelScope
<1>3. ASSUME NEW r \in Runs, CancelHandle(r) PROVE TypeOK' /\ Kept'
  BY <1>3, CancelHandleKept
<1>4. ASSUME NEW r \in Runs, NEW k \in Timeouts, TimerFires(r, k) PROVE TypeOK' /\ Kept'
  BY <1>4, TimerKept
<1>5. ASSUME NEW r \in Runs, Spawn(r) PROVE TypeOK' /\ Kept'
  BY <1>5, SpawnKept
<1>6. ASSUME NEW r \in Runs, SpawnFails(r) PROVE TypeOK' /\ Kept'
  BY <1>6, SpawnFailsKept
<1>7. ASSUME NEW r \in Runs, SpawnSucceeds(r) PROVE TypeOK' /\ Kept'
  BY <1>7, SpawnSucceedsKept
<1>8. ASSUME NEW r \in Runs, Output(r) PROVE TypeOK' /\ Kept'
  <2>1. UNCHANGED <<records, order, active, stage, forced, process, fallback, exit,
                    late, overlapped>>
        /\ timers' \in [Runs -> SUBSET Timeouts]
    BY <1>8, RunTypes DEF Output, TypeOK
  <2> QED
    BY <2>1, ChangingKeeps DEF TypeOK
<1>9. ASSUME NEW r \in Runs, Dies(r) PROVE TypeOK' /\ Kept'
  <2>1. UNCHANGED <<records, order, active, stage, forced, timers, fallback, exit,
                    late, overlapped>>
        /\ process' \in [Runs -> {"none", "live", "killed", "exited", "signalled"}]
    BY <1>9 DEF Dies, TypeOK
  <2> QED
    BY <2>1, ChangingKeeps DEF TypeOK
<1>10. ASSUME NEW r \in Runs, Closes(r) \/ FallbackFires(r) PROVE TypeOK' /\ Kept'
  <2>1. "exit" \in Reasons /\ "signal" \in Reasons
    BY DEF Reasons
  <2> QED
    BY <1>10, <2>1, SettleKept DEF Closes, FallbackFires
<1>11. CASE UNCHANGED vars
  <2>1. UNCHANGED <<records, order, stage, late>> /\ TypeOK'
    BY <1>11 DEF vars, TypeOK
  <2> QED
    BY <2>1, ChangingKeeps
<1> QED
  BY <1>1, <1>2, <1>3, <1>4, <1>5, <1>6, <1>7, <1>8, <1>9, <1>10, <1>11 DEF Next

\* The supervisor's tables keep their types, and of the runs that have ended the
\* registry keeps no more than its limit, besides those whose handle was cancelled
\* after they had ended (pruneExitedRecords): for any runs, scopes and timeouts.
THEOREM RetentionHolds == Spec => []RecordsBounded
BY InitInv, InitKept, StepInv, StepKept, KeptEnough, PTL DEF Spec
===========================================================================
