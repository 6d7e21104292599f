------------------------ MODULE SessionStoreProofs ------------------------
(***************************************************************************)
(* What holds of the session store for any number of processes and calls.  *)
(***************************************************************************)
EXTENDS SessionStore, TLAPS

\* The parts of TypeOK.
TaskTypes ==
  /\ pending \in [Procs -> Seq(Calls)]
  /\ current \in [Procs -> Calls \cup {None}]
  /\ phase \in [Procs -> Phases]
  /\ \A p \in Procs : (phase[p] = "idle") <=> (current[p] = None)
  /\ tries \in [Procs -> 0..MaxTries]

CallTypes == view \in [Calls -> View] /\ status \in [Calls -> Statuses]

LockTypes ==
  /\ lock \in LockFile \cup {None}
  /\ held \in [Procs -> BOOLEAN] /\ sweeping \in [Procs -> BOOLEAN]

CacheTypes ==
  /\ cache \in [Procs -> Cached \cup {None}]
  /\ serial \in [Procs -> (SUBSET Versions) \cup {None}]
  /\ look \in [Procs -> Look \cup {None}]

DiskTypes ==
  /\ disk \in Versions \cup {None}
  /\ versions \in [Versions -> SUBSET Versions]
  /\ moved \in [Procs -> Versions \cup {None}]
  /\ outside \subseteq Calls
  /\ missing \subseteq {"died", "unchanged"}

SpentTypes == spent \in [{"ages", "ends"} -> Nat] /\ faults \subseteq Faults

\* Phases in which a call has not written its version yet.
Before == {"opening", "writing", "judging", "statting", "removing", "loading",
           "mutating", "deciding", "renaming"}

\* Calls are queued in their own process, once, and keep their status until
\* they are answered.
OwnTask(p) ==
  current[p] # None =>
    /\ Home[current[p]] = p
    /\ status[current[p]] \in {"queued", "thrown"}
    /\ phase[p] \in Before => status[current[p]] = "queued"

OwnQueue(p) ==
  \A i \in 1..Len(pending[p]) :
    /\ pending[p][i] # current[p]
    /\ Home[pending[p][i]] = p
    /\ status[pending[p][i]] = "queued"
    /\ \A j \in 1..Len(pending[p]) : i # j => pending[p][i] # pending[p][j]

QueueShape == \A p \in Procs : OwnTask(p) /\ OwnQueue(p)

\* A load under way belongs to a heartbeat that is not queued yet or to the
\* task of the drain.
OwnLook(p) ==
  look[p] # None =>
    /\ Home[look[p].call] = p
    /\ \/ Kind[look[p].call] = "beat" /\ status[look[p].call] = "new"
       \/ /\ Kind[look[p].call] = "route"
          /\ look[p].call = current[p] /\ phase[p] = "loading"

LookShape == \A p \in Procs : OwnLook(p)

USE CallAssumption, NameAssumption, BoundAssumption
USE DEF Goto, Free, Versions, callVars, lockVars, cacheVars, diskVars, faultVars

\* There is a call where a task is under way.
LEMMA CurrentCall ==
  ASSUME TaskTypes, NEW p \in Procs, phase[p] # "idle"
  PROVE  current[p] \in Calls
  BY DEF TaskTypes

\* A task goes on.
LEMMA GotoTypes ==
  ASSUME TaskTypes, NEW p \in Procs, NEW next \in Phases, Goto(p, next),
         phase[p] # "idle", next # "idle", UNCHANGED <<pending, current>>,
         tries' \in [Procs -> 0..MaxTries]
  PROVE  TaskTypes'
  BY DEF TaskTypes

\* The end of a task.
LEMMA SettleTypes ==
  ASSUME TaskTypes, CallTypes, NEW p \in Procs, NEW answer \in Statuses,
         current[p] \in Calls, Settle(p, answer)
  PROVE  TaskTypes' /\ CallTypes'
<1>1. CallTypes'
  BY DEF Settle, CallTypes, View, Blank
<1>2. CASE pending[p] = <<>>
  <2>1. /\ current' = [current EXCEPT ![p] = None] /\ Goto(p, "idle")
        /\ pending' = pending /\ tries' = [tries EXCEPT ![p] = 0]
    BY <1>2 DEF Settle
  <2>2. QED
    BY <1>1, <2>1 DEF TaskTypes, Phases
<1>3. CASE pending[p] # <<>>
  <2>1. Head(pending[p]) \in Calls /\ Tail(pending[p]) \in Seq(Calls)
    BY <1>3 DEF TaskTypes
  <2>2. /\ current' = [current EXCEPT ![p] = Head(pending[p])]
        /\ pending' = [pending EXCEPT ![p] = Tail(pending[p])]
        /\ Goto(p, "opening") /\ tries' = [tries EXCEPT ![p] = 0]
    BY <1>3 DEF Settle, TaskTypes
  <2>3. QED
    BY <1>1, <2>1, <2>2 DEF TaskTypes, Phases
<1>4. QED
  BY <1>2, <1>3

\* A call that joins the queue.
LEMMA EnqueueTypes ==
  ASSUME TaskTypes, NEW p \in Procs, NEW c \in Calls, Enqueue(p, c)
  PROVE  TaskTypes'
<1>1. CASE current[p] = None
  <2>1. /\ current' = [current EXCEPT ![p] = c] /\ Goto(p, "opening")
        /\ pending' = pending /\ tries' = [tries EXCEPT ![p] = 0]
    BY <1>1 DEF Enqueue
  <2>2. QED
    BY <2>1 DEF TaskTypes, Phases
<1>2. CASE current[p] # None
  <2>1. Append(pending[p], c) \in Seq(Calls)
    BY DEF TaskTypes
  <2>2. /\ pending' = [pending EXCEPT ![p] = Append(pending[p], c)]
        /\ UNCHANGED <<current, phase, tries>>
    BY <1>2 DEF Enqueue
  <2>3. pending' \in [Procs -> Seq(Calls)]
    BY <2>1, <2>2 DEF TaskTypes
  <2>4. QED
    BY <2>2, <2>3 DEF TaskTypes
<1>3. QED
  BY <1>1, <1>2

\* A load ends.
LEMMA LoadedTypes ==
  ASSUME TaskTypes, CallTypes, NEW p \in Procs, NEW c \in Calls,
         NEW v \in View, Loaded(p, c, v), Kind[c] = "beat" \/ phase[p] = "loading"
  PROVE  TaskTypes' /\ CallTypes'
<1>1. CASE Kind[c] = "beat" /\ Base \in v.content
  <2>1. TaskTypes'
    BY <1>1, EnqueueTypes DEF Loaded
  <2>2. QED
    BY <1>1, <2>1 DEF Loaded, Enqueue, CallTypes, Statuses
<1>2. CASE Kind[c] = "beat" /\ Base \notin v.content
  BY <1>2 DEF Loaded, TaskTypes, CallTypes, Statuses
<1>3. CASE Kind[c] # "beat"
  <2>1. Goto(p, "mutating") /\ UNCHANGED <<pending, current, tries>>
    BY <1>3 DEF Loaded
  <2>2. TaskTypes'
    BY <1>3, <2>1, GotoTypes DEF TaskTypes, Phases, InsidePhases
  <2>3. QED
    BY <1>3, <2>2 DEF Loaded, CallTypes
<1>4. QED
  BY <1>1, <1>2, <1>3

\* What a load puts into the hands of a call.
LEMMA CachedView ==
  ASSUME CacheTypes, NEW p \in Procs, cache[p] # None
  PROVE  [content |-> cache[p].content, torn |-> cache[p].torn] \in View
  BY DEF CacheTypes, Cached, View

\* Versions show sessions and edits.
LEMMA ContentType ==
  ASSUME DiskTypes, NEW v \in Versions \cup {None}
  PROVE  Content(v) \in SUBSET Versions
  BY DEF DiskTypes, Content

\* So does the store in the hands of a task.
LEMMA WantedType ==
  ASSUME TaskTypes, CallTypes, NEW p \in Procs, phase[p] # "idle"
  PROVE  Wanted(p) \in SUBSET Versions
  BY CurrentCall DEF CallTypes, View, Wanted

\* The load that ends with the stat.
LEMMA StatTypes ==
  ASSUME TaskTypes, CallTypes, CacheTypes, DiskTypes, LookShape,
         NEW p \in Procs, StatAfterRead(p)
  PROVE  TaskTypes' /\ CallTypes' /\ CacheTypes'
<1> DEFINE read == look[p].by
           stat == IF disk = None \/ read = None THEN read ELSE disk
           v == [content |-> Content(read), torn |-> disk \notin {read, None}]
<1>1. /\ look[p] \in Look
      /\ Kind[look[p].call] = "beat" \/ phase[p] = "loading"
  BY DEF StatAfterRead, CacheTypes, LookShape, OwnLook
<1>2. read \in Versions \cup {None} /\ stat \in Versions \cup {None}
  BY <1>1 DEF Look, DiskTypes
<1>3. Content(read) \in SUBSET Versions
  BY <1>2, ContentType
<1>4. v \in View /\ look[p].call \in Calls
  BY <1>1, <1>3 DEF View, Look
<1>5. /\ Loaded(p, look[p].call, v)
      /\ cache' = [cache EXCEPT ![p] =
                     [content |-> v.content, torn |-> v.torn, by |-> stat]]
      /\ serial' = [serial EXCEPT ![p] = IF read = None THEN None ELSE v.content]
      /\ look' = [look EXCEPT ![p] = None]
  BY DEF StatAfterRead
<1>6. TaskTypes' /\ CallTypes'
  BY <1>1, <1>4, <1>5, LoadedTypes
<1>7. CacheTypes'
  BY <1>2, <1>3, <1>5 DEF CacheTypes, Cached
<1>8. QED
  BY <1>6, <1>7

\* Every step keeps the types of the tasks.
LEMMA TaskStep ==
  ASSUME TaskTypes, CallTypes, CacheTypes, DiskTypes, LookShape, [Next]_vars
  PROVE  TaskTypes'
<1>1. ASSUME NEW p \in Procs,
             \/ WritePayload(p) \/ Judge(p) \/ LoadFresh(p) \/ KeepView(p)
      PROVE  TaskTypes'
  BY <1>1, CurrentCall, GotoTypes
  DEF WritePayload, Judge, LoadFresh, KeepView, TaskTypes, Phases,
      InsidePhases
<1>2. ASSUME NEW p \in Procs,
             \/ Stat(p) \/ Reclaim(p) \/ Throw(p) \/ Write(p)
      PROVE  TaskTypes'
  BY <1>2, CurrentCall, GotoTypes
  DEF Stat, Reclaim, Throw, Write, TaskTypes, Phases, InsidePhases
<1>3. ASSUME NEW p \in Procs,
             \/ Skip(p) \/ Rename(p) \/ Recache(p)
             \/ \E edits \in BOOLEAN : Mutate(p, edits)
      PROVE  TaskTypes'
  BY <1>3, CurrentCall, GotoTypes
  DEF Mutate, Skip, Rename, Recache, TaskTypes, Phases, InsidePhases
<1>4. ASSUME NEW p \in Procs,
             \/ Watchdog(p) \/ Sweep(p) \/ Signal(p)
             \/ \E c \in Calls : Read(p, c)
      PROVE  TaskTypes'
  BY <1>4 DEF Watchdog, Sweep, Signal, Read, TaskTypes
<1>5. ASSUME Age \/ UNCHANGED vars
      PROVE  TaskTypes'
  BY <1>5 DEF Age, vars, TaskTypes
<1>6. ASSUME NEW p \in Procs,
             \/ Crash(p) \/ Exit(p)
      PROVE  TaskTypes'
  <2>1. Vanish(p)
    BY <1>6 DEF Crash, Exit
  <2>2. QED
    BY <2>1 DEF Vanish, TaskTypes, Phases
<1>7. ASSUME NEW p \in Procs, Open(p) PROVE TaskTypes'
  <2>1. tries' \in [Procs -> 0..MaxTries]
    BY <1>7 DEF Open, TaskTypes
  <2>2. CASE lock = None
    BY <1>7, <2>1, <2>2, GotoTypes DEF Open, Phases, InsidePhases
  <2>3. CASE lock # None
    BY <1>7, <2>1, <2>3, GotoTypes DEF Open, Phases
  <2>4. QED
    BY <2>2, <2>3
<1>8. ASSUME NEW p \in Procs, TimeOut(p) PROVE TaskTypes'
  BY <1>8, CurrentCall, SettleTypes DEF TimeOut, Statuses
<1>9. ASSUME NEW p \in Procs, Unlock(p) PROVE TaskTypes'
  BY <1>9, CurrentCall, SettleTypes DEF Unlock, Answer, Statuses
<1>10. ASSUME NEW p \in Procs, Release(p) PROVE TaskTypes'
  <2>1. CASE held[p]
    BY <1>10, <2>1, GotoTypes DEF Release, TaskTypes, Phases
  <2>2. CASE ~held[p]
    BY <1>10, <2>2, CurrentCall, SettleTypes DEF Release, Answer, Statuses
  <2>3. QED
    BY <2>1, <2>2
<1>11. ASSUME NEW p \in Procs, NEW c \in Calls, Call(p, c) PROVE TaskTypes'
  BY <1>11, EnqueueTypes DEF Call
<1>12. ASSUME NEW p \in Procs, NEW c \in Calls, LoadCached(p, c)
       PROVE  TaskTypes'
  BY <1>12, CachedView, LoadedTypes DEF LoadCached, MayLoad, Hit
<1>13. ASSUME NEW p \in Procs, StatAfterRead(p) PROVE TaskTypes'
  BY <1>13, StatTypes
<1>14. ASSUME NEW p \in Procs, ProcStep(p) PROVE TaskTypes'
  BY <1>1, <1>2, <1>3, <1>4, <1>5, <1>6, <1>7, <1>8, <1>9, <1>10, <1>11,
     <1>12, <1>13, <1>14 DEF ProcStep
<1>15. QED
  BY <1>5, <1>14 DEF Next, Rest

\* Every step keeps the types of the calls.
LEMMA CallStep ==
  ASSUME TaskTypes, CallTypes, CacheTypes, DiskTypes, LookShape, [Next]_vars
  PROVE  CallTypes'
<1>1. ASSUME NEW p \in Procs,
             \/ Open(p) \/ WritePayload(p) \/ Judge(p) \/ Stat(p)
             \/ Reclaim(p) \/ KeepView(p) \/ Skip(p) \/ Write(p)
             \/ Rename(p) \/ Recache(p) \/ Watchdog(p) \/ Sweep(p) \/ Signal(p)
             \/ \E c \in Calls : Read(p, c)
      PROVE  CallTypes'
  BY <1>1
  DEF Open, WritePayload, Judge, Stat, Reclaim, KeepView, Skip, Write,
      Rename, Recache, Watchdog, Sweep, Signal, Read, CallTypes
<1>2. ASSUME Age \/ UNCHANGED vars
      PROVE  CallTypes'
  BY <1>2 DEF Age, vars, CallTypes
<1>3. ASSUME NEW p \in Procs, Throw(p) PROVE CallTypes'
  BY <1>3 DEF Throw, CallTypes, Statuses
<1>4. ASSUME NEW p \in Procs, LoadFresh(p) PROVE CallTypes'
  BY <1>4, ContentType DEF LoadFresh, DiskTypes, CallTypes, View
<1>5. ASSUME NEW p \in Procs, NEW edits \in BOOLEAN, Mutate(p, edits)
      PROVE  CallTypes'
  <2>1. view[current[p]] \in View /\ current[p] \in Calls
    BY <1>5, CurrentCall DEF Mutate, CallTypes
  <2>2. [view[current[p]] EXCEPT !.content = @ \cup {current[p]}] \in View
    BY <2>1 DEF View
  <2>3. QED
    BY <1>5, <2>1, <2>2 DEF Mutate, CallTypes
<1>6. ASSUME NEW p \in Procs,
             \/ Crash(p) \/ Exit(p)
      PROVE  CallTypes'
  <2>1. Vanish(p)
    BY <1>6 DEF Crash, Exit
  <2>2. view' \in [Calls -> View]
    BY <2>1 DEF Vanish, Blank, CallTypes, View
  <2>3. QED
    BY <2>1, <2>2 DEF Vanish, CallTypes, Statuses
<1>7. ASSUME NEW p \in Procs, TimeOut(p) PROVE CallTypes'
  BY <1>7, CurrentCall, SettleTypes DEF TimeOut, Statuses
<1>8. ASSUME NEW p \in Procs, Unlock(p) PROVE CallTypes'
  BY <1>8, CurrentCall, SettleTypes DEF Unlock, Answer, Statuses
<1>9. ASSUME NEW p \in Procs, Release(p) PROVE CallTypes'
  <2>1. CASE held[p]
    BY <1>9, <2>1 DEF Release, CallTypes
  <2>2. CASE ~held[p]
    BY <1>9, <2>2, CurrentCall, SettleTypes DEF Release, Answer, Statuses
  <2>3. QED
    BY <2>1, <2>2
<1>10. ASSUME NEW p \in Procs, NEW c \in Calls, Call(p, c) PROVE CallTypes'
  BY <1>10 DEF Call, Enqueue, CallTypes, Statuses
<1>11. ASSUME NEW p \in Procs, NEW c \in Calls, LoadCached(p, c)
       PROVE  CallTypes'
  BY <1>11, CachedView, LoadedTypes DEF LoadCached, MayLoad, Hit
<1>12. ASSUME NEW p \in Procs, StatAfterRead(p) PROVE CallTypes'
  BY <1>12, StatTypes
<1>13. ASSUME NEW p \in Procs, ProcStep(p) PROVE CallTypes'
  BY <1>1, <1>2, <1>3, <1>4, <1>5, <1>6, <1>7, <1>8, <1>9, <1>10, <1>11,
     <1>12, <1>13 DEF ProcStep
<1>14. QED
  BY <1>2, <1>13 DEF Next, Rest

\* Every step keeps the types of the lock.
LEMMA LockStep ==
  ASSUME LockTypes, [Next]_vars
  PROVE  LockTypes'
<1>1. ASSUME NEW p \in Procs,
             \/ Judge(p) \/ Stat(p) \/ TimeOut(p) \/ LoadFresh(p)
             \/ KeepView(p) \/ StatAfterRead(p) \/ Throw(p) \/ Skip(p)
             \/ Write(p) \/ Rename(p) \/ Recache(p)
             \/ \E edits \in BOOLEAN : Mutate(p, edits)
             \/ \E c \in Calls : Call(p, c)
             \/ \E c \in Calls : LoadCached(p, c)
             \/ \E c \in Calls : Read(p, c)
      PROVE  LockTypes'
  BY <1>1
  DEF Judge, Stat, TimeOut, LoadFresh, KeepView, StatAfterRead, Throw,
      Mutate, Skip, Write, Rename, Recache, Call, LoadCached, Read,
      LockTypes
<1>2. ASSUME UNCHANGED vars PROVE LockTypes'
  BY <1>2 DEF vars, LockTypes
<1>3. ASSUME NEW p \in Procs, Open(p) PROVE LockTypes'
  <2>1. CASE lock = None
    <3>1. [by |-> p, written |-> FALSE, old |-> FALSE] \in LockFile
      BY DEF LockFile
    <3>2. QED
      BY <1>3, <2>1, <3>1 DEF Open, LockTypes
  <2>2. CASE lock # None
    BY <1>3, <2>2 DEF Open, LockTypes
  <2>3. QED
    BY <2>1, <2>2
<1>4. ASSUME NEW p \in Procs, WritePayload(p) PROVE LockTypes'
  BY <1>4 DEF WritePayload, LockTypes, LockFile
<1>5. ASSUME NEW p \in Procs,
             \/ Reclaim(p) \/ Unlock(p) \/ Release(p) \/ Watchdog(p)
             \/ Sweep(p) \/ Signal(p)
      PROVE  LockTypes'
  BY <1>5 DEF Reclaim, Unlock, Release, Watchdog, Sweep, Signal, LockTypes, LockFile
<1>6. ASSUME Age PROVE LockTypes'
  BY <1>6 DEF Age, LockTypes, LockFile
<1>7. ASSUME NEW p \in Procs,
             \/ Crash(p) \/ Exit(p)
      PROVE  LockTypes'
  BY <1>7 DEF Crash, Exit, Vanish, Leave, LockTypes, LockFile
<1>8. ASSUME NEW p \in Procs, ProcStep(p) PROVE LockTypes'
  BY <1>1, <1>2, <1>3, <1>4, <1>5, <1>6, <1>7, <1>8 DEF ProcStep
<1>9. QED
  BY <1>2, <1>6, <1>8 DEF Next, Rest

\* Every step keeps the types of the caches.
LEMMA CacheStep ==
  ASSUME TaskTypes, CallTypes, CacheTypes, DiskTypes, LookShape, [Next]_vars
  PROVE  CacheTypes'
<1>1. ASSUME NEW p \in Procs,
             \/ Open(p) \/ WritePayload(p) \/ Judge(p) \/ Stat(p)
             \/ Reclaim(p) \/ TimeOut(p) \/ KeepView(p) \/ Release(p)
             \/ Throw(p) \/ Write(p) \/ Rename(p) \/ Unlock(p)
             \/ Watchdog(p) \/ Sweep(p) \/ Signal(p)
             \/ \E edits \in BOOLEAN : Mutate(p, edits)
             \/ \E c \in Calls : Call(p, c)
             \/ \E c \in Calls : LoadCached(p, c)
      PROVE  CacheTypes'
  BY <1>1
  DEF Open, WritePayload, Judge, Stat, Reclaim, TimeOut, KeepView, Release,
      Throw, Mutate, Write, Rename, Unlock, Watchdog, Sweep, Signal, Call,
      LoadCached, CacheTypes
<1>2. ASSUME Age \/ UNCHANGED vars
      PROVE  CacheTypes'
  BY <1>2 DEF Age, vars, CacheTypes
<1>3. ASSUME NEW p \in Procs,
             \/ Crash(p) \/ Exit(p)
      PROVE  CacheTypes'
  BY <1>3 DEF Crash, Exit, Vanish, CacheTypes
<1>4. ASSUME NEW p \in Procs, StatAfterRead(p) PROVE CacheTypes'
  BY <1>4, StatTypes
<1>5. ASSUME NEW p \in Procs, LoadFresh(p) PROVE CacheTypes'
  BY <1>5, ContentType DEF LoadFresh, DiskTypes, CacheTypes
<1>6. ASSUME NEW p \in Procs, NEW c \in Calls, Read(p, c) PROVE CacheTypes'
  BY <1>6 DEF Read, DiskTypes, Look, CacheTypes
<1>7. ASSUME NEW p \in Procs, Skip(p) PROVE CacheTypes'
  BY <1>7, WantedType DEF Skip, FillCaches, DiskTypes, CacheTypes, Cached
<1>8. ASSUME NEW p \in Procs, Recache(p) PROVE CacheTypes'
  BY <1>8, WantedType DEF Recache, FillCaches, DiskTypes, CacheTypes, Cached
<1>9. ASSUME NEW p \in Procs, ProcStep(p) PROVE CacheTypes'
  BY <1>1, <1>2, <1>3, <1>4, <1>5, <1>6, <1>7, <1>8, <1>9 DEF ProcStep
<1>10. QED
  BY <1>2, <1>9 DEF Next, Rest

\* Every step keeps the types of the store on disk.
LEMMA DiskStep ==
  ASSUME TaskTypes, CallTypes, DiskTypes, [Next]_vars
  PROVE  DiskTypes'
<1>1. ASSUME NEW p \in Procs,
             \/ Open(p) \/ WritePayload(p) \/ Judge(p) \/ Stat(p)
             \/ Reclaim(p) \/ TimeOut(p) \/ LoadFresh(p) \/ KeepView(p)
             \/ StatAfterRead(p) \/ Throw(p) \/ Write(p) \/ Recache(p)
             \/ Release(p) \/ Unlock(p) \/ Watchdog(p) \/ Sweep(p) \/ Signal(p)
             \/ \E c \in Calls : Call(p, c)
             \/ \E c \in Calls : LoadCached(p, c)
             \/ \E c \in Calls : Read(p, c)
      PROVE  DiskTypes'
  BY <1>1
  DEF Open, WritePayload, Judge, Stat, Reclaim, TimeOut, LoadFresh,
      KeepView, StatAfterRead, Throw, Write, Recache, Release, Unlock,
      Watchdog, Sweep, Signal, Call, LoadCached, Read, DiskTypes
<1>2. ASSUME Age \/ UNCHANGED vars
      PROVE  DiskTypes'
  BY <1>2 DEF Age, vars, DiskTypes
<1>3. ASSUME NEW p \in Procs,
             \/ Skip(p)
             \/ \E edits \in BOOLEAN : Mutate(p, edits)
      PROVE  DiskTypes'
  BY <1>3 DEF Mutate, Skip, DiskTypes
<1>4. ASSUME NEW p \in Procs, Rename(p) PROVE DiskTypes'
  BY <1>4, CurrentCall, WantedType DEF Rename, DiskTypes
<1>5. ASSUME NEW p \in Procs,
             \/ Crash(p) \/ Exit(p)
      PROVE  DiskTypes'
  BY <1>5 DEF Crash, Exit, Vanish, DiskTypes
<1>6. ASSUME NEW p \in Procs, ProcStep(p) PROVE DiskTypes'
  BY <1>1, <1>2, <1>3, <1>4, <1>5, <1>6 DEF ProcStep
<1>7. QED
  BY <1>2, <1>6 DEF Next, Rest

\* Every step keeps the types of the bounds.
LEMMA SpentStep ==
  ASSUME SpentTypes, [Next]_vars
  PROVE  SpentTypes'
<1>1. ASSUME NEW p \in Procs,
             \/ Open(p) \/ WritePayload(p) \/ Judge(p) \/ Stat(p)
             \/ Reclaim(p) \/ TimeOut(p) \/ LoadFresh(p) \/ KeepView(p)
             \/ StatAfterRead(p) \/ Throw(p) \/ Skip(p) \/ Write(p)
             \/ Rename(p) \/ Recache(p) \/ Release(p) \/ Unlock(p)
             \/ Watchdog(p) \/ Sweep(p)
             \/ \E edits \in BOOLEAN : Mutate(p, edits)
             \/ \E c \in Calls : Call(p, c)
             \/ \E c \in Calls : LoadCached(p, c)
             \/ \E c \in Calls : Read(p, c)
      PROVE  SpentTypes'
  BY <1>1
  DEF Open, WritePayload, Judge, Stat, Reclaim, TimeOut, LoadFresh,
      KeepView, StatAfterRead, Throw, Mutate, Skip, Write, Rename, Recache,
      Release, Unlock, Watchdog, Sweep, Signal, Call, LoadCached, Read, SpentTypes
<1>2. ASSUME UNCHANGED vars PROVE SpentTypes'
  BY <1>2 DEF vars, SpentTypes
<1>3. ASSUME Age PROVE SpentTypes'
  BY <1>3 DEF Age, SpentTypes, Spend, Faults
<1>4. ASSUME NEW p \in Procs,
             \/ Crash(p) \/ Exit(p) \/ Signal(p)
      PROVE  SpentTypes'
  BY <1>4 DEF Crash, Exit, Signal, Vanish, Leave, SpentTypes, Spend, Faults
<1>5. ASSUME NEW p \in Procs, ProcStep(p) PROVE SpentTypes'
  BY <1>1, <1>2, <1>3, <1>4, <1>5 DEF ProcStep
<1>6. QED
  BY <1>2, <1>3, <1>5 DEF Next, Rest

\* A queue is as it was if its calls keep their status and its task does not
\* go back.
LEMMA QueueUntouched ==
  ASSUME TaskTypes, QueueShape, NEW q \in Procs,
         current'[q] = current[q], pending'[q] = pending[q],
         phase'[q] \in Before => phase[q] \in Before,
         \A c \in Calls : Home[c] = q /\ status[c] \in {"queued", "thrown"}
                            => status'[c] = status[c]
  PROVE  OwnTask(q)' /\ OwnQueue(q)'
<1>1. OwnTask(q) /\ OwnQueue(q)
  BY DEF QueueShape
<1>2. OwnTask(q)'
  BY <1>1 DEF OwnTask, TaskTypes
<1>3. \A i \in 1..Len(pending[q]) : pending[q][i] \in Calls
  BY DEF TaskTypes
<1>4. OwnQueue(q)'
  BY <1>1, <1>3 DEF OwnQueue
<1>5. QED
  BY <1>2, <1>4

\* The end of a task: the next call leaves the queue.
LEMMA SettleShape ==
  ASSUME TaskTypes, CallTypes, QueueShape, NEW p \in Procs,
         NEW answer \in Statuses, current[p] \in Calls, Settle(p, answer)
  PROVE  QueueShape'
<1>1. OwnTask(p) /\ OwnQueue(p)
  BY DEF QueueShape
<1>2. status' = [status EXCEPT ![current[p]] = answer] /\ Home[current[p]] = p
  BY <1>1 DEF Settle, OwnTask
<1>3. ASSUME NEW q \in Procs, q # p PROVE OwnTask(q)' /\ OwnQueue(q)'
  <2>1. current'[q] = current[q] /\ pending'[q] = pending[q] /\ phase'[q] = phase[q]
    BY <1>3 DEF Settle, TaskTypes
  <2>2. \A c \in Calls : Home[c] = q => status'[c] = status[c]
    BY <1>2, <1>3 DEF CallTypes
  <2>3. QED
    BY <2>1, <2>2, QueueUntouched
<1>4. OwnTask(p)' /\ OwnQueue(p)'
  <2>1. CASE pending[p] = <<>>
    BY <2>1 DEF Settle, TaskTypes, OwnTask, OwnQueue
  <2>2. CASE pending[p] # <<>>
    <3> DEFINE s == pending[p]
    <3>1. s \in Seq(Calls) /\ s # <<>>
      BY <2>2 DEF TaskTypes
    <3>2. /\ Len(s) \in Nat \ {0} /\ Head(s) = s[1] /\ Len(Tail(s)) = Len(s) - 1
          /\ \A i \in 1..Len(Tail(s)) : Tail(s)[i] = s[i + 1]
      BY <3>1
    <3>3. current'[p] = s[1] /\ pending'[p] = Tail(s) /\ phase'[p] = "opening"
      BY <2>2, <3>2 DEF Settle, TaskTypes
    <3>4. \A i \in 1..Len(s) : s[i] \in Calls /\ s[i] # current[p] /\ Home[s[i]] = p
                                 /\ status'[s[i]] = "queued"
      BY <1>1, <1>2, <3>1 DEF OwnQueue, CallTypes
    <3>5. OwnTask(p)'
      BY <3>2, <3>3, <3>4 DEF OwnTask
    <3>6. ASSUME NEW i \in 1..Len(Tail(s))
          PROVE  /\ i + 1 \in 1..Len(s) /\ Tail(s)[i] = s[i + 1] /\ s[i + 1] # s[1]
                 /\ \A j \in 1..Len(Tail(s)) : i # j => Tail(s)[i] # Tail(s)[j]
      <4>1. i + 1 \in 1..Len(s) /\ i + 1 # 1
        BY <3>2
      <4>2. ASSUME NEW j \in 1..Len(Tail(s)), i # j PROVE Tail(s)[i] # Tail(s)[j]
        <5>1. j + 1 \in 1..Len(s) /\ i + 1 # j + 1
          BY <3>2, <4>2
        <5>2. QED
          BY <1>1, <3>2, <4>1, <5>1 DEF OwnQueue
      <4>3. s[i + 1] # s[1]
        BY <1>1, <3>2, <4>1 DEF OwnQueue
      <4>4. QED
        BY <3>2, <4>1, <4>2, <4>3
    <3>7. ASSUME NEW i \in 1..Len(Tail(s))
          PROVE  /\ Tail(s)[i] # s[1] /\ Home[Tail(s)[i]] = p
                 /\ status'[Tail(s)[i]] = "queued"
      BY <3>4, <3>6
    <3>8. ASSUME NEW i \in 1..Len(pending'[p])
          PROVE  /\ pending'[p][i] # current'[p] /\ Home[pending'[p][i]] = p
                 /\ status'[pending'[p][i]] = "queued"
                 /\ \A j \in 1..Len(pending'[p]) : i # j => pending'[p][i] # pending'[p][j]
      <4>1. i \in 1..Len(Tail(s))
        BY <3>3
      <4>2. QED
        BY <3>3, <3>6, <3>7, <4>1
    <3>9. QED
      BY <3>5, <3>8 DEF OwnQueue
  <2>3. QED
    BY <2>1, <2>2
<1>5. QED
  BY <1>3, <1>4 DEF QueueShape

\* A call that joins a queue is in none.
LEMMA EnqueueShape ==
  ASSUME TaskTypes, CallTypes, QueueShape, NEW p \in Procs, NEW c \in Calls,
         Home[c] = p, status[c] = "new", Enqueue(p, c)
  PROVE  QueueShape'
<1>1. OwnTask(p) /\ OwnQueue(p)
  BY DEF QueueShape
<1>2. status' = [status EXCEPT ![c] = "queued"]
  BY DEF Enqueue
<1>3. ASSUME NEW q \in Procs, q # p PROVE OwnTask(q)' /\ OwnQueue(q)'
  <2>1. current'[q] = current[q] /\ pending'[q] = pending[q] /\ phase'[q] = phase[q]
    BY <1>3 DEF Enqueue, TaskTypes
  <2>2. \A d \in Calls : Home[d] = q => status'[d] = status[d]
    BY <1>2, <1>3 DEF CallTypes
  <2>3. QED
    BY <2>1, <2>2, QueueUntouched
<1>4. \A i \in 1..Len(pending[p]) : pending[p][i] \in Calls /\ pending[p][i] # c
  BY <1>1 DEF TaskTypes, OwnQueue
<1>5. CASE current[p] = None
  <2>1. current'[p] = c /\ pending'[p] = pending[p] /\ phase'[p] = "opening"
    BY <1>5 DEF Enqueue, TaskTypes
  <2>2. OwnTask(p)'
    BY <1>2, <2>1 DEF OwnTask, CallTypes
  <2>3. OwnQueue(p)'
    BY <1>1, <1>2, <1>4, <2>1 DEF OwnQueue, CallTypes
  <2>4. QED
    BY <1>3, <2>2, <2>3 DEF QueueShape
<1>6. CASE current[p] # None
  <2> DEFINE s == pending[p]
  <2>1. /\ current' = current /\ phase' = phase /\ pending'[p] = Append(s, c)
        /\ current[p] \in Calls /\ current[p] # c /\ s \in Seq(Calls)
    BY <1>1, <1>6 DEF Enqueue, TaskTypes, OwnTask
  <2>2. OwnTask(p)'
    BY <1>1, <1>2, <2>1 DEF OwnTask, CallTypes
  <2>3. /\ Len(Append(s, c)) = Len(s) + 1 /\ Append(s, c)[Len(s) + 1] = c
        /\ \A i \in 1..Len(s) : Append(s, c)[i] = s[i]
        /\ Len(s) \in Nat
    BY <2>1
  <2>4. \A i \in 1..Len(s) + 1 : i \in 1..Len(s) \/ i = Len(s) + 1
    BY <2>3
  <2>5. OwnQueue(p)'
    BY <1>1, <1>2, <1>4, <2>1, <2>3, <2>4 DEF OwnQueue, CallTypes
  <2>6. QED
    BY <1>3, <2>2, <2>5 DEF QueueShape
<1>7. QED
  BY <1>5, <1>6

\* The end of a load: the call goes on, joins the queue or has failed.
LEMMA LoadedShape ==
  ASSUME TaskTypes, CallTypes, QueueShape, NEW p \in Procs, NEW c \in Calls,
         NEW v \in View, Loaded(p, c, v), Home[c] = p,
         \/ Kind[c] = "beat" /\ status[c] = "new"
         \/ Kind[c] # "beat" /\ phase[p] = "loading"
  PROVE  QueueShape'
<1>1. CASE Kind[c] = "beat" /\ Base \in v.content
  BY <1>1, EnqueueShape DEF Loaded
<1>2. CASE Kind[c] = "beat" /\ Base \notin v.content
  <2>1. /\ UNCHANGED <<pending, current, phase>>
        /\ \A d \in Calls : status[d] # "new" => status'[d] = status[d]
    BY <1>2 DEF Loaded, CallTypes
  <2>2. QED
    BY <2>1, QueueUntouched DEF QueueShape
<1>3. CASE Kind[c] # "beat"
  <2>1. /\ UNCHANGED <<pending, current, status>>
        /\ \A q \in Procs : phase'[q] \in Before => phase[q] \in Before
    BY <1>3 DEF Loaded, TaskTypes, Before
  <2>2. QED
    BY <2>1, QueueUntouched DEF QueueShape
<1>4. QED
  BY <1>1, <1>2, <1>3

\* The load that a call may make is its own.
LEMMA MayLoadOwn ==
  ASSUME TaskTypes, QueueShape, NEW p \in Procs, NEW c \in Calls, MayLoad(p, c)
  PROVE  /\ Home[c] = p
         /\ \/ Kind[c] = "beat" /\ status[c] = "new"
            \/ Kind[c] = "route" /\ c = current[p] /\ phase[p] = "loading"
  BY DEF MayLoad, QueueShape, OwnTask

\* Whose load is under way.
LEMMA LookedOwn ==
  ASSUME CacheTypes, LookShape, NEW p \in Procs, look[p] # None
  PROVE  /\ look[p].call \in Calls /\ look[p].by \in Versions \cup {None}
         /\ Home[look[p].call] = p
         /\ \/ Kind[look[p].call] = "beat" /\ status[look[p].call] = "new"
            \/ /\ Kind[look[p].call] = "route"
               /\ look[p].call = current[p] /\ phase[p] = "loading"
  BY DEF CacheTypes, Look, LookShape, OwnLook

\* The stat ends a load.
LEMMA StatLoads ==
  ASSUME CacheTypes, DiskTypes, LookShape, NEW p \in Procs, StatAfterRead(p)
  PROVE  /\ look[p] # None
         /\ \E v \in View : Loaded(p, look[p].call, v)
<1> DEFINE read == look[p].by
           stat == IF disk = None \/ read = None THEN read ELSE disk
           v == [content |-> Content(read), torn |-> disk \notin {read, None}]
<1>1. look[p] # None /\ Loaded(p, look[p].call, v)
  BY DEF StatAfterRead
<1>2. Content(read) \in SUBSET Versions
  BY <1>1, LookedOwn, ContentType
<1>3. v \in View
  BY <1>2 DEF View
<1>4. QED
  BY <1>1, <1>3

\* A call is in one place of the queues.
LEMMA QueueStep ==
  ASSUME TaskTypes, CallTypes, CacheTypes, DiskTypes, LookShape, QueueShape, [Next]_vars
  PROVE  QueueShape'
<1>1. ASSUME NEW p \in Procs,
             \/ WritePayload(p) \/ Judge(p) \/ LoadFresh(p) \/ KeepView(p)
      PROVE  QueueShape'
  <2>1. /\ UNCHANGED <<pending, current, status>>
        /\ \A q \in Procs : phase'[q] \in Before => phase[q] \in Before
    BY <1>1 DEF WritePayload, Judge, LoadFresh, KeepView, TaskTypes, Before
  <2>2. QED
    BY <2>1, QueueUntouched DEF QueueShape
<1>2. ASSUME NEW p \in Procs,
             \/ Stat(p) \/ Reclaim(p) \/ Write(p)
             \/ \E edits \in BOOLEAN : Mutate(p, edits)
      PROVE  QueueShape'
  <2>1. /\ UNCHANGED <<pending, current, status>>
        /\ \A q \in Procs : phase'[q] \in Before => phase[q] \in Before
    BY <1>2 DEF Stat, Reclaim, Write, Mutate, TaskTypes, Before
  <2>2. QED
    BY <2>1, QueueUntouched DEF QueueShape
<1>3. ASSUME NEW p \in Procs,
             \/ Open(p) \/ Skip(p) \/ Rename(p) \/ Recache(p)
      PROVE  QueueShape'
  <2>1. /\ UNCHANGED <<pending, current, status>>
        /\ \A q \in Procs : phase'[q] \in Before => phase[q] \in Before
    BY <1>3 DEF Open, Skip, Rename, Recache, TaskTypes, Before
  <2>2. QED
    BY <2>1, QueueUntouched DEF QueueShape
<1>4. ASSUME NEW p \in Procs,
             \/ Watchdog(p) \/ Sweep(p) \/ Signal(p)
             \/ \E c \in Calls : Read(p, c)
      PROVE  QueueShape'
  <2>1. UNCHANGED <<pending, current, phase, status>>
    BY <1>4 DEF Watchdog, Sweep, Signal, Read, Age, vars
  <2>2. QED
    BY <2>1, QueueUntouched DEF QueueShape
<1>5. ASSUME Age \/ UNCHANGED vars
      PROVE  QueueShape'
  <2>1. UNCHANGED <<pending, current, phase, status>>
    BY <1>5 DEF Watchdog, Sweep, Signal, Read, Age, vars
  <2>2. QED
    BY <2>1, QueueUntouched DEF QueueShape
<1>6. ASSUME NEW p \in Procs, Throw(p) PROVE QueueShape'
  <2>1. /\ UNCHANGED <<pending, current>> /\ phase[p] = "mutating"
        /\ status' = [status EXCEPT ![current[p]] = "thrown"]
        /\ phase' = [phase EXCEPT ![p] = "releasing"]
    BY <1>6 DEF Throw
  <2>2. ASSUME NEW q \in Procs, q # p PROVE OwnTask(q)' /\ OwnQueue(q)'
    <3>1. Home[current[p]] = p /\ phase'[q] = phase[q]
      BY <2>1, <2>2 DEF TaskTypes, QueueShape, OwnTask
    <3>2. \A c \in Calls : Home[c] = q => status'[c] = status[c]
      BY <2>1, <2>2, <3>1 DEF CallTypes
    <3>3. QED
      BY <2>1, <3>1, <3>2, QueueUntouched
  <2>3. OwnTask(p)'
    BY <2>1, CurrentCall DEF QueueShape, OwnTask, TaskTypes, CallTypes, Before
  <2>4. OwnQueue(p)'
    BY <2>1 DEF QueueShape, OwnQueue, TaskTypes, CallTypes
  <2>5. QED
    BY <2>2, <2>3, <2>4 DEF QueueShape
<1>7. ASSUME NEW p \in Procs,
             \/ Crash(p) \/ Exit(p)
      PROVE  QueueShape'
  <2>1. Vanish(p)
    BY <1>7 DEF Crash, Exit
  <2>2. ASSUME NEW q \in Procs, q # p PROVE OwnTask(q)' /\ OwnQueue(q)'
    <3>1. /\ current'[q] = current[q] /\ pending'[q] = pending[q] /\ phase'[q] = phase[q]
          /\ \A c \in Calls : Home[c] = q => status'[c] = status[c]
      BY <2>1, <2>2 DEF Vanish, TaskTypes
    <3>2. QED
      BY <3>1, QueueUntouched
  <2>3. current'[p] = None /\ pending'[p] = <<>>
    BY <2>1 DEF Vanish, TaskTypes
  <2>4. OwnTask(p)' /\ OwnQueue(p)'
    BY <2>3 DEF OwnTask, OwnQueue
  <2>5. QED
    BY <2>2, <2>4 DEF QueueShape
<1>8. ASSUME NEW p \in Procs, TimeOut(p) PROVE QueueShape'
  BY <1>8, CurrentCall, SettleShape DEF TimeOut, Statuses
<1>9. ASSUME NEW p \in Procs, Unlock(p) PROVE QueueShape'
  BY <1>9, CurrentCall, SettleShape DEF Unlock, Answer, Statuses
<1>10. ASSUME NEW p \in Procs, Release(p) PROVE QueueShape'
  <2>1. CASE held[p]
    <3>1. /\ UNCHANGED <<pending, current, status>>
          /\ \A q \in Procs : phase'[q] \in Before => phase[q] \in Before
      BY <1>10, <2>1 DEF Release, TaskTypes, Before
    <3>2. QED
      BY <3>1, QueueUntouched DEF QueueShape
  <2>2. CASE ~held[p]
    BY <1>10, <2>2, CurrentCall, SettleShape DEF Release, Answer, Statuses
  <2>3. QED
    BY <2>1, <2>2
<1>11. ASSUME NEW p \in Procs, NEW c \in Calls, Call(p, c) PROVE QueueShape'
  BY <1>11, EnqueueShape DEF Call
<1>12. ASSUME NEW p \in Procs, NEW c \in Calls, LoadCached(p, c)
       PROVE  QueueShape'
  BY <1>12, CachedView, MayLoadOwn, LoadedShape DEF LoadCached, Hit
<1>13. ASSUME NEW p \in Procs, StatAfterRead(p) PROVE QueueShape'
  BY <1>13, LookedOwn, StatLoads, LoadedShape
<1>14. ASSUME NEW p \in Procs, ProcStep(p) PROVE QueueShape'
  BY <1>1, <1>2, <1>3, <1>4, <1>5, <1>6, <1>7, <1>8, <1>9, <1>10, <1>11,
     <1>12, <1>13, <1>14 DEF ProcStep
<1>15. QED
  BY <1>5, <1>14 DEF Next, Rest

\* A load under way is left alone by what goes on elsewhere.
LEMMA LookUntouched ==
  ASSUME CacheTypes, LookShape, NEW q \in Procs, look'[q] = look[q],
         look[q] # None =>
           /\ phase[q] = "loading" => current'[q] = current[q] /\ phase'[q] = phase[q]
           /\ \A c \in Calls : Home[c] = q /\ status[c] = "new" => status'[c] = "new"
  PROVE  OwnLook(q)'
<1>1. CASE look[q] = None
  BY <1>1 DEF OwnLook
<1>2. CASE look[q] # None
  BY <1>2, LookedOwn DEF OwnLook
<1>3. QED
  BY <1>1, <1>2

\* What a process does while it is free of loads.
LEMMA LookElsewhere ==
  ASSUME CacheTypes, LookShape, NEW p \in Procs, Free(p), look' = look,
         \A q \in Procs : q # p => current'[q] = current[q] /\ phase'[q] = phase[q],
         \A c \in Calls : Home[c] # p /\ status[c] = "new" => status'[c] = "new"
  PROVE  LookShape'
<1>1. ASSUME NEW q \in Procs PROVE OwnLook(q)'
  <2>1. CASE q = p
    BY <2>1 DEF OwnLook
  <2>2. CASE q # p
    BY <2>2, LookUntouched
  <2>3. QED
    BY <2>1, <2>2
<1>2. QED
  BY <1>1 DEF LookShape

\* The end of a task of p leaves the calls of others alone.
LEMMA SettleElsewhere ==
  ASSUME TaskTypes, CallTypes, QueueShape, NEW p \in Procs, NEW answer \in Statuses,
         current[p] \in Calls, Settle(p, answer)
  PROVE  /\ \A q \in Procs : q # p => /\ current'[q] = current[q]
                                      /\ phase'[q] = phase[q]
         /\ \A c \in Calls : Home[c] # p => status'[c] = status[c]
<1>1. Home[current[p]] = p
  BY DEF QueueShape, OwnTask
<1>2. QED
  BY <1>1 DEF Settle, TaskTypes, CallTypes

\* So does the end of a load of p.
LEMMA LoadedElsewhere ==
  ASSUME TaskTypes, CallTypes, NEW p \in Procs, NEW c \in Calls, NEW v \in View,
         Loaded(p, c, v), Home[c] = p
  PROVE  /\ \A q \in Procs : q # p => /\ current'[q] = current[q]
                                      /\ phase'[q] = phase[q]
         /\ \A d \in Calls : Home[d] # p => status'[d] = status[d]
  BY DEF Loaded, Enqueue, TaskTypes, CallTypes

\* A load under way stays with its call.
LEMMA LookStep ==
  ASSUME TaskTypes, CallTypes, CacheTypes, DiskTypes, LookShape, QueueShape, [Next]_vars
  PROVE  LookShape'
<1>1. ASSUME NEW p \in Procs,
             \/ Open(p) \/ WritePayload(p) \/ Judge(p) \/ Stat(p)
             \/ Reclaim(p)
      PROVE  LookShape'
  BY <1>1, LookElsewhere
  DEF Open, WritePayload, Judge, Stat, Reclaim, TaskTypes
<1>2. ASSUME NEW p \in Procs, LoadFresh(p) PROVE LookShape'
  BY <1>2, LookElsewhere DEF LoadFresh, TaskTypes
<1>3. ASSUME NEW p \in Procs, KeepView(p) PROVE LookShape'
  BY <1>3, LookElsewhere DEF KeepView, TaskTypes
<1>4. ASSUME NEW p \in Procs, NEW edits \in BOOLEAN, Mutate(p, edits)
      PROVE  LookShape'
  BY <1>4, LookElsewhere DEF Mutate, TaskTypes
<1>5. ASSUME NEW p \in Procs, Skip(p) PROVE LookShape'
  BY <1>5, LookElsewhere DEF Skip, TaskTypes
<1>6. ASSUME NEW p \in Procs, Write(p) PROVE LookShape'
  BY <1>6, LookElsewhere DEF Write, TaskTypes
<1>7. ASSUME NEW p \in Procs, Recache(p) PROVE LookShape'
  BY <1>7, LookElsewhere DEF Recache, TaskTypes
<1>8. ASSUME NEW p \in Procs, Throw(p) PROVE LookShape'
  <2>1. \A c \in Calls : Home[c] # p => status'[c] = status[c]
    BY <1>8, CurrentCall DEF Throw, QueueShape, OwnTask, CallTypes
  <2>2. QED
    BY <1>8, <2>1, LookElsewhere DEF Throw, TaskTypes
<1>9. ASSUME NEW p \in Procs, Rename(p) PROVE LookShape'
  <2>1. /\ look' = look /\ UNCHANGED <<current, status>> /\ phase[p] = "renaming"
        /\ \A q \in Procs : q # p => phase'[q] = phase[q]
    BY <1>9 DEF Rename, TaskTypes
  <2>2. QED
    BY <2>1, LookUntouched DEF LookShape
<1>10. ASSUME NEW p \in Procs,
              \/ Watchdog(p) \/ Sweep(p) \/ Signal(p)
       PROVE  LookShape'
  <2>1. UNCHANGED <<look, current, phase, status>>
    BY <1>10 DEF Watchdog, Sweep, Signal, Age, vars
  <2>2. QED
    BY <2>1, LookUntouched DEF LookShape
<1>11. ASSUME Age \/ UNCHANGED vars
       PROVE  LookShape'
  <2>1. UNCHANGED <<look, current, phase, status>>
    BY <1>11 DEF Watchdog, Sweep, Signal, Age, vars
  <2>2. QED
    BY <2>1, LookUntouched DEF LookShape
<1>12. ASSUME NEW p \in Procs,
              \/ Crash(p) \/ Exit(p)
       PROVE  LookShape'
  <2>1. Vanish(p)
    BY <1>12 DEF Crash, Exit
  <2>2. ASSUME NEW q \in Procs, q # p PROVE OwnLook(q)'
    <3>1. /\ look'[q] = look[q] /\ current'[q] = current[q] /\ phase'[q] = phase[q]
          /\ \A c \in Calls : Home[c] = q => status'[c] = status[c]
      BY <2>1, <2>2 DEF Vanish, TaskTypes, CacheTypes
    <3>2. QED
      BY <3>1, LookUntouched
  <2>3. OwnLook(p)'
    BY <2>1 DEF Vanish, CacheTypes, OwnLook
  <2>4. QED
    BY <2>2, <2>3 DEF LookShape
<1>13. ASSUME NEW p \in Procs, TimeOut(p) PROVE LookShape'
  BY <1>13, CurrentCall, SettleElsewhere, LookElsewhere DEF TimeOut, Statuses
<1>14. ASSUME NEW p \in Procs, Unlock(p) PROVE LookShape'
  BY <1>14, CurrentCall, SettleElsewhere, LookElsewhere DEF Unlock, Answer, Statuses
<1>15. ASSUME NEW p \in Procs, Release(p) PROVE LookShape'
  <2>1. CASE held[p]
    BY <1>15, <2>1, LookElsewhere DEF Release, TaskTypes
  <2>2. CASE ~held[p]
    BY <1>15, <2>2, CurrentCall, SettleElsewhere, LookElsewhere DEF Release, Answer, Statuses
  <2>3. QED
    BY <2>1, <2>2
<1>16. ASSUME NEW p \in Procs, NEW c \in Calls, Call(p, c) PROVE LookShape'
  BY <1>16, LookElsewhere DEF Call, Enqueue, TaskTypes, CallTypes
<1>17. ASSUME NEW p \in Procs, NEW c \in Calls, LoadCached(p, c)
       PROVE  LookShape'
  BY <1>17, CachedView, MayLoadOwn, LoadedElsewhere, LookElsewhere DEF LoadCached, Hit
<1>18. ASSUME NEW p \in Procs, NEW c \in Calls, Read(p, c) PROVE LookShape'
  <2>1. ASSUME NEW q \in Procs, q # p PROVE OwnLook(q)'
    BY <1>18, <2>1, LookUntouched DEF Read, CacheTypes
  <2>2. OwnLook(p)'
    BY <1>18, MayLoadOwn DEF Read, CacheTypes, OwnLook
  <2>3. QED
    BY <2>1, <2>2 DEF LookShape
<1>19. ASSUME NEW p \in Procs, StatAfterRead(p) PROVE LookShape'
  <2>1. PICK v \in View : Loaded(p, look[p].call, v)
    BY <1>19, StatLoads
  <2>2. look[p] # None /\ look' = [look EXCEPT ![p] = None]
    BY <1>19 DEF StatAfterRead
  <2>3. ASSUME NEW q \in Procs, q # p PROVE OwnLook(q)'
    BY <2>1, <2>2, <2>3, LookedOwn, LoadedElsewhere, LookUntouched DEF CacheTypes
  <2>4. OwnLook(p)'
    BY <2>2 DEF CacheTypes, OwnLook
  <2>5. QED
    BY <2>3, <2>4 DEF LookShape
<1>20. ASSUME NEW p \in Procs, ProcStep(p) PROVE LookShape'
  BY <1>1, <1>2, <1>3, <1>4, <1>5, <1>6, <1>7, <1>8, <1>9, <1>10, <1>11,
     <1>12, <1>13, <1>14, <1>15, <1>16, <1>17, <1>18, <1>19, <1>20 DEF
     ProcStep
<1>21. QED
  BY <1>11, <1>20 DEF Next, Rest

\* A store that is missing has a reason.
LEMMA KeeperStep ==
  ASSUME TaskTypes, DiskTypes, FileHasKeeper, [Next]_vars
  PROVE  FileHasKeeper'
<1>1. ASSUME NEW p \in Procs,
             \/ Open(p) \/ WritePayload(p) \/ Judge(p) \/ Stat(p)
             \/ Reclaim(p) \/ TimeOut(p) \/ LoadFresh(p) \/ KeepView(p)
             \/ StatAfterRead(p) \/ Throw(p) \/ Write(p) \/ Recache(p)
             \/ Release(p) \/ Unlock(p) \/ Watchdog(p) \/ Sweep(p) \/ Signal(p)
             \/ \E c \in Calls : Call(p, c)
             \/ \E c \in Calls : LoadCached(p, c)
             \/ \E c \in Calls : Read(p, c)
      PROVE  FileHasKeeper'
  BY <1>1
  DEF Open, WritePayload, Judge, Stat, Reclaim, TimeOut, LoadFresh,
      KeepView, StatAfterRead, Throw, Write, Recache, Release, Unlock,
      Watchdog, Sweep, Signal, Call, LoadCached, Read, FileHasKeeper
<1>2. ASSUME Age \/ UNCHANGED vars
      PROVE  FileHasKeeper'
  BY <1>2 DEF Age, vars, FileHasKeeper
<1>3. ASSUME NEW p \in Procs, NEW edits \in BOOLEAN, Mutate(p, edits)
      PROVE  FileHasKeeper'
  BY <1>3 DEF Mutate, Oversized, DiskTypes, FileHasKeeper
<1>4. ASSUME NEW p \in Procs, Skip(p) PROVE FileHasKeeper'
  BY <1>4 DEF Skip, DiskTypes, FileHasKeeper
<1>5. ASSUME NEW p \in Procs, Rename(p) PROVE FileHasKeeper'
  BY <1>5, CurrentCall DEF Rename, FileHasKeeper
<1>6. ASSUME NEW p \in Procs,
             \/ Crash(p) \/ Exit(p)
      PROVE  FileHasKeeper'
  BY <1>6 DEF Crash, Exit, Vanish, DiskTypes, FileHasKeeper
<1>7. ASSUME NEW p \in Procs, ProcStep(p) PROVE FileHasKeeper'
  BY <1>1, <1>2, <1>3, <1>4, <1>5, <1>6, <1>7 DEF ProcStep
<1>8. QED
  BY <1>2, <1>7 DEF Next, Rest

\* While nothing has befallen a lock file, the lock file is there exactly
\* while a task has it, and names its process.
Calm == faults = {}
Working == InsidePhases \cup {"writing", "releasing", "closing"}

FileFollows ==
  lock # None =>
    lock.by \in Procs /\ ~lock.old /\ phase[lock.by] \in Working

TaskFollows(p) ==
  /\ ~sweeping[p] /\ phase[p] # "removing"
  /\ phase[p] \in Working => lock # None /\ lock.by = p
  /\ held[p] <=> phase[p] \in InsidePhases \cup {"releasing"}

LockFollows == Calm => FileFollows /\ \A p \in Procs : TaskFollows(p)

\* A task that goes on without touching the lock.
LEMMA FollowGoto ==
  ASSUME TaskTypes, LockFollows, NEW p \in Procs, NEW next \in Phases,
         phase' = [phase EXCEPT ![p] = next], UNCHANGED <<lockVars, faultVars>>,
         phase[p] \in Working <=> next \in Working,
         phase[p] \in InsidePhases \cup {"releasing"}
           <=> next \in InsidePhases \cup {"releasing"},
         next # "removing"
  PROVE  LockFollows'
<1>1. CASE Calm
  <2>1. \A q \in Procs : phase'[q] = IF q = p THEN next ELSE phase[q]
    BY DEF TaskTypes
  <2>2. FileFollows'
    BY <1>1, <2>1 DEF LockFollows, FileFollows
  <2>3. \A q \in Procs : TaskFollows(q)'
    BY <1>1, <2>1 DEF LockFollows, TaskFollows
  <2>4. QED
    BY <2>2, <2>3 DEF LockFollows
<1>2. CASE ~Calm
  BY <1>2 DEF LockFollows, Calm
<1>3. QED
  BY <1>1, <1>2

\* The end of a load does not touch the lock.
LEMMA FollowLoaded ==
  ASSUME TaskTypes, LockFollows, NEW p \in Procs, NEW c \in Calls, NEW v \in View,
         Loaded(p, c, v), Kind[c] = "beat" \/ phase[p] = "loading",
         UNCHANGED <<lockVars, faultVars>>
  PROVE  LockFollows'
<1>1. CASE phase' = phase
  BY <1>1 DEF LockFollows, FileFollows, TaskFollows, Calm
<1>2. CASE phase' # phase
  <2>1. \/ current[p] = None /\ phase' = [phase EXCEPT ![p] = "opening"]
        \/ phase[p] = "loading" /\ phase' = [phase EXCEPT ![p] = "mutating"]
    BY <1>2 DEF Loaded, Enqueue
  <2>2. QED
    BY <2>1, FollowGoto DEF TaskTypes, Working, InsidePhases, Phases
<1>3. QED
  BY <1>1, <1>2

\* After a task, the drain rests or opens the lock file again.
LEMMA SettlePhase ==
  ASSUME NEW p \in Procs, NEW answer, Settle(p, answer)
  PROVE  \E next \in {"idle", "opening"} : phase' = [phase EXCEPT ![p] = next]
  BY DEF Settle

\* While all is calm, the lock file follows the task that has it.
LEMMA FollowStep ==
  ASSUME TaskTypes, CallTypes, CacheTypes, DiskTypes, LookShape, LockTypes,
         SpentTypes, LockFollows, [Next]_vars
  PROVE  LockFollows'
<1>1. ASSUME NEW p \in Procs, Judge(p) PROVE LockFollows'
  <2>1. CASE ~Calm
    BY <1>1, <2>1 DEF Judge, LockFollows, Calm
  <2>2. CASE Calm
    <3>1. TaskFollows(p) /\ FileFollows
      BY <2>2 DEF LockFollows
    <3>2. \E next \in {"statting", "opening"} : phase' = [phase EXCEPT ![p] = next]
      BY <1>1, <3>1
      DEF Judge, Orphaned, TaskFollows, FileFollows, Working, InsidePhases, LockTypes, LockFile
    <3>3. QED
      BY <1>1, <3>2, FollowGoto DEF Judge, Working, InsidePhases, Phases
  <2>3. QED
    BY <2>1, <2>2
<1>2. ASSUME NEW p \in Procs, Stat(p) PROVE LockFollows'
  <2>1. CASE ~Calm
    BY <1>2, <2>1 DEF Stat, LockFollows, Calm
  <2>2. CASE Calm
    <3>1. FileFollows
      BY <2>2 DEF LockFollows
    <3>2. phase' = [phase EXCEPT ![p] = "opening"]
      BY <1>2, <3>1 DEF Stat, FileFollows
    <3>3. QED
      BY <1>2, <3>2, FollowGoto DEF Stat, Working, InsidePhases, Phases
  <2>3. QED
    BY <2>1, <2>2
<1>3. ASSUME NEW p \in Procs,
             \/ LoadFresh(p) \/ KeepView(p) \/ Throw(p)
             \/ \E edits \in BOOLEAN : Mutate(p, edits)
      PROVE  LockFollows'
  BY <1>3, FollowGoto
  DEF LoadFresh, KeepView, Throw, Mutate, Working, InsidePhases, Phases
<1>4. ASSUME NEW p \in Procs,
             \/ Skip(p) \/ Write(p) \/ Rename(p) \/ Recache(p)
      PROVE  LockFollows'
  BY <1>4, FollowGoto
  DEF Skip, Write, Rename, Recache, Working, InsidePhases, Phases
<1>5. ASSUME NEW p \in Procs, Open(p) PROVE LockFollows'
  <2>1. CASE ~Calm
    BY <1>5, <2>1 DEF Open, LockFollows, Calm
  <2>2. CASE Calm
    <3>1. FileFollows /\ \A q \in Procs : TaskFollows(q)
      BY <2>2 DEF LockFollows
    <3>2. CASE lock = None
      <4>0. [by |-> p, written |-> FALSE, old |-> FALSE] \in LockFile
        BY DEF LockFile
      <4>1. /\ lock' = [by |-> p, written |-> FALSE, old |-> FALSE] /\ lock' # None
            /\ phase' = [phase EXCEPT ![p] = "writing"] /\ phase[p] = "opening"
            /\ UNCHANGED <<held, sweeping>>
        BY <1>5, <3>2, <4>0 DEF Open
      <4>2. \A q \in Procs : phase'[q] = IF q = p THEN "writing" ELSE phase[q]
        BY <4>1 DEF TaskTypes
      <4>3. FileFollows' /\ \A q \in Procs : TaskFollows(q)'
        BY <3>1, <3>2, <4>1, <4>2 DEF FileFollows, TaskFollows, Working, InsidePhases
      <4>4. QED
        BY <4>3 DEF LockFollows
    <3>3. CASE lock # None
      BY <1>5, <3>3, FollowGoto DEF Open, Working, InsidePhases, Phases
    <3>4. QED
      BY <3>2, <3>3
  <2>3. QED
    BY <2>1, <2>2
<1>6. ASSUME NEW p \in Procs, WritePayload(p) PROVE LockFollows'
  <2>1. CASE ~Calm
    BY <1>6, <2>1 DEF WritePayload, LockFollows, Calm
  <2>2. CASE Calm
    <3>1. FileFollows /\ \A q \in Procs : TaskFollows(q)
      BY <2>2 DEF LockFollows
    <3>2. lock # None /\ lock.by = p
      BY <1>6, <3>1 DEF WritePayload, TaskFollows, Working
    <3>3. /\ lock' # None /\ lock'.by = p /\ lock'.old = lock.old
          /\ held' = [held EXCEPT ![p] = TRUE] /\ UNCHANGED sweeping
      BY <1>6, <3>2 DEF WritePayload, LockTypes, LockFile
    <3>4. \A q \in Procs : phase'[q] = IF q = p THEN "loading" ELSE phase[q]
      BY <1>6 DEF WritePayload, TaskTypes
    <3>5. FileFollows' /\ \A q \in Procs : TaskFollows(q)'
      BY <1>6, <3>1, <3>2, <3>3, <3>4
      DEF WritePayload, FileFollows, TaskFollows, LockTypes, Working, InsidePhases
    <3>6. QED
      BY <3>5 DEF LockFollows
  <2>3. QED
    BY <2>1, <2>2
<1>7. ASSUME NEW p \in Procs, Reclaim(p) PROVE LockFollows'
  BY <1>7 DEF Reclaim, LockFollows, TaskFollows, Calm
<1>8. ASSUME NEW p \in Procs, Watchdog(p) PROVE LockFollows'
  BY <1>8 DEF Watchdog, LockFollows, FileFollows, TaskFollows, Working, Calm
<1>9. ASSUME NEW p \in Procs, Sweep(p) PROVE LockFollows'
  BY <1>9 DEF Sweep, LockFollows, TaskFollows, Calm
<1>10. ASSUME NEW p \in Procs, NEW c \in Calls, Read(p, c) PROVE LockFollows'
  BY <1>10 DEF Read, vars, LockFollows, FileFollows, TaskFollows, Calm
<1>11. ASSUME UNCHANGED vars PROVE LockFollows'
  BY <1>11 DEF Read, vars, LockFollows, FileFollows, TaskFollows, Calm
<1>12. ASSUME Age PROVE LockFollows'
  BY <1>12 DEF Age, LockFollows, Calm
<1>13. ASSUME NEW p \in Procs,
              \/ Crash(p) \/ Exit(p) \/ Signal(p)
       PROVE  LockFollows'
  <2>1. CASE ~Calm
    BY <1>13, <2>1 DEF Crash, Exit, Signal, Leave, LockFollows, Calm
  <2>2. CASE Calm
    <3>1. FileFollows /\ \A q \in Procs : TaskFollows(q)
      BY <2>2 DEF LockFollows
    <3>2. SUFFICES ASSUME Calm' PROVE LockFollows'
      BY DEF LockFollows
    <3>3. Vanish(p)
      BY <1>13, <3>2 DEF Crash, Exit, Signal, Calm
    <3>4. /\ \A q \in Procs : phase'[q] = IF q = p THEN "idle" ELSE phase[q]
          /\ \A q \in Procs : held'[q] = IF q = p THEN FALSE ELSE held[q]
          /\ \A q \in Procs : sweeping'[q] = IF q = p THEN FALSE ELSE sweeping[q]
      BY <3>3 DEF Vanish, TaskTypes, LockTypes
    <3>5. \/ lock' = None /\ held[p]
          \/ lock' = lock /\ (lock = None \/ lock.by # p)
      BY <1>13, <3>2 DEF Crash, Exit, Signal, Leave, Calm
    <3>6. held[p] => lock # None /\ lock.by = p
      BY <3>1 DEF TaskFollows, Working
    <3>7. FileFollows'
      BY <3>1, <3>4, <3>5 DEF FileFollows
    <3>8. ASSUME NEW q \in Procs PROVE TaskFollows(q)'
      <4>1. CASE q = p
        BY <3>4, <4>1 DEF TaskFollows, Working, InsidePhases
      <4>2. CASE q # p
        <5>1. phase[q] \in Working => lock' = lock
          BY <3>1, <3>5, <3>6, <4>2 DEF TaskFollows
        <5>2. QED
          BY <3>1, <3>4, <4>2, <5>1 DEF TaskFollows
      <4>3. QED
        BY <4>1, <4>2
    <3>9. QED
      BY <3>7, <3>8 DEF LockFollows
  <2>3. QED
    BY <2>1, <2>2
<1>14. ASSUME NEW p \in Procs, TimeOut(p) PROVE LockFollows'
  BY <1>14, SettlePhase, FollowGoto DEF TimeOut, Working, InsidePhases, Phases
<1>15. ASSUME NEW p \in Procs, Unlock(p) PROVE LockFollows'
  <2>1. CASE ~Calm
    BY <1>15, <2>1 DEF Unlock, LockFollows, Calm
  <2>2. CASE Calm
    <3>1. FileFollows /\ \A q \in Procs : TaskFollows(q)
      BY <2>2 DEF LockFollows
    <3>2. PICK next \in {"idle", "opening"} : phase' = [phase EXCEPT ![p] = next]
      BY <1>15, SettlePhase DEF Unlock
    <3>3. \A q \in Procs : phase'[q] = IF q = p THEN next ELSE phase[q]
      BY <3>2 DEF TaskTypes
    <3>4. FileFollows' /\ \A q \in Procs : TaskFollows(q)'
      BY <1>15, <3>1, <3>3 DEF Unlock, FileFollows, TaskFollows, Working, InsidePhases
    <3>5. QED
      BY <3>4 DEF LockFollows
  <2>3. QED
    BY <2>1, <2>2
<1>16. ASSUME NEW p \in Procs, Release(p) PROVE LockFollows'
  <2>1. CASE ~Calm
    BY <1>16, <2>1 DEF Release, LockFollows, Calm
  <2>2. CASE Calm
    <3>1. FileFollows /\ \A q \in Procs : TaskFollows(q)
      BY <2>2 DEF LockFollows
    <3>2. /\ held' = [held EXCEPT ![p] = FALSE] /\ UNCHANGED <<lock, sweeping>>
          /\ \A q \in Procs : phase'[q] = IF q = p THEN "closing" ELSE phase[q]
      BY <1>16, <3>1 DEF Release, TaskFollows, TaskTypes
    <3>3. FileFollows' /\ \A q \in Procs : TaskFollows(q)'
      BY <1>16, <3>1, <3>2
      DEF Release, FileFollows, TaskFollows, LockTypes, Working, InsidePhases
    <3>4. QED
      BY <3>3 DEF LockFollows
  <2>3. QED
    BY <2>1, <2>2
<1>17. ASSUME NEW p \in Procs, NEW c \in Calls, Call(p, c) PROVE LockFollows'
  <2>1. CASE current[p] = None
    BY <1>17, <2>1, FollowGoto DEF Call, Enqueue, TaskTypes, Working, InsidePhases, Phases
  <2>2. CASE current[p] # None
    BY <1>17, <2>2 DEF Call, Enqueue, LockFollows, FileFollows, TaskFollows, Calm
  <2>3. QED
    BY <2>1, <2>2
<1>18. ASSUME NEW p \in Procs, NEW c \in Calls, LoadCached(p, c)
       PROVE  LockFollows'
  <2>1. PICK v \in View : Loaded(p, c, v)
    BY <1>18, CachedView DEF LoadCached, Hit
  <2>2. Kind[c] = "beat" \/ phase[p] = "loading"
    BY <1>18 DEF LoadCached, MayLoad
  <2>3. QED
    BY <1>18, <2>1, <2>2, FollowLoaded DEF LoadCached
<1>19. ASSUME NEW p \in Procs, StatAfterRead(p) PROVE LockFollows'
  <2>1. PICK v \in View : Loaded(p, look[p].call, v)
    BY <1>19, StatLoads
  <2>2. look[p].call \in Calls /\ (Kind[look[p].call] = "beat" \/ phase[p] = "loading")
    BY <1>19, StatLoads, LookedOwn
  <2>3. QED
    BY <1>19, <2>1, <2>2, FollowLoaded DEF StatAfterRead
<1>20. ASSUME NEW p \in Procs, ProcStep(p) PROVE LockFollows'
  BY <1>1, <1>2, <1>3, <1>4, <1>5, <1>6, <1>7, <1>8, <1>9, <1>10, <1>11,
     <1>12, <1>13, <1>14, <1>15, <1>16, <1>17, <1>18, <1>19, <1>20 DEF
     ProcStep
<1>21. QED
  BY <1>11, <1>12, <1>20 DEF Next, Rest

\* What a step of one process leaves alone in another.
Elsewhere(p) ==
  /\ \A q \in Procs : q # p =>
       /\ current'[q] = current[q] /\ phase'[q] = phase[q]
       /\ held'[q] = held[q] /\ cache'[q] = cache[q]
  /\ \A c \in Calls : Home[c] # p => view'[c] = view[c]

\* The end of a task of p, seen from the others.
LEMMA SettleView ==
  ASSUME TaskTypes, CallTypes, QueueShape, NEW p \in Procs, NEW answer \in Statuses,
         current[p] \in Calls, Settle(p, answer)
  PROVE  /\ \A c \in Calls : Home[c] # p => view'[c] = view[c]
         /\ \A q \in Procs : q # p => /\ current'[q] = current[q]
                                      /\ phase'[q] = phase[q]
<1>1. Home[current[p]] = p
  BY DEF QueueShape, OwnTask
<1>2. QED
  BY <1>1 DEF Settle, TaskTypes, CallTypes

\* The end of a load of p, seen from the others.
LEMMA LoadedView ==
  ASSUME TaskTypes, CallTypes, NEW p \in Procs, NEW c \in Calls, NEW v \in View,
         Loaded(p, c, v), Home[c] = p
  PROVE  \A d \in Calls : d # c => view'[d] = view[d]
  BY DEF Loaded, Enqueue, CallTypes

\* The call of a task is one of its process, not answered yet.
LEMMA OwnCurrent ==
  ASSUME TaskTypes, QueueShape, NEW p \in Procs, phase[p] # "idle"
  PROVE  /\ current[p] \in Calls /\ Home[current[p]] = p
         /\ status[current[p]] \in {"queued", "thrown"}
         /\ phase[p] \in Before => status[current[p]] = "queued"
  BY CurrentCall DEF QueueShape, OwnTask

\* A step of p leaves tasks, locks, caches and views of the others.
LEMMA StepElsewhere ==
  ASSUME TaskTypes, CallTypes, LockTypes, CacheTypes, DiskTypes, LookShape, QueueShape,
         NEW p \in Procs, ProcStep(p)
  PROVE  Elsewhere(p)
<1>1. ASSUME Open(p) \/ WritePayload(p) \/ Judge(p) \/ Stat(p) \/ Reclaim(p)
      PROVE  Elsewhere(p)
  BY <1>1 DEF Open, WritePayload, Judge, Stat, Reclaim, Elsewhere, TaskTypes, LockTypes
<1>2. ASSUME LoadFresh(p) \/ KeepView(p) \/ Throw(p) PROVE Elsewhere(p)
  BY <1>2, OwnCurrent DEF LoadFresh, KeepView, Throw, Elsewhere, TaskTypes, CallTypes
<1>3. ASSUME NEW edits \in BOOLEAN, Mutate(p, edits) PROVE Elsewhere(p)
  BY <1>3, OwnCurrent DEF Mutate, Elsewhere, TaskTypes, CallTypes
<1>4. ASSUME Skip(p) \/ Recache(p) PROVE Elsewhere(p)
  BY <1>4 DEF Skip, Recache, FillCaches, Elsewhere, TaskTypes, CacheTypes
<1>5. ASSUME Write(p) \/ Rename(p) PROVE Elsewhere(p)
  BY <1>5 DEF Write, Rename, Elsewhere, TaskTypes
<1>6. ASSUME Watchdog(p) \/ Sweep(p) \/ Signal(p) PROVE Elsewhere(p)
  BY <1>6 DEF Watchdog, Sweep, Signal, Elsewhere, LockTypes
<1>7. ASSUME Crash(p) \/ Exit(p) PROVE Elsewhere(p)
  <2>1. Vanish(p)
    BY <1>7 DEF Crash, Exit
  <2>2. QED
    BY <2>1 DEF Vanish, Elsewhere, TaskTypes, CallTypes, LockTypes, CacheTypes
<1>8. ASSUME TimeOut(p) PROVE Elsewhere(p)
  BY <1>8, CurrentCall, SettleView DEF TimeOut, Statuses, Elsewhere
<1>9. ASSUME Unlock(p) PROVE Elsewhere(p)
  BY <1>9, CurrentCall, SettleView DEF Unlock, Answer, Statuses, Elsewhere
<1>10. ASSUME Release(p) PROVE Elsewhere(p)
  <2>1. CASE held[p]
    BY <1>10, <2>1 DEF Release, Elsewhere, TaskTypes, LockTypes
  <2>2. CASE ~held[p]
    BY <1>10, <2>2, CurrentCall, SettleView DEF Release, Answer, Statuses, Elsewhere
  <2>3. QED
    BY <2>1, <2>2
<1>11. ASSUME NEW c \in Calls, Call(p, c) PROVE Elsewhere(p)
  BY <1>11 DEF Call, Enqueue, Elsewhere, TaskTypes
<1>12. ASSUME NEW c \in Calls, LoadCached(p, c) PROVE Elsewhere(p)
  <2>1. PICK v \in View : Loaded(p, c, v)
    BY <1>12, CachedView DEF LoadCached, Hit
  <2>2. Home[c] = p /\ UNCHANGED <<held, cache>>
    BY <1>12, MayLoadOwn DEF LoadCached
  <2>3. QED
    BY <2>1, <2>2, LoadedView, LoadedElsewhere DEF Elsewhere
<1>13. ASSUME NEW c \in Calls, Read(p, c) PROVE Elsewhere(p)
  BY <1>13 DEF Read, Elsewhere
<1>14. ASSUME StatAfterRead(p) PROVE Elsewhere(p)
  <2>1. PICK v \in View : Loaded(p, look[p].call, v)
    BY <1>14, StatLoads
  <2>2. /\ look[p].call \in Calls /\ Home[look[p].call] = p /\ UNCHANGED held
        /\ \A q \in Procs : q # p => cache'[q] = cache[q]
    BY <1>14, LookedOwn DEF StatAfterRead, CacheTypes
  <2>3. QED
    BY <2>1, <2>2, LoadedView, LoadedElsewhere DEF Elsewhere
<1>15. QED
  BY <1>1, <1>2, <1>3, <1>4, <1>5, <1>6, <1>7, <1>8, <1>9, <1>10, <1>11, <1>12,
     <1>13, <1>14 DEF ProcStep

\* Only a rename makes a version.
LEMMA DiskKept ==
  ASSUME DiskTypes, NEW p \in Procs, ProcStep(p), ~Rename(p)
  PROVE  UNCHANGED <<versions, outside>> /\ disk' \in {disk, None}
<1>1. ASSUME NEW edits \in BOOLEAN, Mutate(p, edits)
      PROVE  UNCHANGED <<versions, outside>> /\ disk' \in {disk, None}
  BY <1>1 DEF Mutate
<1>2. ASSUME Skip(p) \/ Crash(p) \/ Exit(p)
      PROVE  UNCHANGED <<versions, outside>> /\ disk' \in {disk, None}
  BY <1>2 DEF Skip, Crash, Exit, Vanish
<1>3. ASSUME \/ Open(p) \/ WritePayload(p) \/ Judge(p) \/ Stat(p) \/ Reclaim(p)
             \/ TimeOut(p) \/ LoadFresh(p) \/ KeepView(p) \/ StatAfterRead(p)
             \/ Throw(p) \/ Write(p) \/ Recache(p) \/ Release(p) \/ Unlock(p)
             \/ Watchdog(p) \/ Sweep(p) \/ Signal(p)
      PROVE  UNCHANGED diskVars
  BY <1>3 DEF Open, WritePayload, Judge, Stat, Reclaim, TimeOut, LoadFresh, KeepView,
              StatAfterRead, Throw, Write, Recache, Release, Unlock, Watchdog, Sweep, Signal
<1>4. ASSUME NEW c \in Calls, Call(p, c) \/ LoadCached(p, c) \/ Read(p, c)
      PROVE  UNCHANGED diskVars
  BY <1>4 DEF Call, LoadCached, Read
<1>5. QED
  BY <1>1, <1>2, <1>3, <1>4 DEF ProcStep

\* Nobody else makes a process the owner of the lock file.
LEMMA OwnsBack ==
  ASSUME LockTypes, TaskTypes, CallTypes, CacheTypes, DiskTypes, LookShape, QueueShape,
         NEW p \in Procs, ProcStep(p), NEW q \in Procs, q # p, Owns(q)'
  PROVE  Owns(q)
<1>1. held[q] /\ lock' # None /\ lock'.by = q
  BY StepElsewhere DEF Elsewhere, Owns
<1>2. ASSUME Open(p) \/ WritePayload(p) PROVE Owns(q)
  BY <1>1, <1>2 DEF Open, WritePayload, Owns, LockTypes, LockFile
<1>3. ASSUME Reclaim(p) \/ Unlock(p) \/ Sweep(p) \/ Signal(p) PROVE FALSE
  BY <1>1, <1>3 DEF Reclaim, Unlock, Sweep, Signal
<1>4. ASSUME Crash(p) \/ Exit(p) PROVE Owns(q)
  BY <1>1, <1>4 DEF Crash, Exit, Leave, Owns, LockTypes, LockFile
<1>5. ASSUME \/ Judge(p) \/ Stat(p) \/ TimeOut(p) \/ LoadFresh(p) \/ KeepView(p)
             \/ StatAfterRead(p) \/ Throw(p) \/ Skip(p) \/ Write(p) \/ Rename(p)
             \/ Recache(p) \/ Release(p) \/ Watchdog(p)
      PROVE  lock' = lock
  BY <1>5 DEF Judge, Stat, TimeOut, LoadFresh, KeepView, StatAfterRead, Throw, Skip,
              Write, Rename, Recache, Release, Watchdog
<1>6. ASSUME NEW edits \in BOOLEAN, Mutate(p, edits) PROVE lock' = lock
  BY <1>6 DEF Mutate
<1>7. ASSUME NEW c \in Calls, Call(p, c) \/ LoadCached(p, c) \/ Read(p, c)
      PROVE  lock' = lock
  BY <1>7 DEF Call, LoadCached, Read
<1>8. QED
  BY <1>1, <1>2, <1>3, <1>4, <1>5, <1>6, <1>7 DEF ProcStep, Owns

\* Calls that have not written their version of the store.
Unwritten(c) ==
  \/ status[c] = "new"
  \/ status[c] = "queued" /\ (current[Home[c]] = c => phase[Home[c]] \in Before)

\* Neither the disk nor a backup nor a cache has a version that was not written.
VersionIsNew(c) ==
  /\ disk # c
  /\ \A p \in Procs : /\ moved[p] # c
                      /\ cache[p] # None => cache[p].by # c
                      /\ look[p] # None => look[p].by # c

NewVersion == \A c \in Calls : Unwritten(c) => VersionIsNew(c)

\* A task that ends makes no call unwritten.
LEMMA SettleUnwritten ==
  ASSUME TaskTypes, CallTypes, QueueShape, NEW p \in Procs,
         NEW answer \in Statuses \ {"new", "queued"}, current[p] \in Calls,
         Settle(p, answer), NEW c \in Calls, Unwritten(c)'
  PROVE  Unwritten(c)
<1>1. status' = [status EXCEPT ![current[p]] = answer]
  BY DEF Settle
<1>2. c # current[p] /\ status'[c] = status[c]
  BY <1>1 DEF Unwritten, CallTypes
<1>3. CASE Home[c] = p
  BY <1>2, <1>3 DEF Unwritten
<1>4. CASE Home[c] # p
  <2>1. /\ current'[Home[c]] = current[Home[c]] /\ phase'[Home[c]] = phase[Home[c]]
        /\ Home[c] \in Procs
    BY <1>4, SettleView
  <2>2. QED
    BY <1>2, <2>1 DEF Unwritten
<1>5. QED
  BY <1>3, <1>4

\* A task that does not go back.
LEMMA GotoUnwritten ==
  ASSUME TaskTypes, CallTypes, NEW p \in Procs, NEW c \in Calls,
         UNCHANGED <<current, status>>,
         \A q \in Procs : phase'[q] \in Before => phase[q] \in Before, Unwritten(c)'
  PROVE  Unwritten(c)
  BY DEF Unwritten

\* Nor does a load that ends.
LEMMA LoadedUnwritten ==
  ASSUME TaskTypes, CallTypes, QueueShape, NEW p \in Procs, NEW d \in Calls,
         NEW v \in View, Loaded(p, d, v), Home[d] = p,
         \/ Kind[d] = "beat" /\ status[d] = "new"
         \/ Kind[d] # "beat" /\ d = current[p] /\ phase[p] = "loading",
         NEW c \in Calls, Unwritten(c)'
  PROVE  Unwritten(c)
<1>1. CASE Kind[d] # "beat"
  <2>1. UNCHANGED <<current, status>> /\ phase' = [phase EXCEPT ![p] = "mutating"]
    BY <1>1 DEF Loaded
  <2>2. QED
    BY <1>1, <2>1, GotoUnwritten DEF TaskTypes, Before
<1>2. CASE Kind[d] = "beat" /\ c = d
  BY <1>2 DEF Unwritten
<1>3. CASE Kind[d] = "beat" /\ c # d
  <2>1. status'[c] = status[c]
    BY <1>3 DEF Loaded, Enqueue, CallTypes
  <2>2. current[Home[c]] = c => /\ current'[Home[c]] = c
                                /\ phase'[Home[c]] = phase[Home[c]]
    BY <1>3 DEF Loaded, Enqueue, TaskTypes
  <2>3. QED
    BY <2>1, <2>2 DEF Unwritten
<1>4. QED
  BY <1>1, <1>2, <1>3

\* What is written stays written.
LEMMA UnwrittenBack ==
  ASSUME TaskTypes, CallTypes, CacheTypes, DiskTypes, LookShape, QueueShape,
         NEW p \in Procs, ProcStep(p), NEW c \in Calls, Unwritten(c)'
  PROVE  Unwritten(c)
<1>1. ASSUME \/ WritePayload(p) \/ Judge(p) \/ LoadFresh(p) \/ KeepView(p)
             \/ Stat(p) \/ Reclaim(p) \/ Write(p)
      PROVE  Unwritten(c)
  <2>1. /\ UNCHANGED <<current, status>>
        /\ \A q \in Procs : phase'[q] \in Before => phase[q] \in Before
    BY <1>1 DEF WritePayload, Judge, LoadFresh, KeepView, Stat, Reclaim, Write, TaskTypes,
                Before
  <2>2. QED
    BY <2>1, GotoUnwritten
<1>2. ASSUME Open(p) \/ Skip(p) \/ Rename(p) \/ Recache(p) PROVE Unwritten(c)
  <2>1. /\ UNCHANGED <<current, status>>
        /\ \A q \in Procs : phase'[q] \in Before => phase[q] \in Before
    BY <1>2 DEF Open, Skip, Rename, Recache, TaskTypes, Before
  <2>2. QED
    BY <2>1, GotoUnwritten
<1>3. ASSUME NEW edits \in BOOLEAN, Mutate(p, edits) PROVE Unwritten(c)
  <2>1. /\ UNCHANGED <<current, status>>
        /\ \A q \in Procs : phase'[q] \in Before => phase[q] \in Before
    BY <1>3 DEF Mutate, TaskTypes, Before
  <2>2. QED
    BY <2>1, GotoUnwritten
<1>4. ASSUME Watchdog(p) \/ Sweep(p) \/ Signal(p) \/ (\E d \in Calls : Read(p, d)) PROVE Unwritten(c)
  BY <1>4 DEF Watchdog, Sweep, Signal, Read, Unwritten
<1>5. ASSUME Throw(p) PROVE Unwritten(c)
  <2>1. status' = [status EXCEPT ![current[p]] = "thrown"] /\ current' = current
    BY <1>5 DEF Throw
  <2>2. c # current[p] /\ status'[c] = status[c]
    BY <2>1 DEF Unwritten, CallTypes
  <2>3. \A q \in Procs : phase'[q] \in Before => phase[q] \in Before
    BY <1>5 DEF Throw, TaskTypes, Before
  <2>4. QED
    BY <2>1, <2>2, <2>3 DEF Unwritten
<1>6. ASSUME Crash(p) \/ Exit(p) PROVE Unwritten(c)
  <2>1. Vanish(p)
    BY <1>6 DEF Crash, Exit
  <2>2. status'[c] = status[c] /\ (status[c] = "queued" => Home[c] # p)
    BY <2>1 DEF Vanish, Unwritten
  <2>3. Home[c] # p => /\ current'[Home[c]] = current[Home[c]]
                       /\ phase'[Home[c]] = phase[Home[c]]
    BY <2>1 DEF Vanish, TaskTypes
  <2>4. QED
    BY <2>2, <2>3 DEF Unwritten
<1>7. ASSUME TimeOut(p) PROVE Unwritten(c)
  BY <1>7, CurrentCall, SettleUnwritten DEF TimeOut, Statuses
<1>8. ASSUME Unlock(p) PROVE Unwritten(c)
  BY <1>8, CurrentCall, SettleUnwritten DEF Unlock, Answer, Statuses
<1>9. ASSUME Release(p) PROVE Unwritten(c)
  <2>1. CASE held[p]
    <3>1. /\ UNCHANGED <<current, status>>
          /\ \A q \in Procs : phase'[q] \in Before => phase[q] \in Before
      BY <1>9, <2>1 DEF Release, TaskTypes, Before
    <3>2. QED
      BY <3>1, GotoUnwritten
  <2>2. CASE ~held[p]
    BY <1>9, <2>2, CurrentCall, SettleUnwritten DEF Release, Answer, Statuses
  <2>3. QED
    BY <2>1, <2>2
<1>10. ASSUME NEW d \in Calls, Call(p, d) PROVE Unwritten(c)
  <2>1. CASE c = d
    BY <1>10, <2>1 DEF Call, Unwritten
  <2>2. CASE c # d
    <3>1. status'[c] = status[c]
      BY <1>10, <2>2 DEF Call, Enqueue, CallTypes
    <3>2. current[Home[c]] = c => /\ current'[Home[c]] = c
                                  /\ phase'[Home[c]] = phase[Home[c]]
      BY <1>10 DEF Call, Enqueue, TaskTypes
    <3>3. QED
      BY <3>1, <3>2 DEF Unwritten
  <2>3. QED
    BY <2>1, <2>2
<1>11. ASSUME NEW d \in Calls, LoadCached(p, d) PROVE Unwritten(c)
  BY <1>11, CachedView, MayLoadOwn, LoadedUnwritten DEF LoadCached, Hit
<1>12. ASSUME StatAfterRead(p) PROVE Unwritten(c)
  BY <1>12, StatLoads, LookedOwn, LoadedUnwritten
<1>13. QED
  BY <1>1, <1>2, <1>3, <1>4, <1>5, <1>6, <1>7, <1>8, <1>9, <1>10, <1>11, <1>12
  DEF ProcStep

\* Caches take their versions from the disk.
LEMMA CacheFromDisk ==
  ASSUME CacheTypes, DiskTypes, NEW p \in Procs, ProcStep(p), NEW q \in Procs
  PROVE  /\ cache'[q] # None =>
              \/ cache[q] # None /\ cache'[q].by = cache[q].by
              \/ cache'[q].by = disk
              \/ look[q] # None /\ cache'[q].by = look[q].by
         /\ look'[q] # None =>
              \/ look[q] # None /\ look'[q].by = look[q].by
              \/ look'[q].by = disk
<1> DEFINE Good == /\ cache'[q] # None =>
                        \/ cache[q] # None /\ cache'[q].by = cache[q].by
                        \/ cache'[q].by = disk
                        \/ look[q] # None /\ cache'[q].by = look[q].by
                   /\ look'[q] # None =>
                        \/ look[q] # None /\ look'[q].by = look[q].by
                        \/ look'[q].by = disk
<1>1. ASSUME UNCHANGED <<cache, look>> PROVE Good
  BY <1>1
<1>2. ASSUME \/ Open(p) \/ WritePayload(p) \/ Judge(p) \/ Stat(p) \/ Reclaim(p)
             \/ TimeOut(p) \/ LoadFresh(p) \/ KeepView(p) \/ Throw(p) \/ Write(p)
             \/ Rename(p) \/ Release(p) \/ Unlock(p) \/ Watchdog(p) \/ Sweep(p) \/ Signal(p)
      PROVE  UNCHANGED <<cache, look>>
  BY <1>2 DEF Open, WritePayload, Judge, Stat, Reclaim, TimeOut, LoadFresh, KeepView,
              Throw, Write, Rename, Release, Unlock, Watchdog, Sweep, Signal
<1>3. ASSUME \/ \E edits \in BOOLEAN : Mutate(p, edits)
             \/ \E c \in Calls : Call(p, c) \/ LoadCached(p, c)
      PROVE  UNCHANGED <<cache, look>>
  BY <1>3 DEF Mutate, Call, LoadCached
<1>4. ASSUME NEW c \in Calls, Read(p, c) PROVE Good
  BY <1>4 DEF Read, CacheTypes
<1>5. ASSUME StatAfterRead(p) PROVE Good
  BY <1>5 DEF StatAfterRead, CacheTypes
<1>6. ASSUME Skip(p) \/ Recache(p) PROVE Good
  BY <1>6 DEF Skip, Recache, FillCaches, CacheTypes
<1>7. ASSUME Crash(p) \/ Exit(p) PROVE Good
  BY <1>7 DEF Crash, Exit, Vanish, CacheTypes
<1>8. QED
  BY <1>1, <1>2, <1>3, <1>4, <1>5, <1>6, <1>7 DEF ProcStep

\* A task moves what is on the disk.
LEMMA MovedFromDisk ==
  ASSUME DiskTypes, NEW p \in Procs, ProcStep(p), NEW q \in Procs
  PROVE  /\ moved'[q] \in {moved[q], disk, None}
         /\ q # p => moved'[q] = moved[q]
<1> DEFINE Good == /\ moved'[q] \in {moved[q], disk, None}
                   /\ q # p => moved'[q] = moved[q]
<1>1. ASSUME moved' = moved PROVE Good
  BY <1>1
<1>2. ASSUME NEW edits \in BOOLEAN, Mutate(p, edits) PROVE Good
  BY <1>2 DEF Mutate, DiskTypes
<1>3. ASSUME Skip(p) \/ Rename(p) PROVE Good
  BY <1>3 DEF Skip, Rename, DiskTypes
<1>4. ASSUME Crash(p) \/ Exit(p) PROVE Good
  BY <1>4 DEF Crash, Exit, Vanish, DiskTypes
<1>5. ASSUME \/ Open(p) \/ WritePayload(p) \/ Judge(p) \/ Stat(p) \/ Reclaim(p)
             \/ TimeOut(p) \/ LoadFresh(p) \/ KeepView(p) \/ StatAfterRead(p)
             \/ Throw(p) \/ Write(p) \/ Recache(p) \/ Release(p) \/ Unlock(p)
             \/ Watchdog(p) \/ Sweep(p) \/ Signal(p)
      PROVE  moved' = moved
  BY <1>5 DEF Open, WritePayload, Judge, Stat, Reclaim, TimeOut, LoadFresh, KeepView,
              StatAfterRead, Throw, Write, Recache, Release, Unlock, Watchdog, Sweep,
              Signal
<1>6. ASSUME NEW c \in Calls, Call(p, c) \/ LoadCached(p, c) \/ Read(p, c)
      PROVE  moved' = moved
  BY <1>6 DEF Call, LoadCached, Read
<1>7. QED
  BY <1>1, <1>2, <1>3, <1>4, <1>5, <1>6 DEF ProcStep

\* A version is new until its call renames it over the store.
LEMMA NewVersionStep ==
  ASSUME TaskTypes, CallTypes, CacheTypes, DiskTypes, LookShape, QueueShape, NewVersion,
         [Next]_vars
  PROVE  NewVersion'
<1>1. ASSUME Age \/ UNCHANGED vars PROVE NewVersion'
  BY <1>1 DEF Age, vars, NewVersion, Unwritten, VersionIsNew
<1>2. ASSUME NEW p \in Procs, ProcStep(p), NEW c \in Calls, Unwritten(c)'
      PROVE  VersionIsNew(c)'
  <2>1. VersionIsNew(c)
    BY <1>2, UnwrittenBack DEF NewVersion
  <2>2. disk' # c
    <3>1. CASE Rename(p)
      <4>1. /\ disk' = current[p] /\ UNCHANGED <<current, status>>
            /\ current[p] \in Calls /\ Home[current[p]] = p
            /\ status[current[p]] # "new" /\ phase'[p] = "caching"
        BY <3>1, OwnCurrent DEF Rename, TaskTypes
      <4>2. QED
        BY <1>2, <4>1 DEF Unwritten, Before
    <3>2. CASE ~Rename(p)
      BY <1>2, <2>1, <3>2, DiskKept DEF VersionIsNew
    <3>3. QED
      BY <3>1, <3>2
  <2>3. \A q \in Procs : moved'[q] # c
    BY <1>2, <2>1, MovedFromDisk DEF VersionIsNew
  <2>4. QED
    BY <1>2, <2>1, <2>2, <2>3, CacheFromDisk DEF VersionIsNew
<1>3. QED
  BY <1>1, <1>2 DEF Next, Rest, NewVersion

\* An entry of the object cache that is not torn shows the version it names.
CacheOk(p) ==
  cache[p] # None /\ ~cache[p].torn /\ cache[p].by # None
    => cache[p].content = versions[cache[p].by]

\* What a task is about to cache is the version it wrote.
CachingOk(p) == phase[p] = "caching" => versions[current[p]] = Wanted(p)

\* A backup is under way only until the write.
MovedOk(p) == moved[p] # None => phase[p] \in {"deciding", "renaming"}

\* The owner of the lock has in its hands what the disk shows, or what it
\* showed before the backup, or more.
Saving(p) ==
  /\ phase[p] \in {"mutating", "deciding", "renaming"} /\ Owns(p)
  /\ Kind[current[p]] # "beat" /\ ~view[current[p]].torn

Covers(p, v) == Content(v) \subseteq Wanted(p) \/ v \in outside

ViewOk(p) == Saving(p) => Covers(p, disk) /\ Covers(p, moved[p])

ViewsTrue == \A p \in Procs : CacheOk(p) /\ CachingOk(p) /\ MovedOk(p) /\ ViewOk(p)

Shape ==
  /\ TaskTypes /\ CallTypes /\ LockTypes /\ CacheTypes /\ DiskTypes
  /\ QueueShape /\ LookShape

\* The process that takes the step: what it has cached.
LEMMA CacheOkStep ==
  ASSUME Shape, NewVersion, ViewsTrue, NEW p \in Procs, ProcStep(p), NEW q \in Procs
  PROVE  CacheOk(q)'
<1> USE DEF Shape
<1>1. CacheOk(q) /\ CachingOk(q)
  BY DEF ViewsTrue
<1>2. CASE Rename(p)
  <2>1. /\ current[p] \in Calls /\ Unwritten(current[p]) /\ cache' = cache
        /\ versions' = [versions EXCEPT ![current[p]] = Wanted(p)]
    BY <1>2, OwnCurrent DEF Rename, Unwritten, Before
  <2>2. cache[q] # None => cache[q].by # current[p]
    BY <2>1 DEF NewVersion, VersionIsNew
  <2>3. cache[q] # None /\ cache[q].by # None => cache[q].by \in Versions
    BY DEF CacheTypes, Cached
  <2>4. QED
    BY <1>1, <2>1, <2>2, <2>3 DEF CacheOk, DiskTypes
<1>3. CASE ~Rename(p) /\ cache'[q] = cache[q]
  BY <1>1, <1>3, DiskKept DEF CacheOk
<1>4. CASE ~Rename(p) /\ cache'[q] # cache[q]
  <2>1. q = p /\ versions' = versions
    BY <1>4, StepElsewhere, DiskKept DEF Elsewhere
  <2>2. ASSUME StatAfterRead(p) PROVE CacheOk(p)'
    <3> DEFINE read == look[p].by
               stat == IF disk = None \/ read = None THEN read ELSE disk
    <3>1. cache'[p] = [content |-> Content(read), torn |-> disk \notin {read, None},
                       by |-> stat]
      BY <2>2 DEF StatAfterRead, CacheTypes
    <3>2. CASE disk \in {read, None}
      BY <2>1, <3>1, <3>2 DEF CacheOk, Content
    <3>3. CASE disk \notin {read, None}
      <4> DEFINE entry == cache'[p]
      <4>1. entry = [content |-> Content(read), torn |-> disk \notin {read, None},
                     by |-> stat]
        BY <3>1
      <4> HIDE DEF entry
      <4>2. entry.torn
        BY <3>3, <4>1
      <4> USE DEF entry
      <4>3. QED
        BY <4>2 DEF CacheOk
    <3>4. QED
      BY <3>2, <3>3
  <2>3. ASSUME Skip(p) PROVE CacheOk(p)'
    <3>1. cache'[p] = [content |-> Wanted(p), torn |-> Content(disk) # Wanted(p), by |-> disk]
      BY <2>3 DEF Skip, FillCaches, CacheTypes
    <3>2. CASE Content(disk) = Wanted(p)
      BY <2>1, <3>1, <3>2 DEF CacheOk, Content
    <3>3. CASE Content(disk) # Wanted(p)
      <4> DEFINE entry == cache'[p]
      <4>1. entry = [content |-> Wanted(p), torn |-> Content(disk) # Wanted(p), by |-> disk]
        BY <3>1
      <4> HIDE DEF entry
      <4>2. entry.torn
        BY <3>3, <4>1
      <4> USE DEF entry
      <4>3. QED
        BY <4>2 DEF CacheOk
    <3>4. QED
      BY <3>2, <3>3
  <2>4. ASSUME Recache(p) PROVE CacheOk(p)'
    <3>1. /\ cache'[p] = [content |-> Wanted(p), torn |-> disk # current[p], by |-> disk]
          /\ phase[p] = "caching"
      BY <2>4 DEF Recache, FillCaches, CacheTypes
    <3>2. CASE disk = current[p]
      BY <1>1, <2>1, <3>1, <3>2 DEF CacheOk, CachingOk
    <3>3. CASE disk # current[p]
      <4> DEFINE entry == cache'[p]
      <4>1. entry = [content |-> Wanted(p), torn |-> disk # current[p], by |-> disk]
        BY <3>1
      <4> HIDE DEF entry
      <4>2. entry.torn
        BY <3>3, <4>1
      <4> USE DEF entry
      <4>3. QED
        BY <4>2 DEF CacheOk
    <3>4. QED
      BY <3>2, <3>3
  <2>5. ASSUME Crash(p) \/ Exit(p) PROVE CacheOk(p)'
    BY <2>5 DEF Crash, Exit, Vanish, CacheTypes, CacheOk
  <2>6. ASSUME \/ Open(p) \/ WritePayload(p) \/ Judge(p) \/ Stat(p) \/ Reclaim(p)
               \/ TimeOut(p) \/ LoadFresh(p) \/ KeepView(p) \/ Throw(p) \/ Write(p)
               \/ Release(p) \/ Unlock(p) \/ Watchdog(p) \/ Sweep(p) \/ Signal(p)
        PROVE  cache' = cache
    BY <2>6 DEF Open, WritePayload, Judge, Stat, Reclaim, TimeOut, LoadFresh, KeepView,
                Throw, Write, Release, Unlock, Watchdog, Sweep, Signal
  <2>7. ASSUME \/ \E edits \in BOOLEAN : Mutate(p, edits)
               \/ \E c \in Calls : Call(p, c) \/ LoadCached(p, c) \/ Read(p, c)
        PROVE  cache' = cache
    BY <2>7 DEF Mutate, Call, LoadCached, Read
  <2>8. QED
    BY <1>4, <2>1, <2>2, <2>3, <2>4, <2>5, <2>6, <2>7 DEF ProcStep
<1>5. QED
  BY <1>2, <1>3, <1>4

\* A process that waits while another takes a step.
LEMMA WaitingOkStep ==
  ASSUME Shape, NewVersion, ViewsTrue, NEW p \in Procs, ProcStep(p),
         NEW q \in Procs, q # p
  PROVE  CachingOk(q)' /\ ViewOk(q)'
<1> USE DEF Shape
<1>1. CachingOk(q) /\ ViewOk(q)
  BY DEF ViewsTrue
<1>2. current'[q] = current[q] /\ phase'[q] = phase[q]
  BY StepElsewhere DEF Elsewhere
<1>3. phase[q] # "idle" => /\ current[q] \in Calls /\ Home[current[q]] = q
                           /\ view'[current[q]] = view[current[q]]
  BY OwnCurrent, StepElsewhere DEF Elsewhere
<1>4. Saving(q)' => Saving(q)
  BY <1>2, <1>3, OwnsBack DEF Saving
<1>5. moved'[q] = moved[q]
  BY MovedFromDisk
<1>6. CASE Rename(p)
  <2>1. /\ current[p] \in Calls /\ Home[current[p]] = p /\ Unwritten(current[p])
        /\ versions' = [versions EXCEPT ![current[p]] = Wanted(p)]
        /\ disk' = current[p] /\ lock' = lock
        /\ outside' = IF Owns(p) THEN outside ELSE outside \cup {current[p]}
    BY <1>6, OwnCurrent DEF Rename, Unwritten, Before
  <2>2. CachingOk(q)'
    BY <1>1, <1>2, <1>3, <2>1 DEF CachingOk, Wanted, DiskTypes
  <2>3. SUFFICES ASSUME Saving(q)' PROVE Covers(q, disk)' /\ Covers(q, moved[q])'
    BY <2>2 DEF ViewOk
  <2>4. disk' \in outside'
    BY <1>4, <2>1, <2>3 DEF Saving, Owns
  <2>5. Covers(q, moved[q]) /\ Wanted(q)' = Wanted(q)
    BY <1>1, <1>2, <1>3, <1>4, <2>3 DEF ViewOk, Saving, Wanted
  <2>6. moved[q] # current[p]
    BY <2>1 DEF NewVersion, VersionIsNew
  <2>7. Content(moved[q])' = Content(moved[q])
    BY <1>5, <2>1, <2>6 DEF Content, DiskTypes
  <2>8. QED
    BY <1>5, <2>1, <2>4, <2>5, <2>7 DEF Covers
<1>7. CASE ~Rename(p)
  <2>1. UNCHANGED <<versions, outside>> /\ disk' \in {disk, None}
    BY <1>7, DiskKept
  <2>2. CachingOk(q)'
    BY <1>1, <1>2, <1>3, <2>1 DEF CachingOk, Wanted
  <2>3. SUFFICES ASSUME Saving(q)' PROVE Covers(q, disk)' /\ Covers(q, moved[q])'
    BY <2>2 DEF ViewOk
  <2>4. Covers(q, disk) /\ Covers(q, moved[q]) /\ Wanted(q)' = Wanted(q)
    BY <1>1, <1>2, <1>3, <1>4, <2>3 DEF ViewOk, Saving, Wanted
  <2>5. Content(disk)' = Content(disk) \/ Content(disk)' = {}
    BY <2>1 DEF Content
  <2>6. disk' = None => Content(disk)' = {}
    BY DEF Content
  <2>7. Content(moved[q])' = Content(moved[q])
    BY <1>5, <2>1 DEF Content
  <2>8. QED
    BY <1>5, <2>1, <2>4, <2>5, <2>6, <2>7 DEF Covers
<1>8. QED
  BY <1>6, <1>7

\* A step that leaves the task of p where it was.
LEMMA StaysOk ==
  ASSUME Shape, ViewsTrue, NEW p \in Procs,
         phase'[p] = phase[p], current'[p] = current[p],
         phase[p] # "idle" => view'[current[p]] = view[current[p]],
         UNCHANGED <<disk, versions, outside, moved>>, Owns(p)' => Owns(p)
  PROVE  CachingOk(p)' /\ ViewOk(p)'
<1>1. CachingOk(p) /\ ViewOk(p)
  BY DEF ViewsTrue
<1>2. phase[p] # "idle" => Wanted(p)' = Wanted(p)
  BY DEF Wanted
<1>3. Saving(p)' => Saving(p) /\ phase[p] # "idle"
  BY DEF Saving
<1>4. Content(disk)' = Content(disk) /\ Content(moved[p])' = Content(moved[p])
  BY DEF Content
<1>5. QED
  BY <1>1, <1>2, <1>3, <1>4 DEF CachingOk, ViewOk, Covers

\* A call that joins the queue of p changes nothing for the task of p.
LEMMA EnqueueOk ==
  ASSUME Shape, ViewsTrue, NEW p \in Procs, NEW c \in Calls, Enqueue(p, c),
         status[c] = "new", \A d \in Calls : d # c => view'[d] = view[d],
         UNCHANGED <<disk, versions, outside, moved, lock, held>>
  PROVE  CachingOk(p)' /\ ViewOk(p)'
<1> USE DEF Shape
<1>1. CASE current[p] = None
  BY <1>1 DEF Enqueue, TaskTypes, CachingOk, ViewOk, Saving
<1>2. CASE current[p] # None
  <2>1. phase'[p] = phase[p] /\ current'[p] = current[p] /\ (Owns(p)' => Owns(p))
    BY <1>2 DEF Enqueue, Owns
  <2>2. phase[p] # "idle" => view'[current[p]] = view[current[p]]
    BY OwnCurrent
  <2>3. QED
    BY <2>1, <2>2, StaysOk
<1>3. QED
  BY <1>1, <1>2

\* The end of a load of p.
LEMMA LoadedOk ==
  ASSUME Shape, ViewsTrue, NEW p \in Procs, NEW c \in Calls, NEW v \in View,
         Loaded(p, c, v), UNCHANGED <<disk, versions, outside, moved, lock, held>>,
         \/ Kind[c] = "beat" /\ status[c] = "new"
         \/ Kind[c] = "route" /\ c = current[p] /\ phase[p] = "loading",
         ~v.torn => Content(disk) \subseteq v.content
  PROVE  CachingOk(p)' /\ ViewOk(p)'
<1> USE DEF Shape
<1>1. CASE Kind[c] = "beat" /\ Base \notin v.content
  <2>1. UNCHANGED <<phase, current, view>> /\ (Owns(p)' => Owns(p))
    BY <1>1 DEF Loaded, Owns
  <2>2. QED
    BY <2>1, StaysOk
<1>2. CASE Kind[c] = "beat" /\ Base \in v.content
  <2>1. Enqueue(p, c) /\ \A d \in Calls : d # c => view'[d] = view[d]
    BY <1>2 DEF Loaded, CallTypes
  <2>2. QED
    BY <1>2, <2>1, EnqueueOk
<1>3. CASE Kind[c] # "beat"
  <2>1. /\ view' = [view EXCEPT ![c] = v] /\ phase' = [phase EXCEPT ![p] = "mutating"]
        /\ current' = current /\ c = current[p]
    BY <1>3 DEF Loaded
  <2>2. view'[current'[p]] = v /\ phase'[p] = "mutating"
    BY <2>1 DEF CallTypes, TaskTypes
  <2>3. Content(disk)' = Content(disk) /\ Content(moved[p])' = {}
    BY <1>3 DEF Content, ViewsTrue, MovedOk
  <2>4. QED
    BY <2>2, <2>3 DEF CachingOk, ViewOk, Covers, Saving, Wanted
<1>4. QED
  BY <1>1, <1>2, <1>3

\* The process that takes the step: what it has in its hands.
LEMMA OwnViewStep ==
  ASSUME Shape, ViewsTrue, NEW p \in Procs, ProcStep(p)
  PROVE  CachingOk(p)' /\ ViewOk(p)'
<1> USE DEF Shape
<1> DEFINE Away == phase'[p] \notin {"mutating", "deciding", "renaming", "caching"}
<1>1. Away => CachingOk(p)' /\ ViewOk(p)'
  BY DEF CachingOk, ViewOk, Saving
<1>2. ASSUME \/ Open(p) \/ WritePayload(p) \/ Judge(p) \/ Stat(p) \/ Reclaim(p)
             \/ Throw(p) \/ Skip(p) \/ Recache(p) \/ Crash(p) \/ Exit(p)
      PROVE  Away
  BY <1>2 DEF Open, WritePayload, Judge, Stat, Reclaim, Throw, Skip, Recache, Crash,
              Exit, Vanish, TaskTypes
<1>3. ASSUME TimeOut(p) \/ Release(p) \/ Unlock(p)
      PROVE  Away
  BY <1>3 DEF TimeOut, Release, Unlock, Settle, TaskTypes
<1>4. ASSUME Watchdog(p) \/ Sweep(p) \/ Signal(p) \/ \E c \in Calls : Read(p, c)
      PROVE  CachingOk(p)' /\ ViewOk(p)'
  <2>1. /\ UNCHANGED <<phase, current, view, disk, versions, outside, moved>>
        /\ Owns(p)' => Owns(p)
    BY <1>4 DEF Watchdog, Sweep, Signal, Read, Owns, LockTypes
  <2>2. QED
    BY <2>1, StaysOk
<1>5. ASSUME NEW c \in Calls, Call(p, c) PROVE CachingOk(p)' /\ ViewOk(p)'
  BY <1>5, EnqueueOk DEF Call
<1>6. ASSUME NEW c \in Calls, LoadCached(p, c) PROVE CachingOk(p)' /\ ViewOk(p)'
  <2> DEFINE v == [content |-> cache[p].content, torn |-> cache[p].torn]
  <2>1. /\ Loaded(p, c, v) /\ UNCHANGED <<disk, versions, outside, moved, lock, held>>
        /\ v \in View /\ cache[p] # None /\ cache[p].by = disk
    BY <1>6, CachedView DEF LoadCached, Hit
  <2>2. \/ Kind[c] = "beat" /\ status[c] = "new"
        \/ Kind[c] = "route" /\ c = current[p] /\ phase[p] = "loading"
    BY <1>6 DEF LoadCached, MayLoad
  <2>3. ~cache[p].torn => Content(disk) \subseteq cache[p].content
    BY <2>1 DEF ViewsTrue, CacheOk, Content
  <2>4. QED
    BY <2>1, <2>2, <2>3, LoadedOk
<1>7. ASSUME StatAfterRead(p) PROVE CachingOk(p)' /\ ViewOk(p)'
  <2> DEFINE read == look[p].by
             stat == IF disk = None \/ read = None THEN read ELSE disk
             v == [content |-> Content(read), torn |-> disk \notin {read, None}]
  <2>1. /\ Loaded(p, look[p].call, v) /\ look[p] # None
        /\ UNCHANGED <<disk, versions, outside, moved, lock, held>>
    BY <1>7 DEF StatAfterRead
  <2>2. /\ look[p].call \in Calls /\ read \in Versions \cup {None}
        /\ \/ Kind[look[p].call] = "beat" /\ status[look[p].call] = "new"
           \/ /\ Kind[look[p].call] = "route"
              /\ look[p].call = current[p] /\ phase[p] = "loading"
    BY <2>1, LookedOwn
  <2>3. v \in View
    BY <2>2, ContentType DEF View
  <2>4. disk \in {read, None} => Content(disk) \subseteq Content(read)
    BY DEF Content
  <2>5. ~v.torn => Content(disk) \subseteq v.content
    BY <2>4
  <2>6. QED
    BY <2>1, <2>2, <2>3, <2>5, LoadedOk
<1>8. ASSUME LoadFresh(p) PROVE CachingOk(p)' /\ ViewOk(p)'
  <2>1. /\ view'[current'[p]].content = Content(disk) /\ phase'[p] = "mutating"
        /\ disk' = disk /\ versions' = versions /\ moved' = moved
        /\ phase[p] = "loading"
    BY <1>8, OwnCurrent DEF LoadFresh, CallTypes, TaskTypes
  <2>2. Content(disk)' = Content(disk) /\ Content(moved[p])' = {}
    BY <2>1 DEF Content, ViewsTrue, MovedOk
  <2>3. QED
    BY <2>1, <2>2 DEF CachingOk, ViewOk, Covers, Wanted
<1>9. ASSUME KeepView(p) PROVE CachingOk(p)' /\ ViewOk(p)'
  BY <1>9 DEF KeepView, TaskTypes, CachingOk, ViewOk, Saving
<1>10. ASSUME Write(p) PROVE CachingOk(p)' /\ ViewOk(p)'
  <2>1. /\ UNCHANGED <<current, view, disk, versions, outside, moved, lock, held>>
        /\ phase[p] = "deciding" /\ phase'[p] = "renaming"
    BY <1>10 DEF Write, TaskTypes
  <2>2. Saving(p)' => Saving(p)
    BY <2>1 DEF Saving, Owns
  <2>3. /\ Wanted(p)' = Wanted(p) /\ Content(disk)' = Content(disk)
        /\ Content(moved[p])' = Content(moved[p])
    BY <2>1 DEF Wanted, Content
  <2>4. QED
    BY <2>1, <2>2, <2>3 DEF ViewsTrue, CachingOk, ViewOk, Covers
<1>11. ASSUME NEW edits \in BOOLEAN, Mutate(p, edits)
       PROVE  CachingOk(p)' /\ ViewOk(p)'
  <2>1. /\ UNCHANGED <<current, versions, outside, lock, held>>
        /\ phase[p] = "mutating" /\ phase'[p] = "deciding" /\ current[p] \in Calls
        /\ disk' \in {disk, None} /\ moved'[p] \in {moved[p], disk}
    BY <1>11, OwnCurrent DEF Mutate, TaskTypes, DiskTypes
  <2>2. /\ view'[current[p]].torn = view[current[p]].torn
        /\ view[current[p]].content \subseteq view'[current[p]].content
    BY <1>11, <2>1 DEF Mutate, CallTypes, View
  <2>3. Saving(p)' => Saving(p)
    BY <2>1, <2>2 DEF Saving, Owns
  <2>4. /\ (Content(disk)' = Content(disk) /\ disk' = disk) \/ Content(disk)' = {}
        /\ \/ Content(moved[p])' = Content(moved[p]) /\ moved'[p] = moved[p]
           \/ Content(moved[p])' = Content(disk) /\ moved'[p] = disk
    BY <2>1 DEF Content
  <2>5. Wanted(p) \subseteq Wanted(p)'
    BY <2>1, <2>2 DEF Wanted
  <2>6. SUFFICES ASSUME Saving(p)' PROVE Covers(p, disk)' /\ Covers(p, moved[p])'
    BY <2>1 DEF CachingOk, ViewOk
  <2>7. Covers(p, disk) /\ Covers(p, moved[p])
    BY <2>3, <2>6 DEF ViewsTrue, ViewOk
  <2>8. Covers(p, disk)'
    BY <2>1, <2>4, <2>5, <2>7 DEF Covers
  <2>9. Covers(p, moved[p])'
    BY <2>1, <2>4, <2>5, <2>7 DEF Covers
  <2>10. QED
    BY <2>8, <2>9
<1>12. ASSUME Rename(p) PROVE CachingOk(p)' /\ ViewOk(p)'
  <2>1. /\ versions'[current[p]] = Wanted(p) /\ UNCHANGED <<current, view>>
        /\ phase'[p] = "caching"
    BY <1>12, OwnCurrent DEF Rename, TaskTypes, DiskTypes
  <2>2. QED
    BY <2>1 DEF CachingOk, ViewOk, Saving, Wanted
<1>13. QED
  BY <1>1, <1>2, <1>3, <1>4, <1>5, <1>6, <1>7, <1>8, <1>9, <1>10, <1>11, <1>12
  DEF ProcStep

\* A backup ends with the write, or with the save.
LEMMA MovedOkStep ==
  ASSUME Shape, ViewsTrue, NEW p \in Procs, ProcStep(p), NEW q \in Procs
  PROVE  MovedOk(q)'
<1> USE DEF Shape
<1>1. MovedOk(q)
  BY DEF ViewsTrue
<1>2. CASE q # p
  BY <1>1, <1>2, StepElsewhere, MovedFromDisk DEF MovedOk, Elsewhere
<1>3. CASE q = p
  <2> DEFINE Rests == /\ moved' = moved
                      /\ phase'[p] = phase[p] \/ phase[p] \notin {"deciding", "renaming"}
  <2>1. Rests => MovedOk(p)'
    BY <1>1, <1>3 DEF MovedOk
  <2>2. ASSUME NEW edits \in BOOLEAN, Mutate(p, edits) PROVE MovedOk(p)'
    BY <2>2 DEF Mutate, TaskTypes, MovedOk
  <2>3. ASSUME Skip(p) \/ Rename(p) PROVE MovedOk(p)'
    BY <2>3 DEF Skip, Rename, DiskTypes, MovedOk
  <2>4. ASSUME Crash(p) \/ Exit(p) PROVE MovedOk(p)'
    BY <2>4 DEF Crash, Exit, Vanish, DiskTypes, MovedOk
  <2>5. ASSUME Write(p) PROVE MovedOk(p)'
    BY <2>5 DEF Write, TaskTypes, MovedOk
  <2>6. ASSUME \/ Open(p) \/ WritePayload(p) \/ Judge(p) \/ Stat(p) \/ Reclaim(p)
               \/ TimeOut(p) \/ LoadFresh(p) \/ KeepView(p) \/ Throw(p)
               \/ Recache(p) \/ Release(p) \/ Unlock(p)
               \/ Watchdog(p) \/ Sweep(p) \/ Signal(p)
        PROVE  Rests
    BY <2>6 DEF Open, WritePayload, Judge, Stat, Reclaim, TimeOut, LoadFresh, KeepView,
                Throw, Recache, Release, Unlock, Watchdog, Sweep, Signal
  <2>7. ASSUME NEW c \in Calls, Call(p, c) \/ Read(p, c) PROVE Rests
    BY <2>7 DEF Call, Read, Enqueue, TaskTypes
  <2>8. ASSUME NEW c \in Calls, LoadCached(p, c) PROVE Rests
    BY <2>8 DEF LoadCached, MayLoad, Loaded, Enqueue, TaskTypes
  <2>9. ASSUME StatAfterRead(p) PROVE Rests
    <3>1. PICK v \in View : Loaded(p, look[p].call, v)
      BY <2>9, StatLoads
    <3>2. moved' = moved /\ (Kind[look[p].call] = "beat" \/ phase[p] = "loading")
      BY <2>9, LookedOwn DEF StatAfterRead
    <3>3. QED
      BY <3>1, <3>2 DEF Loaded, Enqueue, TaskTypes
  <2>10. QED
    BY <1>3, <2>1, <2>2, <2>3, <2>4, <2>5, <2>6, <2>7, <2>8, <2>9 DEF ProcStep
<1>4. QED
  BY <1>2, <1>3

\* Caches and views stay true.
LEMMA ViewsStep ==
  ASSUME Shape, NewVersion, ViewsTrue, [Next]_vars
  PROVE  ViewsTrue'
<1>1. ASSUME NEW p \in Procs, ProcStep(p) PROVE ViewsTrue'
  <2>1. SUFFICES ASSUME NEW q \in Procs
                 PROVE  CacheOk(q)' /\ CachingOk(q)' /\ MovedOk(q)' /\ ViewOk(q)'
    BY DEF ViewsTrue
  <2>2. CacheOk(q)'
    BY <1>1, CacheOkStep
  <2>3. CachingOk(q)' /\ ViewOk(q)'
    BY <1>1, OwnViewStep, WaitingOkStep
  <2>4. MovedOk(q)'
    BY <1>1, MovedOkStep
  <2>5. QED
    BY <2>2, <2>3, <2>4
<1>2. ASSUME Age \/ UNCHANGED vars PROVE ViewsTrue'
  <2>1. SUFFICES ASSUME NEW q \in Procs
                 PROVE  CacheOk(q)' /\ CachingOk(q)' /\ MovedOk(q)' /\ ViewOk(q)'
    BY DEF ViewsTrue
  <2>2. /\ UNCHANGED <<phase, current, view, cache, held, disk, versions, outside, moved>>
        /\ lock' = lock \/ (lock # None /\ lock' = [lock EXCEPT !.old = TRUE])
    BY <1>2 DEF Age, vars
  <2>3. Owns(q)' => Owns(q)
    BY <2>2 DEF Owns, Shape, LockTypes, LockFile
  <2>4. CacheOk(q)' /\ MovedOk(q)'
    BY <2>2 DEF ViewsTrue, CacheOk, MovedOk
  <2>5. QED
    BY <2>2, <2>3, <2>4, StaysOk
<1>3. QED
  BY <1>1, <1>2 DEF Next, Rest

\* The inductive invariant.
IInv ==
  Shape /\ SpentTypes /\ FileHasKeeper /\ LockFollows /\ NewVersion /\ ViewsTrue

\* It holds at first,
LEMMA InitIInv == Init => IInv
<1> SUFFICES ASSUME Init PROVE IInv
  OBVIOUS
<1>1. TaskTypes /\ CallTypes
  BY DEF Init, TaskTypes, CallTypes, View, Blank, Phases, Statuses
<1>2. LockTypes /\ CacheTypes /\ SpentTypes
  BY DEF Init, LockTypes, CacheTypes, SpentTypes
<1>3. DiskTypes
  BY DEF Init, DiskTypes
<1>4. QueueShape /\ LookShape
  BY DEF Init, QueueShape, LookShape, OwnTask, OwnQueue, OwnLook
<1>5. FileHasKeeper /\ LockFollows
  BY DEF Init, FileHasKeeper, LockFollows, FileFollows, TaskFollows, Working, InsidePhases
<1>6. NewVersion
  BY DEF Init, NewVersion, VersionIsNew
<1>7. ViewsTrue
  BY DEF Init, ViewsTrue, CacheOk, CachingOk, MovedOk, ViewOk, Saving
<1>8. QED
  BY <1>1, <1>2, <1>3, <1>4, <1>5, <1>6, <1>7 DEF IInv, Shape

\* every step keeps it,
LEMMA NextIInv ==
  ASSUME IInv, [Next]_vars
  PROVE  IInv'
<1>1. /\ Shape /\ SpentTypes /\ FileHasKeeper /\ LockFollows /\ NewVersion
      /\ ViewsTrue
  BY DEF IInv
<1>2. TaskTypes' /\ CallTypes' /\ CacheTypes' /\ DiskTypes' /\ LookShape'
  BY <1>1, TaskStep, CallStep, CacheStep, DiskStep, LookStep DEF Shape
<1>3. LockTypes' /\ QueueShape' /\ SpentTypes'
  BY <1>1, LockStep, QueueStep, SpentStep DEF Shape
<1>4. FileHasKeeper' /\ LockFollows' /\ NewVersion'
  BY <1>1, KeeperStep, FollowStep, NewVersionStep DEF Shape
<1>5. ViewsTrue'
  BY <1>1, ViewsStep
<1>6. QED
  BY <1>2, <1>3, <1>4, <1>5 DEF IInv, Shape

\* so it always holds.
LEMMA Invariance == Spec => []IInv
<1>1. Init => IInv
  BY InitIInv
<1>2. IInv /\ [Next]_vars => IInv'
  BY NextIInv
<1>3. QED
  BY <1>1, <1>2, PTL DEF Spec

\* The invariant gives the properties: while all is calm, a task inside the
\* lock finds its own process in the lock file.
LEMMA IInvSound == IInv => StoreSound
<1> SUFFICES ASSUME IInv PROVE StoreSound
  OBVIOUS
<1>1. TypeOK
  BY DEF IInv, Shape, TaskTypes, CallTypes, LockTypes, CacheTypes, DiskTypes,
         SpentTypes, TypeOK
<1>2. OneInside
  <2>1. SUFFICES ASSUME Calm, NEW p \in Procs, NEW q \in Procs, Inside(p), Inside(q)
                 PROVE  p = q
    BY DEF OneInside, Calm
  <2>2. lock.by = p /\ lock.by = q
    BY <2>1 DEF IInv, LockFollows, TaskFollows, Working, Inside
  <2>3. QED
    BY <2>2
<1>3. QED
  BY <1>1, <1>2 DEF StoreSound, IInv

(* The store, its caches and its lock keep their types; the lock excludes  *)
(* unless a lock file has outlived staleMs, was left behind or was removed *)
(* by a signal under a process that went on; and a store that is missing   *)
(* has a save under way, a death or a skipped save behind it:              *)
(* acquireSessionWriteLock, releaseAllLocksSync, updateSessionStore and    *)
(* the rotation before the write, for any number of processes and calls.   *)
THEOREM StoreIsSound == Spec => []StoreSound
<1>1. IInv => StoreSound
  BY IInvSound
<1>2. QED
  BY <1>1, Invariance, PTL

\* A write that makes the store show less has a cause.
LEMMA WriteDrops ==
  ASSUME IInv, NEW p \in Procs, Rename(p), ~(Shown \subseteq Shown')
  PROVE  DropCause(p)
<1> SUFFICES ASSUME ~DropCause(p) PROVE FALSE
  OBVIOUS
<1>1. Shape /\ ViewOk(p)
  BY DEF IInv, ViewsTrue
<1>2. Saving(p)
  BY DEF Saving, Rename, DropCause
<1>3. Content(disk) \subseteq Wanted(p) /\ Content(moved[p]) \subseteq Wanted(p)
  BY <1>1, <1>2 DEF ViewOk, Covers, DropCause
<1>4. \A q \in Procs : q # p => Content(moved[q]) = {}
  BY DEF DropCause, Content
<1>5. Shown \subseteq Wanted(p)
  BY <1>3, <1>4 DEF Shown
<1>6. current[p] \in Calls
  BY <1>1, CurrentCall DEF Shape, Rename
<1>7. Shown' = Wanted(p)
  BY <1>1, <1>6 DEF Rename, Shown, Content, Shape, DiskTypes
<1>8. QED
  BY <1>5, <1>7

\* A backup takes nothing out of what the store shows.
LEMMA BackupShows ==
  ASSUME IInv, NEW p \in Procs, NEW edits \in BOOLEAN, Mutate(p, edits)
  PROVE  Shown \subseteq Shown'
<1>1. DiskTypes /\ moved[p] = None /\ versions' = versions
  BY DEF IInv, Shape, ViewsTrue, MovedOk, Mutate
<1>2. CASE Oversized
  <2>1. /\ disk # None /\ disk' = None /\ moved'[p] = disk
    BY <1>1, <1>2 DEF Mutate, Oversized, DiskTypes
  <2>2. Content(moved[p])' = Content(disk) /\ Shown = Content(disk)
    BY <1>1, <2>1 DEF Content, Shown
  <2>3. QED
    BY <2>1, <2>2 DEF Shown
<1>3. CASE ~Oversized
  BY <1>1, <1>3 DEF Mutate, Shown, Content
<1>4. QED
  BY <1>2, <1>3

\* Nor does the end of a save that has made no backup.
LEMMA EndShows ==
  ASSUME IInv, NEW p \in Procs, Skip(p) \/ Crash(p) \/ Exit(p), moved[p] = None
  PROVE  Shown' = Shown
<1>1. DiskTypes
  BY DEF IInv, Shape
<1>2. UNCHANGED <<disk, versions>> /\ moved' = [moved EXCEPT ![p] = None]
  BY DEF Skip, Crash, Exit, Vanish
<1>3. UNCHANGED <<disk, versions, moved>>
  BY <1>1, <1>2 DEF DiskTypes
<1>4. QED
  BY ONLY <1>3 DEF Shown, Content

\* All other steps leave what the store shows.
LEMMA OthersShow ==
  ASSUME IInv, NEW p \in Procs, ProcStep(p),
         ~(Rename(p) \/ Skip(p) \/ Crash(p) \/ Exit(p))
  PROVE  Shown \subseteq Shown'
<1>1. UNCHANGED diskVars => Shown' = Shown
  BY DEF Shown, Content
<1>2. ASSUME \/ Open(p) \/ WritePayload(p) \/ Judge(p) \/ Stat(p) \/ Reclaim(p)
             \/ TimeOut(p) \/ LoadFresh(p) \/ KeepView(p) \/ StatAfterRead(p)
             \/ Throw(p) \/ Write(p) \/ Recache(p) \/ Release(p) \/ Unlock(p)
             \/ Watchdog(p) \/ Sweep(p) \/ Signal(p)
      PROVE  UNCHANGED diskVars
  BY <1>2 DEF Open, WritePayload, Judge, Stat, Reclaim, TimeOut, LoadFresh, KeepView,
              StatAfterRead, Throw, Write, Recache, Release, Unlock, Watchdog, Sweep,
              Signal
<1>3. ASSUME NEW c \in Calls, Call(p, c) \/ LoadCached(p, c) \/ Read(p, c)
      PROVE  UNCHANGED diskVars
  BY <1>3 DEF Call, LoadCached, Read
<1>4. QED
  BY <1>1, <1>2, <1>3, BackupShows DEF ProcStep

(* A step after which the store shows fewer edits is a write without the   *)
(* lock, over a version written without it, of a heartbeat, from a torn    *)
(* load or while another process has moved the store away, or it is the    *)
(* end of a save between backup and write: an owner of the lock that       *)
(* loaded the store has all of it in its hands, from the disk or from a    *)
(* cache whose stat matches, and carries it over the rotation too          *)
(* (saveSessionStoreUnlocked).                                             *)
THEOREM DropsNeedCause == Spec => DropsHaveCause
<1> DEFINE Causes ==
      ~(Shown \subseteq Shown') =>
        \E p \in Procs :
          \/ Rename(p) /\ DropCause(p)
          \/ moved[p] # None /\ (Skip(p) \/ Crash(p) \/ Exit(p))
<1>1. ASSUME IInv, NEW p \in Procs, ProcStep(p) PROVE Causes
  BY <1>1, WriteDrops, EndShows, OthersShow
<1>2. ASSUME Age \/ Rest PROVE Causes
  BY <1>2 DEF Age, Rest, vars, Shown, Content
<1>3. IInv /\ [Next]_vars => [Causes]_vars
  BY <1>1, <1>2 DEF Next
<1>4. QED
  BY <1>3, Invariance, PTL DEF Spec, DropsHaveCause
===========================================================================
