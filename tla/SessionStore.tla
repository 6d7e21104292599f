--------------------------- MODULE SessionStore ---------------------------
(***************************************************************************)
(* The session store sessions.json (config/sessions/store.ts), the caches  *)
(* each process keeps of it (store-cache.ts), the queue in which a process *)
(* serializes its own calls, and the lock file that serializes processes   *)
(* (agents/session-write-lock.ts).                                         *)
(*                                                                         *)
(* The content of the store is abstracted to the set of calls whose edit   *)
(* it shows; Base stands for the sessions that were there before.  A save  *)
(* renames a new file over the old one, so a call makes one version of the *)
(* store, and the stat of the file tells which version it is.              *)
(***************************************************************************)
EXTENDS Naturals, Sequences, FiniteSets

CONSTANTS
  Procs,       \* processes that use the store: the gateway, a command line
  Calls,       \* calls of the store
  Home,        \* the process of each call
  Kind,        \* what each call is
  Base,        \* the sessions in the file at first; not a call
  None,        \* no file, no call, no cache entry, no process
  Dead,        \* the pid of a process that has ended
  RotateAbove, \* a store with more than so many edits is over rotateBytes
  StartTimes,  \* can a process read its start time (Linux)
  MaxTries,    \* bound: attempts at the lock before a call times out
  MaxAges,     \* bound: how often a lock file outlives staleMs
  Handlers,    \* processes that handle SIGTERM and SIGINT themselves: the gateway
  MaxEnds      \* bound: crashes, exits and handled signals

(* updateSessionStore, updateLastRoute, and the heartbeat's load followed  *)
(* by a save.                                                              *)
Kinds == {"update", "route", "beat"}

LockFile == [by : Procs \cup {Dead}, written : BOOLEAN, old : BOOLEAN]

ASSUME CallAssumption == Home \in [Calls -> Procs] /\ Kind \in [Calls -> Kinds]
ASSUME NameAssumption ==
  /\ Base \notin Calls /\ None \notin Calls \cup Procs \cup {Base, Dead}
  /\ Dead \notin Procs /\ None \notin LockFile
ASSUME BoundAssumption ==
  /\ {RotateAbove, MaxTries, MaxAges, MaxEnds} \subseteq Nat
  /\ StartTimes \in BOOLEAN /\ Handlers \subseteq Procs

VARIABLES
  disk,      \* the version of the store on disk
  versions,  \* what each version contains
  lock,      \* the lock file: by whom, is its payload written, is it old
  pending,   \* LOCK_QUEUES: calls that wait in each process
  current,   \* the call whose task the drain of each process runs
  phase,     \* where that task is
  tries,     \* attempts of that task at the lock
  held,      \* HELD_LOCKS has an entry for the store
  sweeping,  \* the watchdog is about to remove the lock file
  moved,     \* the version of the store the task has renamed to a backup
  view,      \* the store in the hands of each call
  cache,     \* the object cache
  serial,    \* the serialized cache
  look,      \* a load between its read and its stat
  status,    \* where each call is: see Statuses
  outside,   \* history: calls that wrote without the lock
  missing,   \* history: why there is no file
  faults,    \* history: what has befallen a lock file, see Faults
  spent      \* how much of each bound is used

callVars == <<pending, current, phase, tries, view, status>>
lockVars == <<lock, held, sweeping>>
cacheVars == <<cache, serial, look>>
diskVars == <<disk, versions, moved, outside, missing>>
faultVars == <<faults, spent>>
vars == <<callVars, lockVars, cacheVars, diskVars, faultVars>>

Versions == Calls \cup {Base}
Content(v) == IF v = None THEN {} ELSE versions[v]
Free(p) == look[p] = None
InsidePhases == {"loading", "mutating", "deciding", "renaming", "caching"}
Inside(p) == phase[p] \in InsidePhases
Owns(p) == held[p] /\ lock # None /\ lock.by = p
Wanted(p) == view[current[p]].content
Spend(bound) == spent' = [spent EXCEPT ![bound] = @ + 1]

Statuses ==   \* saved: answered with an edit; same: answered without one
  {"new", "queued", "thrown", "saved", "same", "failed", "lost"}

(* A lock file outlived staleMs, its process ended without removing it, or *)
(* a signal removed it under a process that went on.                       *)
Faults == {"aged", "left", "signalled"}

Blank == [content |-> {}, torn |-> FALSE]
View == [content : SUBSET Versions, torn : BOOLEAN]
Cached == [content : SUBSET Versions, torn : BOOLEAN, by : Versions \cup {None}]
Look == [call : Calls, by : Versions \cup {None}]
Phases == InsidePhases \cup
  {"idle", "opening", "writing", "judging", "statting", "removing",
   "releasing", "closing"}

TypeOK ==
  /\ disk \in Versions \cup {None}
  /\ versions \in [Versions -> SUBSET Versions]
  /\ lock \in LockFile \cup {None}
  /\ pending \in [Procs -> Seq(Calls)]
  /\ current \in [Procs -> Calls \cup {None}]
  /\ phase \in [Procs -> Phases]
  /\ \A p \in Procs : (phase[p] = "idle") <=> (current[p] = None)
  /\ tries \in [Procs -> 0..MaxTries]
  /\ held \in [Procs -> BOOLEAN] /\ sweeping \in [Procs -> BOOLEAN]
  /\ moved \in [Procs -> Versions \cup {None}]
  /\ view \in [Calls -> View]
  /\ cache \in [Procs -> Cached \cup {None}]
  /\ serial \in [Procs -> (SUBSET Versions) \cup {None}]
  /\ look \in [Procs -> Look \cup {None}]
  /\ status \in [Calls -> Statuses]
  /\ outside \subseteq Calls
  /\ missing \subseteq {"died", "unchanged"}
  /\ faults \subseteq Faults
  /\ spent \in [{"ages", "ends"} -> Nat]

Init ==
  /\ disk = Base
  /\ versions = [v \in Versions |-> IF v = Base THEN {Base} ELSE {}]
  /\ lock = None
  /\ pending = [p \in Procs |-> <<>>] /\ current = [p \in Procs |-> None]
  /\ phase = [p \in Procs |-> "idle"] /\ tries = [p \in Procs |-> 0]
  /\ held = [p \in Procs |-> FALSE] /\ sweeping = [p \in Procs |-> FALSE]
  /\ moved = [p \in Procs |-> None]
  /\ view = [c \in Calls |-> Blank]
  /\ cache = [p \in Procs |-> None] /\ serial = [p \in Procs |-> None]
  /\ look = [p \in Procs |-> None]
  /\ status = [c \in Calls |-> "new"]
  /\ outside = {} /\ missing = {} /\ faults = {}
  /\ spent = [bound \in {"ages", "ends"} |-> 0]

Goto(p, next) == phase' = [phase EXCEPT ![p] = next]
---------------------------------------------------------------------------
(* withSessionStoreLock: a call joins the queue, and the drain starts when *)
(* it is idle.                                                             *)

Enqueue(p, c) ==
  /\ status' = [status EXCEPT ![c] = "queued"]
  /\ IF current[p] = None
     THEN /\ current' = [current EXCEPT ![p] = c]
          /\ Goto(p, "opening")
          /\ tries' = [tries EXCEPT ![p] = 0]
          /\ UNCHANGED pending
     ELSE /\ pending' = [pending EXCEPT ![p] = Append(@, c)]
          /\ UNCHANGED <<current, phase, tries>>

Call(p, c) ==
  /\ Home[c] = p /\ status[c] = "new" /\ Kind[c] # "beat" /\ Free(p)
  /\ Enqueue(p, c)
  /\ UNCHANGED <<view, lockVars, cacheVars, diskVars, faultVars>>

(* The task of the drain ends: its call is answered and the next begins. *)
Settle(p, answer) ==
  /\ status' = [status EXCEPT ![current[p]] = answer]
  /\ view' = [view EXCEPT ![current[p]] = Blank]
  /\ tries' = [tries EXCEPT ![p] = 0]
  /\ IF pending[p] = <<>>
     THEN /\ current' = [current EXCEPT ![p] = None]
          /\ Goto(p, "idle")
          /\ UNCHANGED pending
     ELSE /\ current' = [current EXCEPT ![p] = Head(pending[p])]
          /\ pending' = [pending EXCEPT ![p] = Tail(@)]
          /\ Goto(p, "opening")

Answer(p) ==
  IF status[current[p]] = "thrown" THEN "failed"
  ELSE IF current[p] \in view[current[p]].content THEN "saved" ELSE "same"
---------------------------------------------------------------------------
(* acquireSessionWriteLock: the task of the drain takes the lock file.     *)

(* fs.open(lockPath, "wx") *)
Open(p) ==
  /\ phase[p] = "opening" /\ tries[p] < MaxTries /\ Free(p)
  /\ tries' = [tries EXCEPT ![p] = @ + 1]
  /\ IF lock = None
     THEN lock' = [by |-> p, written |-> FALSE, old |-> FALSE] /\ Goto(p, "writing")
     ELSE Goto(p, "judging") /\ UNCHANGED lock
  /\ UNCHANGED <<pending, current, view, status, held, sweeping, cacheVars,
                 diskVars, faultVars>>

(* The payload goes to the file p created, whatever the name now denotes. *)
WritePayload(p) ==
  /\ phase[p] = "writing" /\ Free(p)
  /\ lock' = IF lock # None /\ lock.by = p THEN [lock EXCEPT !.written = TRUE] ELSE lock
  /\ held' = [held EXCEPT ![p] = TRUE]
  /\ Goto(p, "loading")
  /\ UNCHANGED <<pending, current, tries, view, status, sweeping, cacheVars,
                 diskVars, faultVars>>

Orphaned(p) == lock.by = p /\ ~held[p] /\ ~StartTimes

(* readLockPayload and inspectLockPayload.  A payload that cannot be read  *)
(* leaves the verdict to the age of the file.                              *)
Judge(p) ==
  /\ phase[p] = "judging" /\ Free(p)
  /\ Goto(p, IF lock = None \/ ~lock.written THEN "statting"
             ELSE IF lock.by = Dead \/ lock.old \/ Orphaned(p) THEN "removing"
             ELSE "opening")
  /\ UNCHANGED <<pending, current, tries, view, status, lockVars, cacheVars,
                 diskVars, faultVars>>

(* Mutant: a lock file that cannot be read is removed at once. *)
StatHasty(p) ==
  /\ phase[p] = "statting" /\ Free(p)
  /\ Goto(p, IF lock # None THEN "removing" ELSE "opening")
  /\ UNCHANGED <<pending, current, tries, view, status, lockVars, cacheVars,
                 diskVars, faultVars>>

(* shouldReclaimContendedLockFile with the mtime *)
Stat(p) ==
  /\ phase[p] = "statting" /\ Free(p)
  /\ Goto(p, IF lock # None /\ lock.old THEN "removing" ELSE "opening")
  /\ UNCHANGED <<pending, current, tries, view, status, lockVars, cacheVars,
                 diskVars, faultVars>>

(* The stale file is removed by name. *)
Reclaim(p) ==
  /\ phase[p] = "removing" /\ Free(p)
  /\ lock' = None
  /\ Goto(p, "opening")
  /\ UNCHANGED <<pending, current, tries, view, status, held, sweeping,
                 cacheVars, diskVars, faultVars>>

(* timeoutMs has passed since the first attempt. *)
TimeOut(p) ==
  /\ phase[p] = "opening" /\ tries[p] > 0 /\ Free(p)
  /\ Settle(p, "failed")
  /\ UNCHANGED <<lockVars, cacheVars, diskVars, faultVars>>
---------------------------------------------------------------------------
(* loadSessionStore *)

(* Mutant: the stat of the file is not compared. *)
HitAnyVersion(p) == cache[p] # None

(* The cached store is as fresh as the file's stat says. *)
Hit(p) == cache[p] # None /\ cache[p].by = disk

(* The loads that may use the cache: of a heartbeat before it queues its   *)
(* save, and of updateLastRoute in its task.                               *)
MayLoad(p, c) ==
  \/ Home[c] = p /\ Kind[c] = "beat" /\ status[c] = "new"
  \/ c = current[p] /\ Kind[c] = "route" /\ phase[p] = "loading"

(* The store v is in the hands of c.  A heartbeat whose session is missing *)
(* records nothing.                                                        *)
Loaded(p, c, v) ==
  IF Kind[c] = "beat" /\ Base \notin v.content
  THEN /\ status' = [status EXCEPT ![c] = "failed"]
       /\ UNCHANGED <<pending, current, phase, tries, view>>
  ELSE /\ view' = [view EXCEPT ![c] = v]
       /\ IF Kind[c] = "beat" THEN Enqueue(p, c)
          ELSE Goto(p, "mutating") /\ UNCHANGED <<pending, current, tries, status>>

LoadCached(p, c) ==
  /\ Free(p) /\ MayLoad(p, c) /\ Hit(p)
  /\ Loaded(p, c, [content |-> cache[p].content, torn |-> cache[p].torn])
  /\ UNCHANGED <<lockVars, cacheVars, diskVars, faultVars>>

(* No entry, one that does not match, or one past its time to live.  The   *)
(* calls are synchronous, but other processes run between read and stat.  A *)
(* read that fails keeps the stat from before it.                          *)
Read(p, c) ==
  /\ Free(p) /\ MayLoad(p, c)
  /\ look' = [look EXCEPT ![p] = [call |-> c, by |-> disk]]
  /\ UNCHANGED <<callVars, lockVars, cache, serial, diskVars, faultVars>>

StatAfterRead(p) ==
  /\ look[p] # None
  /\ LET read == look[p].by
         stat == IF disk = None \/ read = None THEN read ELSE disk
         v == [content |-> Content(read), torn |-> disk \notin {read, None}]
     IN /\ cache' = [cache EXCEPT ![p] =
                       [content |-> v.content, torn |-> v.torn, by |-> stat]]
        /\ serial' = [serial EXCEPT ![p] = IF read = None THEN None ELSE v.content]
        /\ Loaded(p, look[p].call, v)
  /\ look' = [look EXCEPT ![p] = None]
  /\ UNCHANGED <<lockVars, diskVars, faultVars>>

(* skipCache: the load at the start of an update, inside the lock. *)
LoadFresh(p) ==
  /\ phase[p] = "loading" /\ Free(p)
  /\ Kind[current[p]] = "update"
  /\ view' = [view EXCEPT ![current[p]] = [content |-> Content(disk), torn |-> FALSE]]
  /\ serial' = [serial EXCEPT ![p] = IF disk = None THEN None ELSE Content(disk)]
  /\ Goto(p, "mutating")
  /\ UNCHANGED <<pending, current, tries, status, lockVars, cache, look,
                 diskVars, faultVars>>

(* A heartbeat saves what it loaded before. *)
KeepView(p) ==
  /\ phase[p] = "loading" /\ Free(p) /\ Kind[current[p]] = "beat"
  /\ Goto(p, "mutating")
  /\ UNCHANGED <<pending, current, tries, view, status, lockVars, cacheVars,
                 diskVars, faultVars>>
---------------------------------------------------------------------------
(* The mutator, and saveSessionStoreUnlocked *)

(* releaseHeldLock: the entry goes at once, the file later. *)
Release(p) ==
  /\ phase[p] = "releasing" /\ Free(p)
  /\ IF held[p]
     THEN /\ held' = [held EXCEPT ![p] = FALSE]
          /\ Goto(p, "closing")
          /\ UNCHANGED <<pending, current, tries, view, status>>
     ELSE /\ Settle(p, Answer(p))
          /\ UNCHANGED held
  /\ UNCHANGED <<lock, sweeping, cacheVars, diskVars, faultVars>>

(* The mutator of an update may throw, or change nothing. *)
Throw(p) ==
  /\ phase[p] = "mutating" /\ Free(p) /\ Kind[current[p]] = "update"
  /\ status' = [status EXCEPT ![current[p]] = "thrown"]
  /\ Goto(p, "releasing")
  /\ UNCHANGED <<pending, current, tries, view, lockVars, cacheVars, diskVars, faultVars>>

Oversized == disk # None /\ Cardinality(Content(disk)) > RotateAbove

(* The mutator, and the rotateSessionFile that precedes the write. *)
Mutate(p, edits) ==
  /\ phase[p] = "mutating" /\ Free(p)
  /\ edits \/ Kind[current[p]] = "update"
  /\ view' = IF edits THEN [view EXCEPT ![current[p]].content = @ \cup {current[p]}]
             ELSE view
  /\ Goto(p, "deciding")
  /\ IF Oversized
     THEN disk' = None /\ moved' = [moved EXCEPT ![p] = disk]
     ELSE UNCHANGED <<disk, moved>>
  /\ UNCHANGED <<pending, current, tries, status, lockVars, cacheVars,
                 versions, outside, missing, faultVars>>

FillCaches(p, torn) ==
  /\ cache' = [cache EXCEPT ![p] = [content |-> Wanted(p), torn |-> torn, by |-> disk]]
  /\ serial' = [serial EXCEPT ![p] = Wanted(p)]

(* The text equals what this process last read or wrote: nothing to write. *)
Skip(p) ==
  /\ phase[p] = "deciding" /\ Free(p) /\ serial[p] = Wanted(p)
  /\ FillCaches(p, Content(disk) # Wanted(p))
  /\ moved' = [moved EXCEPT ![p] = None]
  /\ missing' = IF moved[p] # None /\ disk = None THEN missing \cup {"unchanged"} ELSE missing
  /\ Goto(p, "releasing")
  /\ UNCHANGED <<pending, current, tries, view, status, lockVars, look, disk,
                 versions, outside, faultVars>>

Write(p) ==
  /\ phase[p] = "deciding" /\ Free(p) /\ serial[p] # Wanted(p)
  /\ Goto(p, "renaming")
  /\ UNCHANGED <<pending, current, tries, view, status, lockVars, cacheVars,
                 diskVars, faultVars>>

(* writeTextAtomic: the temporary file takes the place of the store. *)
Rename(p) ==
  /\ phase[p] = "renaming"
  /\ versions' = [versions EXCEPT ![current[p]] = Wanted(p)]
  /\ disk' = current[p]
  /\ moved' = [moved EXCEPT ![p] = None]
  /\ outside' = IF Owns(p) THEN outside ELSE outside \cup {current[p]}
  /\ missing' = {}
  /\ Goto(p, "caching")
  /\ UNCHANGED <<pending, current, tries, view, status, lockVars, cacheVars, faultVars>>

(* updateSessionStoreWriteCaches takes the stat after the rename. *)
Recache(p) ==
  /\ phase[p] = "caching" /\ Free(p)
  /\ FillCaches(p, disk # current[p])
  /\ Goto(p, "releasing")
  /\ UNCHANGED <<pending, current, tries, view, status, lockVars, look, diskVars,
                 faultVars>>

(* The lock file is removed by name, and the call is answered. *)
Unlock(p) ==
  /\ phase[p] = "closing" /\ Free(p)
  /\ lock' = None
  /\ Settle(p, Answer(p))
  /\ UNCHANGED <<held, sweeping, cacheVars, diskVars, faultVars>>
---------------------------------------------------------------------------
(* Time, the watchdog, and the ends of processes *)

(* staleMs passes while the lock file stays. *)
Age ==
  /\ lock # None /\ ~lock.old /\ spent.ages < MaxAges
  /\ lock' = [lock EXCEPT !.old = TRUE]
  /\ Spend("ages")
  /\ faults' = faults \cup {"aged"}
  /\ UNCHANGED <<callVars, held, sweeping, cacheVars, diskVars>>

(* runLockWatchdogCheck: a lock held longer than maxHoldMs, which is longer *)
(* than staleMs, is taken from its holder, who goes on with its task.       *)
Watchdog(p) ==
  /\ held[p] /\ ~sweeping[p] /\ Free(p)
  /\ lock # None /\ lock.by = p => lock.old
  /\ held' = [held EXCEPT ![p] = FALSE]
  /\ sweeping' = [sweeping EXCEPT ![p] = TRUE]
  /\ UNCHANGED <<callVars, lock, cacheVars, diskVars, faultVars>>

Sweep(p) ==
  /\ sweeping[p]
  /\ lock' = None
  /\ sweeping' = [sweeping EXCEPT ![p] = FALSE]
  /\ UNCHANGED <<callVars, held, cacheVars, diskVars, faultVars>>

(* The process ends with its memory, and a new one takes its place. *)
Vanish(p) ==
  /\ current[p] # None /\ spent.ends < MaxEnds
  /\ Spend("ends")
  /\ status' = [c \in Calls |->
                  IF Home[c] = p /\ status[c] \in {"queued", "thrown"} THEN "lost" ELSE status[c]]
  /\ current' = [current EXCEPT ![p] = None]
  /\ pending' = [pending EXCEPT ![p] = <<>>]
  /\ Goto(p, "idle")
  /\ tries' = [tries EXCEPT ![p] = 0]
  /\ held' = [held EXCEPT ![p] = FALSE]
  /\ sweeping' = [sweeping EXCEPT ![p] = FALSE]
  /\ moved' = [moved EXCEPT ![p] = None]
  /\ missing' = IF moved[p] # None /\ disk = None THEN missing \cup {"died"} ELSE missing
  /\ cache' = [cache EXCEPT ![p] = None]
  /\ serial' = [serial EXCEPT ![p] = None]
  /\ look' = [look EXCEPT ![p] = None]
  /\ view' = [c \in Calls |-> IF Home[c] = p THEN Blank ELSE view[c]]
  /\ UNCHANGED <<disk, versions, outside>>

(* The lock file of a process that has ended stays. *)
Leave(p) ==
  IF lock # None /\ lock.by = p
  THEN lock' = [lock EXCEPT !.by = Dead] /\ faults' = faults \cup {"left"}
  ELSE UNCHANGED <<lock, faults>>

Crash(p) == Vanish(p) /\ Leave(p)

(* releaseAllLocksSync, on exit and before a signal is raised again in a   *)
(* process that has no other handler for it, removes by name.              *)
Exit(p) ==
  /\ Free(p) /\ Vanish(p)
  /\ IF held[p] THEN lock' = None /\ UNCHANGED faults ELSE Leave(p)

(* handleTerminationSignal in a process with a handler of its own: its     *)
(* locks go as they do on exit, and the process goes on with its tasks.    *)
Signal(p) ==
  /\ p \in Handlers /\ held[p] /\ Free(p) /\ spent.ends < MaxEnds
  /\ Spend("ends")
  /\ lock' = None
  /\ held' = [held EXCEPT ![p] = FALSE]
  /\ faults' = faults \cup {"signalled"}
  /\ UNCHANGED <<callVars, sweeping, cacheVars, diskVars>>

(* Every call has been answered: nothing is left to do. *)
Rest ==
  /\ \A c \in Calls : status[c] \in {"saved", "same", "failed", "lost"}
  /\ UNCHANGED vars

ProcStep(p) ==
  \/ Open(p) \/ WritePayload(p) \/ Judge(p) \/ Stat(p) \/ Reclaim(p) \/ TimeOut(p)
  \/ LoadFresh(p) \/ KeepView(p) \/ StatAfterRead(p)
  \/ Throw(p) \/ (\E edits \in BOOLEAN : Mutate(p, edits)) \/ Skip(p) \/ Write(p) \/ Rename(p) \/ Recache(p)
  \/ Release(p) \/ Unlock(p) \/ Watchdog(p) \/ Sweep(p)
  \/ Crash(p) \/ Exit(p) \/ Signal(p)
  \/ \E c \in Calls : Call(p, c) \/ LoadCached(p, c) \/ Read(p, c)

Next == Age \/ Rest \/ \E p \in Procs : ProcStep(p)

Spec == Init /\ [][Next]_vars
---------------------------------------------------------------------------
(* Properties *)

(* The lock excludes: unless a lock file has outlived staleMs, was left    *)
(* behind by a process that ended, or was removed by a signal under a      *)
(* process that went on, at most one process is between taking the lock    *)
(* and its last write of the store.  Half-written lock files, reclaiming   *)
(* by name and exits that release must not break that.                     *)
OneInside ==
  faults = {} => \A p, q \in Procs : Inside(p) /\ Inside(q) => p = q

(* There is a store on disk except while a save is between moving the old  *)
(* one to a backup and writing the new one, after a process died there, or *)
(* after a save found nothing to write there.                              *)
FileHasKeeper == disk = None => missing # {} \/ \E p \in Procs : moved[p] # None

StoreSound == TypeOK /\ OneInside /\ FileHasKeeper

(* What the store shows, and, while a save is between moving it to the     *)
(* backup and writing the new one, what it showed.                         *)
Shown ==
  IF disk # None THEN Content(disk) ELSE UNION {Content(moved[p]) : p \in Procs}

(* Why a write may drop what the store shows: its process no longer owns   *)
(* the lock, the version it replaces was written by one that did not, the  *)
(* call is a heartbeat, which saves what it loaded before it had the lock, *)
(* it started from a load that another process's write had torn, or        *)
(* another process, without the lock, has moved the store away.            *)
DropCause(p) ==
  \/ ~Owns(p)
  \/ {disk, moved[p]} \cap outside # {}
  \/ Kind[current[p]] = "beat"
  \/ view[current[p]].torn
  \/ \E q \in Procs \ {p} : moved[q] # None

(* A step after which the store shows less has a cause: it is a write that *)
(* has one, or the end of a save between its backup and its write, which   *)
(* finds that the text has not changed or whose process ends.              *)
DropsHaveCause ==
  [][~(Shown \subseteq Shown') =>
       \E p \in Procs :
         \/ Rename(p) /\ DropCause(p)
         \/ moved[p] # None /\ (Skip(p) \/ Crash(p) \/ Exit(p))]_vars

(* Edits are not lost: when all is at rest, the store shows every edit     *)
(* whose call was answered, and the sessions that were there at first.     *)
NoDataLoss ==
  (\A p \in Procs : phase[p] = "idle") =>
    {Base} \cup {c \in Calls : status[c] = "saved"} \subseteq Content(disk)
===========================================================================
