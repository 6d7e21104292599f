--------------------------- MODULE GatewayLock ---------------------------
(***************************************************************************)
(* The lock file of the gateway, infra/gateway-lock.ts, contended by       *)
(* several gateway processes, and the port each of them binds afterwards   *)
(* (gateway/server/http-listen.ts).                                        *)
(*                                                                         *)
(* acquireGatewayLock awaits between opening the file, writing it, reading *)
(* the owner's payload, probing the owner, and removing a stale file: the  *)
(* processes interleave at each of these awaits.                           *)
(***************************************************************************)
EXTENDS Naturals, FiniteSets

CONSTANTS
  Procs,      \* gateway processes, each with a pid of its own
  Nobody,     \* not a process
  ProbePort,  \* does the caller pass the port (the gateway command does)
  ReadsProc   \* can a process read what /proc says of another

ASSUME NobodyType == Nobody \notin Procs
ASSUME SwitchType == ProbePort \in BOOLEAN /\ ReadsProc \in BOOLEAN

VARIABLES
  pc,        \* where each process is in its life
  file,      \* the lock file: who created it, is its payload written, its age
  seen,      \* the payload a process has read and not judged: its owner, its age
  listener,  \* the process that has bound the port
  verdict,   \* history: whose file a process found stale, and on what ground
  stolen     \* history: processes whose lock another one removed

lockVars == <<pc, file, seen, listener, verdict, stolen>>

NoPayload == [by |-> Nobody, old |-> FALSE]
NoVerdict == [on |-> Nobody, portFree |-> FALSE]
NoFile == [by |-> Nobody, written |-> FALSE, old |-> FALSE]
Stage == {"new", "opening", "writing", "reading", "probing", "statting",
          "removing", "locked", "serving", "releasing", "gone"}

LockTypeOK ==
  /\ pc \in [Procs -> Stage]
  /\ file \in [by : Procs \cup {Nobody}, written : BOOLEAN, old : BOOLEAN]
  /\ file.by = Nobody => file = NoFile
  /\ seen \in [Procs -> [by : Procs \cup {Nobody}, old : BOOLEAN]]
  /\ verdict \in [Procs -> [on : Procs \cup {Nobody}, portFree : BOOLEAN]]
  /\ listener \in Procs \cup {Nobody}
  /\ stolen \subseteq Procs

LockInit ==
  /\ pc = [p \in Procs |-> "new"]
  /\ file = NoFile
  /\ seen = [p \in Procs |-> NoPayload]
  /\ listener = Nobody
  /\ verdict = [p \in Procs |-> NoVerdict]
  /\ stolen = {}

Goto(p, stage) == pc' = [pc EXCEPT ![p] = stage]
Running(p) == pc[p] \notin {"new", "gone"}
Holds(p) == pc[p] \in {"locked", "serving"}
---------------------------------------------------------------------------
(* acquireGatewayLock *)

Start(p) ==
  /\ pc[p] = "new"
  /\ Goto(p, "opening")
  /\ UNCHANGED <<file, seen, listener, verdict, stolen>>

\* Mutant: the file is opened with the flag "w".
OpenShared(p) ==
  /\ pc[p] = "opening"
  /\ file' = [NoFile EXCEPT !.by = p]
  /\ Goto(p, "writing")
  /\ UNCHANGED <<seen, listener, verdict, stolen>>

\* open with the flag "wx": only one process creates the file.
Open(p) ==
  /\ pc[p] = "opening"
  /\ IF file = NoFile
     THEN file' = [NoFile EXCEPT !.by = p] /\ Goto(p, "writing")
     ELSE Goto(p, "reading") /\ UNCHANGED file
  /\ UNCHANGED <<seen, listener, verdict, stolen>>

\* Mutant: the payload goes to whatever file the name leads to.
WriteByName(p) ==
  /\ pc[p] = "writing"
  /\ \/ Goto(p, "locked") /\ file' = [file EXCEPT !.written = TRUE]
     \/ Goto(p, "gone") /\ UNCHANGED file
  /\ UNCHANGED <<seen, listener, verdict, stolen>>

\* The payload goes to the file the process opened, whether or not its name
\* still leads to it.  A failed write leaves the file behind.
Write(p) ==
  /\ pc[p] = "writing"
  /\ \/ /\ Goto(p, "locked")
        /\ file' = IF file.by = p THEN [file EXCEPT !.written = TRUE] ELSE file
     \/ Goto(p, "gone") /\ UNCHANGED file
  /\ UNCHANGED <<seen, listener, verdict, stolen>>

\* The owner is unknown when the file is gone, or its payload is not written.
Read(p) ==
  /\ pc[p] = "reading"
  /\ IF file.written
     THEN /\ seen' = [seen EXCEPT ![p] = [by |-> file.by, old |-> file.old]]
          /\ Goto(p, "probing")
     ELSE seen' = [seen EXCEPT ![p] = NoPayload] /\ Goto(p, "statting")
  /\ UNCHANGED <<file, listener, verdict, stolen>>

\* resolveGatewayOwnerStatus: nobody listening on the port means that the owner
\* is dead; otherwise its pid and start time tell.
OwnerStatus(q) ==
  IF (ProbePort /\ listener = Nobody) \/ ~Running(q)
  THEN {"dead"}
  ELSE {"alive"} \cup (IF ReadsProc THEN {} ELSE {"unknown"})

\* The verdict on a file: stale, and it will be removed; or not yet.
Verdict(p, stale, on, portFree) ==
  /\ Goto(p, IF stale THEN "removing" ELSE "opening")
  /\ verdict' = [verdict EXCEPT ![p] =
       IF stale THEN [on |-> on, portFree |-> portFree] ELSE NoVerdict]
  /\ seen' = [seen EXCEPT ![p] = NoPayload]

Probe(p) ==
  /\ pc[p] = "probing"
  /\ \E status \in OwnerStatus(seen[p].by) :
       IF status = "unknown"
       THEN Goto(p, "statting") /\ UNCHANGED <<seen, verdict>>
       ELSE Verdict(p, status = "dead", seen[p].by, ProbePort /\ listener = Nobody)
  /\ UNCHANGED <<file, listener, stolen>>

\* An owner that is not known is judged by the age of the payload that was
\* read, or else by that of the file now; a file that is gone is not stale.
Judge(p, stale) ==
  /\ pc[p] = "statting"
  /\ Verdict(p, stale, IF seen[p].old THEN seen[p].by ELSE file.by, FALSE)
  /\ UNCHANGED <<file, listener, stolen>>

\* Mutant: only a payload that can be read tells the age of the file.
StatPayload(p) == Judge(p, seen[p].old)

\* Mutant: a file without a payload counts as stale at any age.
StatAnyAge(p) ==
  Judge(p, seen[p].old \/ file.old \/ (seen[p].by = Nobody /\ file # NoFile))

Stat(p) == Judge(p, seen[p].old \/ file.old)

\* The file is removed by its name, whoever has created it meanwhile.
RemoveFile ==
  /\ file' = NoFile
  /\ stolen' = stolen \cup {q \in Procs : q = file.by /\ Running(q)}

RemoveStale(p) ==
  /\ pc[p] = "removing"
  /\ RemoveFile
  /\ Goto(p, "opening")
  /\ verdict' = [verdict EXCEPT ![p] = NoVerdict]
  /\ UNCHANGED <<seen, listener>>

\* The loop ends after its timeout, and the process with it.
GiveUp(p) ==
  /\ pc[p] = "opening"
  /\ Goto(p, "gone")
  /\ UNCHANGED <<file, seen, listener, verdict, stolen>>

\* A file gets older than the stale limit (30 s): by then its payload is written,
\* and those that have read the file before that have judged it.
Age ==
  /\ file # NoFile /\ ~file.old
  /\ pc[file.by] # "writing"
  /\ file.written => \A p \in Procs : pc[p] = "statting" => seen[p] # NoPayload
  /\ file' = [file EXCEPT !.old = TRUE]
  /\ UNCHANGED <<pc, seen, listener, verdict, stolen>>
---------------------------------------------------------------------------
(* With the lock: bind the port, serve, release. *)

Bind(p) ==
  /\ pc[p] = "locked"
  /\ IF listener = Nobody
     THEN listener' = p /\ Goto(p, "serving")
     ELSE Goto(p, "releasing") /\ UNCHANGED listener
  /\ UNCHANGED <<file, seen, verdict, stolen>>

CloseServer(p) ==
  /\ pc[p] = "serving"
  /\ listener' = Nobody
  /\ Goto(p, "releasing")
  /\ UNCHANGED <<file, seen, verdict, stolen>>

\* release() removes the file by its name; the process then exits, or takes the
\* lock again for a restart in place.
Release(p) ==
  /\ pc[p] = "releasing"
  /\ file' = NoFile
  /\ stolen' = stolen \cup {q \in Procs : q = file.by /\ q # p /\ Running(q)}
  /\ Goto(p, "opening") \/ Goto(p, "gone")
  /\ UNCHANGED <<seen, listener, verdict>>

Crash(p) ==
  /\ Running(p)
  /\ Goto(p, "gone")
  /\ listener' = IF listener = p THEN Nobody ELSE listener
  /\ UNCHANGED <<file, seen, verdict, stolen>>

Acquire(p) ==
  Open(p) \/ Write(p) \/ Read(p) \/ Probe(p) \/ Stat(p) \/ RemoveStale(p)

LockNext ==
  \/ \E p \in Procs :
       \/ Start(p) \/ Acquire(p) \/ GiveUp(p) \/ Bind(p) \/ CloseServer(p)
       \/ Release(p) \/ Crash(p)
  \/ Age

\* A process that acquires goes on until it holds the lock, gives up or crashes,
\* and time passes.
LockFairness == WF_lockVars(Age) /\ \A p \in Procs : WF_lockVars(Acquire(p))

LockSpec == LockInit /\ [][LockNext]_lockVars
FairLockSpec == LockSpec /\ LockFairness
---------------------------------------------------------------------------
(* Properties *)

Acquiring(p) == pc[p] \in {"opening", "writing", "reading", "probing",
                           "statting", "removing"}

\* "blocks concurrent acquisition until release" (gateway-lock.test.ts): two
\* processes do not hold the lock at the same time.
LockIsExclusive == \A p, q \in Procs : Holds(p) /\ Holds(q) => p = q

\* A process that holds the lock has its file on disk, so a second holder can
\* only come from a removal of that file: opening, writing, reading and
\* releasing, in any order, with crashes, do not make one.
HolderOwnsFile == \A p \in Procs : Holds(p) /\ p \notin stolen => file.by = p

\* What is known of the file, its owner and the holders in every state.
FileSound == LockTypeOK /\ HolderOwnsFile

\* A running process loses its file only for one of three causes: the process
\* that removes it as stale had judged the file of another, replaced since; or
\* had found the port free, for its owner was still starting or already closing;
\* or the process that releases a lock had lost its own file before.
StealNeedsCause ==
  [][\A q \in stolen' \ stolen : \E p \in Procs :
       \/ /\ pc[p] = "removing" /\ pc'[p] = "opening"
          /\ verdict[p].on # q \/ verdict[p].portFree
       \/ pc[p] = "releasing" /\ p \in stolen]_lockVars

\* A process that crashed anywhere, between creating the file and writing it
\* included, does not block those that try to acquire the lock.
CrashedOwnerIsRemoved ==
  \A q \in Procs :
    file.by = q /\ pc[q] = "gone" ~>
      file.by # q \/ \A p \in Procs : ~Acquiring(p)
===========================================================================
