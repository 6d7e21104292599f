--------------------------- MODULE FollowupQueue ---------------------------
(***************************************************************************)
(* The messages that arrive for a session while its agent is busy:         *)
(* auto-reply/reply/queue (enqueue, drain, state, cleanup) with the        *)
(* helpers of utils/queue-helpers.ts, for one session key.                 *)
(*                                                                         *)
(* The map FOLLOWUP_QUEUES holds the queue of the key.  A drain is an      *)
(* async loop that works on the queue OBJECT it began with, while clearing *)
(* and the end of a drain delete the queue BY KEY, so that several objects *)
(* of one key can be alive at once: they are the members of Queues, and a  *)
(* queue has at most one drain.                                            *)
(***************************************************************************)
EXTENDS Naturals, Sequences, FiniteSets, SequencesExt

CONSTANTS
  Count,      \* number of inbound messages
  IdOf,       \* IdOf[m]: its message id on the channel; a redelivery repeats it
  RouteOf,    \* RouteOf[m]: the channel, recipient and thread it came from
  Plans,      \* the settings [mode, policy, cap] that the messages come with:
              \* functions on the messages, one for each case
  Queues,     \* queue objects, reused once they are garbage
  None,       \* no queue
  MaxTurns,   \* bound: replies that do not come from the queue
  MaxFails,   \* bound: deliveries that throw
  MaxClears   \* bound: calls of clearSessionQueues

SettingsType ==
  [mode : {"collect", "followup"}, policy : {"summarize", "old", "new"}, cap : Nat \ {0}]

Messages == 1 .. Count   \* in the order they arrive

ASSUME FollowupTypes ==
  /\ Count \in Nat
  /\ DOMAIN IdOf = Messages /\ DOMAIN RouteOf = Messages
  /\ Plans \subseteq [Messages -> SettingsType]
  /\ None \notin Queues
  /\ MaxTurns \in Nat /\ MaxFails \in Nat /\ MaxClears \in Nat

\* Objects do not run out: only a clear leaves a drain behind in an object that the
\* map has lost.
ASSUME EnoughQueues == IsFiniteSet(Queues) /\ Cardinality(Queues) > MaxClears

VARIABLES
  map,        \* FOLLOWUP_QUEUES.get(key)
  queue,      \* the queue objects
  drain,      \* the drain of each object
  callback,   \* does FOLLOWUP_RUN_CALLBACKS hold a callback for the key
  turn,       \* is a reply in progress that ends with finalizeWithFollowup
  turns, fails, clears,  \* counters for the bounds
  arrived,    \* how many messages have arrived
  settings,   \* the settings that each message comes with
  inbox,      \* messages that found the agent busy and are not enqueued yet
  accepted,   \* history: messages that enqueueFollowupRun took, in order
  homes,      \* history: the object that took each of them
  delivered,  \* history: messages whose prompt was delivered, in order
  excused,    \* history: dropped as asked, reported in a summary, or cleared
  causes      \* history: what has happened that can cost a message

queueVars == <<map, queue, drain, callback>>
agentVars == <<turn, turns>>
history == <<accepted, homes, delivered, excused, causes>>
inputVars == <<arrived, inbox, settings>>
vars == <<queueVars, agentVars, fails, clears, inputVars, history>>

Default == [mode |-> "collect", policy |-> "summarize", cap |-> 20]
Empty == [items |-> <<>>, dropped |-> {}, lastRun |-> FALSE, settings |-> Default]
Idle == [at |-> "idle", batch |-> <<>>, count |-> 0, told |-> {}, force |-> FALSE]
Waiting(force) == [Idle EXCEPT !.at = "debounce", !.force = force]

Drains == [at : {"idle", "debounce", "run"}, batch : Seq(Messages),
           count : Nat, told : SUBSET Messages, force : BOOLEAN]
QueueObjects ==
  [items : Seq(Messages), dropped : SUBSET Messages, lastRun : BOOLEAN,
   settings : SettingsType]
Causes == {"overflow", "clear", "summary", "settings"}

TypeOK ==
  /\ map \in Queues \cup {None}
  /\ queue \in [Queues -> QueueObjects]
  /\ \A k \in Queues : queue[k].items # <<>> =>
       \E m \in Messages : Len(queue[k].items) <= settings[m].cap
  /\ drain \in [Queues -> Drains]
  /\ callback \in BOOLEAN /\ turn \in BOOLEAN
  /\ turns \in 0 .. MaxTurns /\ fails \in 0 .. MaxFails /\ clears \in 0 .. MaxClears
  /\ arrived \in 0 .. Count
  /\ inbox \subseteq 1 .. arrived
  /\ settings \in Plans
  /\ accepted \in Seq(Messages) /\ delivered \in Seq(Messages)
  /\ homes \in [Messages -> Queues \cup {None}]
  /\ excused \subseteq Messages
  /\ causes \subseteq Causes

Init ==
  /\ map = None
  /\ queue = [k \in Queues |-> Empty]
  /\ drain = [k \in Queues |-> Idle]
  /\ callback = FALSE
  /\ turn = FALSE
  /\ turns = 0 /\ fails = 0 /\ clears = 0
  /\ arrived = 0
  /\ inbox = {}
  /\ settings \in Plans
  /\ accepted = <<>>
  /\ homes = [m \in Messages |-> None]
  /\ delivered = <<>>
  /\ excused = {}
  /\ causes = {}
---------------------------------------------------------------------------
Accepted == ToSet(accepted)
IsDraining(k) == drain[k].at # "idle"
IsLive(k) == k = map \/ IsDraining(k)
NothingLeft(x) == x.items = <<>> /\ x.dropped = {}
\* hasCrossChannelItems: the messages cannot be answered in one place.
Mixed(x) ==
  \E i, j \in DOMAIN x : RouteOf[x[i]] # RouteOf[x[j]] \/ RouteOf[x[i]] = "unroutable"

\* scheduleFollowupDrain on the queue that the map holds, k: nothing to do if
\* there is none or it is draining; a drain that finds it empty ends at once.
Schedule(queues, drains, k) ==
  IF k = None \/ (k # None /\ drains[k].at # "idle")
  THEN drain' = drains /\ map' = k /\ UNCHANGED callback
  ELSE /\ callback' = TRUE
       /\ IF NothingLeft(queues[k])
          THEN drain' = drains /\ map' = None
          ELSE drain' = [drains EXCEPT ![k] = Waiting(FALSE)] /\ map' = k

\* A reply that found no active run, and its end: finalizeWithFollowup.
BeginTurn ==
  /\ ~turn /\ turns < MaxTurns
  /\ turn' = TRUE
  /\ turns' = turns + 1
  /\ UNCHANGED <<queueVars, fails, clears, inputVars, history>>

EndTurn ==
  /\ turn
  /\ turn' = FALSE
  /\ Schedule(queue, drain, map)
  /\ UNCHANGED <<queue, turns, fails, clears, inputVars, history>>

\* A message arrives and sees an active run; before it is enqueued its handler
\* awaits more than once, and that run may end meanwhile.
Arrive(m) ==
  /\ m = arrived + 1
  /\ arrived' = m
  /\ turn \/ \E k \in Queues : drain[k].at = "run"
  /\ inbox' = inbox \cup {m}
  /\ UNCHANGED <<queueVars, agentVars, fails, clears, settings, history>>

\* getFollowupQueue: the queue of the key, with the settings of this message,
\* created when there is none.
Fresh == CHOOSE k \in Queues : ~IsLive(k)
GetQueue(s) ==
  [(IF map = None THEN Empty ELSE queue[map]) EXCEPT !.settings = s]

\* Mutant: only what is still queued is compared.
IsQueued(m) == map # None /\ \E n \in ToSet(queue[map].items) : IdOf[n] = IdOf[m]

\* The ids of the messages that were taken are kept for five minutes; more than
\* any redelivery takes.
IsDuplicate(m) == \E n \in Accepted : IdOf[n] = IdOf[m]

\* Mutant: the cap is compared after the message was added.
OverflowLate(x) ==
  IF Len(x.items) <= x.settings.cap THEN <<>>
  ELSE SubSeq(x.items, 1, Len(x.items) - x.settings.cap)

\* applyQueueDropPolicy: what leaves a full queue to make room.
Overflow(x) ==
  IF Len(x.items) < x.settings.cap THEN <<>>
  ELSE SubSeq(x.items, 1, Len(x.items) - x.settings.cap + 1)

\* A message that is refused has created or changed the queue all the same.
Refuse(m, s, k) ==
  /\ IsDuplicate(m) \/ (s.policy = "new" /\ Overflow(GetQueue(s)) # <<>>)
  /\ queue' = [queue EXCEPT ![k] = [GetQueue(s) EXCEPT !.lastRun = @ \/ ~IsDuplicate(m)]]
  /\ map' = k
  /\ UNCHANGED <<drain, callback, accepted, homes, excused>>

\* Mutant: a drain that has ended is not restarted.
TakeQuietly(m, s, k) ==
  LET x == GetQueue(s)
      out == Overflow(x)
      kept == SubSeq(x.items, Len(out) + 1, Len(x.items))
  IN
  /\ ~IsDuplicate(m) /\ (s.policy = "new" => out = <<>>)
  /\ queue' = [queue EXCEPT ![k] =
       [x EXCEPT !.lastRun = TRUE, !.items = Append(kept, m),
          !.dropped = @ \cup (IF s.policy = "summarize" THEN ToSet(out) ELSE {})]]
  /\ accepted' = Append(accepted, m)
  /\ homes' = [homes EXCEPT ![m] = k]
  /\ excused' = excused \cup (IF s.policy = "old" THEN ToSet(out) ELSE {})
  /\ map' = k /\ UNCHANGED <<drain, callback>>

Take(m, s, k) ==
  LET x == GetQueue(s)
      out == Overflow(x)
      kept == SubSeq(x.items, Len(out) + 1, Len(x.items))
  IN
  /\ ~IsDuplicate(m) /\ (s.policy = "new" => out = <<>>)
  /\ queue' = [queue EXCEPT ![k] =
       [x EXCEPT !.lastRun = TRUE, !.items = Append(kept, m),
          !.dropped = @ \cup (IF s.policy = "summarize" THEN ToSet(out) ELSE {})]]
  /\ accepted' = Append(accepted, m)
  /\ homes' = [homes EXCEPT ![m] = k]
  /\ excused' = excused \cup (IF s.policy = "old" THEN ToSet(out) ELSE {})
  /\ IF callback
     THEN Schedule(queue', drain, k)
     ELSE map' = k /\ UNCHANGED <<drain, callback>>

Enqueue(m) ==
  LET k == IF map = None THEN Fresh ELSE map
      s == settings[m]
  IN
  /\ m \in inbox
  /\ inbox' = inbox \ {m}
  /\ Refuse(m, s, k) \/ Take(m, s, k)
  /\ causes' = causes
       \cup (IF map # None /\ s # queue[map].settings THEN {"settings"} ELSE {})
       \cup (IF m \in ToSet(accepted') /\ Overflow(GetQueue(s)) # <<>>
                  /\ drain[k].at = "run" THEN {"overflow"} ELSE {})
  /\ UNCHANGED <<agentVars, fails, clears, arrived, settings, delivered>>
---------------------------------------------------------------------------
(* The loop of a drain *)

\* Mutant: the queue is deleted without a look at what is left.
FinishForGood(queues, k) ==
  /\ queue' = queues
  /\ drain' = [drain EXCEPT ![k] = Idle]
  /\ map' = None
  /\ UNCHANGED callback

\* The end of a drain, for an error too: an empty queue is deleted by key, for a
\* queue with work a new drain is scheduled, by key as well.
Finish(queues, k) ==
  LET drains == [drain EXCEPT ![k] = Idle]
  IN  /\ queue' = queues
      /\ IF NothingLeft(queues[k])
         THEN drain' = drains /\ map' = None /\ UNCHANGED callback
         ELSE Schedule(queues, drains, map)

Deliver(k, batch, count, told, force) ==
  /\ drain' = [drain EXCEPT ![k] =
       [at |-> "run", batch |-> batch, count |-> count, told |-> told, force |-> force]]
  /\ UNCHANGED <<map, queue, callback>>

\* previewQueueSummaryPrompt: the dropped messages that the prompt tells of.
Report(x) == IF x.settings.policy = "summarize" THEN x.dropped ELSE {}

\* Messages from different places are delivered one by one, and so is what
\* follows them in this drain.
StepCollect(k) ==
  LET x == queue[k]
      alone == drain[k].force \/ Mixed(x.items)
  IN
  /\ x.settings.mode = "collect"
  /\ CASE alone /\ x.items # <<>> ->
            Deliver(k, <<Head(x.items)>>, 1, {}, TRUE)
       [] ~alone /\ (x.items # <<>> \/ x.lastRun) ->
            Deliver(k, x.items, Len(x.items), Report(x), FALSE)
       [] OTHER -> Finish(queue, k)

\* A summary is delivered in the turn of the first message.
StepFollowup(k) ==
  LET x == queue[k]
      told == Report(x)
  IN
  /\ x.settings.mode = "followup"
  /\ IF x.items # <<>> /\ (told # {} => x.lastRun)
     THEN Deliver(k, IF told = {} THEN <<Head(x.items)>> ELSE <<>>, 1, told,
                  drain[k].force)
     ELSE Finish(queue, k)

\* The debounce is over: the loop takes what the queue holds now.
Step(k) ==
  /\ drain[k].at = "debounce"
  /\ StepCollect(k) \/ StepFollowup(k)
  /\ causes' = causes \cup
       (IF drain'[k].at = "run" /\ drain'[k].count = 1 /\ drain'[k].batch = <<>>
        THEN {"summary"} ELSE {})
  /\ UNCHANGED <<agentVars, fails, clears, inputVars, accepted, homes, delivered, excused>>

\* Mutant: the messages stay in the queue.
DeliveredUncut(k) ==
  /\ drain[k].at = "run"
  /\ delivered' = delivered
  /\ excused' = excused \cup drain[k].told
  /\ drain' = [drain EXCEPT ![k] = Waiting(drain[k].force)]
  /\ UNCHANGED <<map, queue, callback>>
  /\ UNCHANGED <<agentVars, fails, clears, inputVars, accepted, homes, causes>>

\* The delivery ends: as many messages are removed as it took, from the front of
\* what the queue holds now, and with a summary all that was dropped by now.
Delivered(k) ==
  LET d == drain[k]
      x == queue[k]
      cut == IF d.count > Len(x.items) THEN Len(x.items) ELSE d.count
      rest == [x EXCEPT !.items = SubSeq(@, cut + 1, Len(@)),
                        !.dropped = IF d.told = {} THEN @ ELSE {}]
      queues == [queue EXCEPT ![k] = rest]
  IN
  /\ d.at = "run"
  /\ delivered' = delivered \o d.batch
  /\ excused' = excused \cup d.told
  /\ IF NothingLeft(rest)
     THEN Finish(queues, k)
     ELSE /\ queue' = queues
          /\ drain' = [drain EXCEPT ![k] = Waiting(d.force)]
          /\ UNCHANGED <<map, callback>>
  /\ UNCHANGED <<agentVars, fails, clears, inputVars, accepted, homes, causes>>

DeliveryFails(k) ==
  /\ drain[k].at = "run"
  /\ fails < MaxFails
  /\ fails' = fails + 1
  /\ Finish(queue, k)
  /\ UNCHANGED <<agentVars, clears, inputVars, history>>

\* clearSessionQueues: the queue object is emptied in place, and leaves the map;
\* the callback of the key goes too.
Clear ==
  /\ clears < MaxClears
  /\ clears' = clears + 1
  /\ callback' = FALSE
  /\ map' = None
  /\ IF map = None
     THEN UNCHANGED <<queue, excused>>
     ELSE /\ queue' = [queue EXCEPT ![map] =
                [@ EXCEPT !.items = <<>>, !.dropped = {}, !.lastRun = FALSE]]
          /\ excused' = excused \cup ToSet(queue[map].items) \cup queue[map].dropped
  /\ causes' = causes \cup
       (IF \E k \in Queues : IsDraining(k) THEN {"clear"} ELSE {})
  /\ UNCHANGED <<drain, agentVars, fails, inputVars, accepted, homes, delivered>>

Next ==
  \/ BeginTurn \/ EndTurn \/ Clear
  \/ \E m \in Messages : Arrive(m) \/ Enqueue(m)
  \/ \E k \in Queues : Step(k) \/ Delivered(k) \/ DeliveryFails(k)

\* Replies and deliveries end (an agent run has a timeout), handlers go on after
\* their awaits, and the timer of the debounce fires.
Fairness ==
  /\ WF_vars(EndTurn)
  /\ \A m \in Messages : WF_vars(Enqueue(m))
  /\ \A k \in Queues :
       WF_vars(Step(k)) /\ WF_vars(Delivered(k) \/ DeliveryFails(k))

Spec == Init /\ [][Next]_vars
FairSpec == Spec /\ Fairness
---------------------------------------------------------------------------
(* Properties *)

Underway(m) == \E k \in Queues : m \in ToSet(drain[k].batch)
Held(m) ==
  \/ Underway(m)
  \/ \E k \in Queues : IsLive(k) /\ m \in ToSet(queue[k].items) \cup queue[k].dropped
Lost == {m \in Accepted : ~Held(m) /\ m \notin ToSet(delivered) \cup excused}

\* A message is delivered at most once, whatever fails or is redelivered, and the
\* messages that one queue took are delivered in the order it took them.
Position(m) == CHOOSE i \in DOMAIN accepted : accepted[i] = m
OnceInOrder ==
  \A i, j \in DOMAIN delivered : i < j =>
    /\ IdOf[delivered[i]] # IdOf[delivered[j]]
    /\ homes[delivered[i]] = homes[delivered[j]] =>
         Position(delivered[i]) < Position(delivered[j])

\* A message that was accepted is delivered, reported, dropped as asked or
\* cleared; it can vanish only after the cap was reached during a delivery, after
\* a clear that a drain outlived, or when a summary took its turn.
LossHasCause == Lost # {} => causes \cap {"overflow", "clear", "summary"} # {}

\* A queue with messages that nobody drains is one for which no callback was
\* known, and a drain that goes round without delivering has seen the settings
\* change, or a cap of one.
Stranded(k) == map = k /\ ~NothingLeft(queue[k]) /\ ~IsDraining(k) /\ ~turn
Spinning(k) ==
  LET x == queue[k] IN
  /\ x.items = <<>> /\ x.dropped # {}
  /\ x.settings.mode # "collect" \/ x.settings.policy # "summarize"
StuckHasCause ==
  \A k \in Queues :
    /\ Stranded(k) => ~callback
    /\ IsLive(k) /\ drain[k].at # "run" /\ Spinning(k) =>
         queue[k].settings.cap = 1 \/ "settings" \in causes

\* No message is lost or left behind without one of the causes.
TroubleHasCause == LossHasCause /\ StuckHasCause

\* Every message that was accepted is settled, unless its queue is stuck.
Settles ==
  \A m \in Messages :
    m \in Accepted ~> (~Held(m) \/ \E k \in Queues : Stranded(k) \/ Spinning(k))
===========================================================================
