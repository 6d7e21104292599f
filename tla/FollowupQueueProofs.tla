------------------------ MODULE FollowupQueueProofs ------------------------
(***************************************************************************)
(* The followup queue of a session, for any messages, settings and numbers *)
(* of replies, failures and clears.                                        *)
(***************************************************************************)
EXTENDS FollowupQueue, SequenceTheorems, FiniteSetTheorems, TLAPS

---------------------------------------------------------------------------
(* Sequences *)

\* The elements of a sequence, one by one.
LEMMA ToSetOf ==
  ASSUME NEW S, NEW s \in Seq(S)
  PROVE  \A e : e \in ToSet(s) <=> \E i \in 1 .. Len(s) : s[i] = e
BY LenProperties DEF ToSet

LEMMA ToSetAppend ==
  ASSUME NEW S, NEW s \in Seq(S), NEW m \in S
  PROVE  ToSet(Append(s, m)) = ToSet(s) \cup {m}
<1> DEFINE t == Append(s, m)
<1>1. /\ t \in Seq(S) /\ Len(t) = Len(s) + 1 /\ Len(s) \in Nat
      /\ \A i \in 1 .. Len(s) : t[i] = s[i]
      /\ t[Len(s) + 1] = m
  BY AppendProperties, LenProperties
<1>2. /\ \A e : e \in ToSet(s) <=> \E i \in 1 .. Len(s) : s[i] = e
      /\ \A e : e \in ToSet(t) <=> \E i \in 1 .. Len(t) : t[i] = e
  BY <1>1, ToSetOf
<1> HIDE DEF t
<1>3. ASSUME NEW e PROVE e \in ToSet(t) <=> e \in ToSet(s) \cup {m}
  <2>1. ASSUME e \in ToSet(t) PROVE e \in ToSet(s) \cup {m}
    BY <1>1, <1>2, <2>1
  <2>2. ASSUME e \in ToSet(s) \cup {m} PROVE e \in ToSet(t)
    <3>1. CASE e = m
      BY <1>1, <1>2, <3>1
    <3>2. CASE e \in ToSet(s)
      BY <1>1, <1>2, <3>2
    <3> QED
      BY <2>2, <3>1, <3>2
  <2> QED
    BY <2>1, <2>2
<1> QED
  BY <1>3 DEF t

\* What is left when the first n elements are cut off.
LEMMA CutFront ==
  ASSUME NEW S, NEW s \in Seq(S), NEW n \in 0 .. Len(s)
  PROVE  /\ SubSeq(s, n + 1, Len(s)) \in Seq(S)
         /\ Len(SubSeq(s, n + 1, Len(s))) = Len(s) - n
         /\ \A i \in 1 .. Len(s) - n : SubSeq(s, n + 1, Len(s))[i] = s[i + n]
<1>1. Len(s) \in Nat /\ \A i \in n + 1 .. Len(s) : s[i] \in S
  BY LenProperties, ElementOfSeq
<1>2. /\ SubSeq(s, n + 1, Len(s)) \in Seq(S)
      /\ Len(SubSeq(s, n + 1, Len(s))) =
           IF n + 1 <= Len(s) THEN Len(s) - (n + 1) + 1 ELSE 0
      /\ \A i \in 1 .. Len(s) - (n + 1) + 1 :
           SubSeq(s, n + 1, Len(s))[i] = s[n + 1 + i - 1]
  <2>1. n + 1 \in Int /\ Len(s) \in Int
    BY <1>1
  <2> QED
    BY <1>1, <2>1, SubSeqProperties
<1> QED
  BY <1>1, <1>2

---------------------------------------------------------------------------
(* Types, and objects that do not run out *)

\* Objects that a drain keeps although the map has lost them: one for each clear
\* at most.
Outliving == {k \in Queues : IsDraining(k) /\ k # map}
FewOutlive == Cardinality(Outliving) <= clears

LEMMA Constants ==
  /\ Empty \in QueueObjects /\ Idle \in Drains
  /\ \A force \in BOOLEAN : Waiting(force) \in Drains
  /\ \A force \in BOOLEAN : /\ Waiting(force).at = "debounce"
                            /\ Waiting(force).batch = <<>>
                            /\ Waiting(force).count = 0 /\ Waiting(force).told = {}
  /\ Empty.items = <<>> /\ Empty.dropped = {}
  /\ Idle.at = "idle" /\ Idle.batch = <<>> /\ Idle.count = 0 /\ Idle.told = {}
<1>1. Default \in SettingsType
  BY DEF Default, SettingsType
<1>2. <<>> \in Seq(Messages)
  OBVIOUS
<1>3. Empty \in QueueObjects /\ Idle \in Drains
  BY <1>1, <1>2 DEF Empty, Idle, QueueObjects, Drains
<1> QED
  BY <1>3, <1>2 DEF Empty, Idle, Waiting, QueueObjects, Drains

\* A new object can be had whenever the map is empty.
LEMMA FreshIsFree ==
  ASSUME TypeOK, FewOutlive, map = None
  PROVE  Fresh \in Queues /\ ~IsLive(Fresh)
<1>1. \E k \in Queues : ~IsLive(k)
  <2> SUFFICES ASSUME \A k \in Queues : IsLive(k) PROVE FALSE
    OBVIOUS
  <2>1. None \notin Queues
    BY FollowupTypes
  <2>2. Outliving = Queues
    BY <2>1 DEF Outliving, IsLive
  <2> QED
    BY <2>2, EnoughQueues, FS_CardinalityType, FollowupTypes DEF FewOutlive, TypeOK
<1> QED
  BY <1>1 DEF Fresh

\* The object that a message is enqueued in.
Home(k) == k \in Queues /\ (map = None => ~IsLive(k)) /\ (map # None => k = map)

LEMMA HomeIs ==
  ASSUME TypeOK, FewOutlive PROVE Home(IF map = None THEN Fresh ELSE map)
BY FreshIsFree DEF Home, TypeOK

LEMMA GetQueueIs ==
  ASSUME TypeOK, NEW s \in SettingsType
  PROVE  /\ GetQueue(s) \in QueueObjects
         /\ GetQueue(s).settings = s
         /\ GetQueue(s).items = IF map = None THEN <<>> ELSE queue[map].items
         /\ GetQueue(s).dropped = IF map = None THEN {} ELSE queue[map].dropped
         /\ GetQueue(s).lastRun = IF map = None THEN FALSE ELSE queue[map].lastRun
<1> DEFINE x == IF map = None THEN Empty ELSE queue[map]
<1>1. x \in QueueObjects
  BY Constants DEF TypeOK
<1>2. GetQueue(s) = [x EXCEPT !.settings = s]
  BY DEF GetQueue
<1>3. x.items = (IF map = None THEN <<>> ELSE queue[map].items)
      /\ x.dropped = (IF map = None THEN {} ELSE queue[map].dropped)
      /\ x.lastRun = (IF map = None THEN FALSE ELSE queue[map].lastRun)
  BY DEF Empty
<1> HIDE DEF x
<1> QED
  BY <1>1, <1>2, <1>3 DEF QueueObjects

LEMMA OverflowIs ==
  ASSUME NEW x \in QueueObjects
  PROVE  LET n == Len(Overflow(x)) IN
         /\ Overflow(x) \in Seq(Messages)
         /\ n \in 0 .. Len(x.items)
         /\ n = IF Len(x.items) < x.settings.cap THEN 0
                ELSE Len(x.items) - x.settings.cap + 1
         /\ \A i \in 1 .. n : Overflow(x)[i] = x.items[i]
         /\ Overflow(x) = <<>> <=> n = 0
<1>1. /\ x.items \in Seq(Messages) /\ Len(x.items) \in Nat
      /\ x.settings.cap \in Nat \ {0}
  BY LenProperties DEF QueueObjects, SettingsType
<1>2. CASE Len(x.items) < x.settings.cap
  BY <1>1, <1>2 DEF Overflow
<1>3. CASE ~(Len(x.items) < x.settings.cap)
  <2> DEFINE n == Len(x.items) - x.settings.cap + 1
  <2>1. Overflow(x) = SubSeq(x.items, 1, n)
    BY <1>3 DEF Overflow
  <2>2. n \in 1 .. Len(x.items) /\ 1 \in Int /\ n \in Int
    BY <1>1, <1>3
  <2>3. \A i \in 1 .. n : x.items[i] \in Messages
    BY <1>1, <2>2, ElementOfSeq
  <2>4. /\ SubSeq(x.items, 1, n) \in Seq(Messages)
        /\ Len(SubSeq(x.items, 1, n)) = IF 1 <= n THEN n - 1 + 1 ELSE 0
        /\ \A i \in 1 .. n - 1 + 1 : SubSeq(x.items, 1, n)[i] = x.items[1 + i - 1]
    <3> HIDE DEF n
    <3> QED  BY <2>2, <2>3, SubSeqProperties
  <2> QED
    BY <1>1, <1>3, <2>1, <2>2, <2>4
<1> QED
  BY <1>2, <1>3

---------------------------------------------------------------------------
(* What a step does to the queues and the drains *)

\* The queue that a message m with settings s is put in, and the one it leaves
\* when it is refused.
Taken(m, s) ==
  LET x == GetQueue(s)
      out == Overflow(x)
  IN  [x EXCEPT !.lastRun = TRUE,
         !.items = Append(SubSeq(x.items, Len(out) + 1, Len(x.items)), m),
         !.dropped = @ \cup (IF s.policy = "summarize" THEN ToSet(out) ELSE {})]

LEMMA TakenIs ==
  ASSUME TypeOK, NEW m \in Messages, NEW s \in SettingsType
  PROVE  LET x == GetQueue(s)
             n == Len(Overflow(x))
             y == Taken(m, s)
         IN
         /\ y \in QueueObjects
         /\ y.settings = s
         /\ n \in 0 .. Len(x.items)
         /\ Len(y.items) = Len(x.items) - n + 1
         /\ \A i \in 1 .. Len(x.items) - n : y.items[i] = x.items[i + n]
         /\ y.items[Len(x.items) - n + 1] = m
         /\ y.dropped = x.dropped \cup (IF s.policy = "summarize"
                                        THEN ToSet(Overflow(x)) ELSE {})
         /\ Len(y.items) <= s.cap
<1> DEFINE x == GetQueue(s)
           out == Overflow(x)
           n == Len(out)
           cut == SubSeq(x.items, n + 1, Len(x.items))
           gone == IF s.policy = "summarize" THEN ToSet(out) ELSE {}
<1>1. x \in QueueObjects /\ x.settings = s /\ s.cap \in Nat \ {0}
  BY GetQueueIs DEF SettingsType
<1>2. /\ n \in 0 .. Len(x.items)
      /\ n = IF Len(x.items) < s.cap THEN 0 ELSE Len(x.items) - s.cap + 1
      /\ out \in Seq(Messages) /\ \A i \in 1 .. n : out[i] = x.items[i]
  BY <1>1, OverflowIs
<1>3. x.items \in Seq(Messages) /\ Len(x.items) \in Nat /\ x.dropped \in SUBSET Messages
  BY <1>1, LenProperties DEF QueueObjects
<1>4. /\ cut \in Seq(Messages) /\ Len(cut) = Len(x.items) - n
      /\ \A i \in 1 .. Len(x.items) - n : cut[i] = x.items[i + n]
  BY <1>2, <1>3, CutFront
<1>5. gone \in SUBSET Messages
  BY <1>2, ToSetOf, ElementOfSeq
<1>6. Taken(m, s) = [x EXCEPT !.lastRun = TRUE, !.items = Append(cut, m),
                              !.dropped = @ \cup gone]
  BY DEF Taken
<1> HIDE DEF x, out, n, cut, gone
<1>7. /\ Append(cut, m) \in Seq(Messages) /\ Len(Append(cut, m)) = Len(cut) + 1
      /\ \A i \in 1 .. Len(cut) : Append(cut, m)[i] = cut[i]
      /\ Append(cut, m)[Len(cut) + 1] = m
  BY <1>4, AppendProperties
<1> DEFINE t == Append(cut, m)
<1> HIDE DEF t
<1>8. Taken(m, s) = [x EXCEPT !.lastRun = TRUE, !.items = t, !.dropped = @ \cup gone]
      /\ t \in Seq(Messages)
  BY <1>6, <1>7 DEF t
<1>9. /\ Taken(m, s) \in QueueObjects
      /\ Taken(m, s).items = t /\ Taken(m, s).settings = s
      /\ Taken(m, s).dropped = x.dropped \cup gone
  BY <1>1, <1>3, <1>5, <1>8 DEF QueueObjects
<1>10. Len(t) = Len(x.items) - n + 1 /\ Len(t) <= s.cap
  BY <1>1, <1>2, <1>3, <1>4, <1>7 DEF t
<1> QED
  BY <1>2, <1>3, <1>4, <1>7, <1>9, <1>10 DEF t, x, n, out, gone

LEMMA TakenShifts ==
  ASSUME TypeOK, NEW m \in Messages, NEW s \in SettingsType
  PROVE  \A i \in 1 .. Len(GetQueue(s).items) - Len(Overflow(GetQueue(s))) :
           Taken(m, s).items[i] = GetQueue(s).items[i + Len(Overflow(GetQueue(s)))]
BY TakenIs

LEMMA SettingsAre ==
  ASSUME TypeOK, NEW m \in Messages PROVE settings[m] \in SettingsType
BY FollowupTypes DEF TypeOK

\* How a message is enqueued: one queue changes, and the map leads to it.
LEMMA EnqueueShape ==
  ASSUME TypeOK, FewOutlive, NEW m \in Messages, Enqueue(m)
  PROVE  \E k \in Queues :
           /\ Home(k) /\ inbox' = inbox \ {m} /\ m \in inbox
           /\ UNCHANGED <<agentVars, fails, clears, arrived, settings, delivered>>
           /\ causes' = causes
                \cup (IF map # None /\ settings[m] # queue[map].settings
                      THEN {"settings"} ELSE {})
                \cup (IF m \in ToSet(accepted') /\ Overflow(GetQueue(settings[m])) # <<>>
                           /\ drain[k].at = "run" THEN {"overflow"} ELSE {})
           /\ \/ /\ \E l \in BOOLEAN :
                      queue' = [queue EXCEPT ![k] = [GetQueue(settings[m]) EXCEPT !.lastRun = l]]
                 /\ map' = k /\ UNCHANGED <<drain, callback, accepted, homes, excused>>
              \/ /\ ~IsDuplicate(m)
                 /\ settings[m].policy = "new" => Overflow(GetQueue(settings[m])) = <<>>
                 /\ queue' = [queue EXCEPT ![k] = Taken(m, settings[m])]
                 /\ accepted' = Append(accepted, m)
                 /\ homes' = [homes EXCEPT ![m] = k]
                 /\ excused' = excused \cup
                      (IF settings[m].policy = "old"
                       THEN ToSet(Overflow(GetQueue(settings[m]))) ELSE {})
                 /\ \/ callback /\ Schedule(queue', drain, k)
                    \/ ~callback /\ map' = k /\ UNCHANGED <<drain, callback>>
<1> DEFINE k == IF map = None THEN Fresh ELSE map
           s == settings[m]
<1>1. Home(k) /\ k \in Queues
  BY HomeIs DEF Home
<1>2. /\ m \in inbox /\ inbox' = inbox \ {m}
      /\ Refuse(m, s, k) \/ Take(m, s, k)
      /\ causes' = causes
           \cup (IF map # None /\ s # queue[map].settings THEN {"settings"} ELSE {})
           \cup (IF m \in ToSet(accepted') /\ Overflow(GetQueue(s)) # <<>>
                      /\ drain[k].at = "run" THEN {"overflow"} ELSE {})
      /\ UNCHANGED <<agentVars, fails, clears, arrived, settings, delivered>>
  BY DEF Enqueue
<1>3. GetQueue(s).lastRun \in BOOLEAN
  BY GetQueueIs, SettingsAre DEF QueueObjects
<1> HIDE DEF k, s
<1>4. CASE Refuse(m, s, k)
  <2> DEFINE l == GetQueue(s).lastRun \/ ~IsDuplicate(m)
  <2>1. queue' = [queue EXCEPT ![k] = [GetQueue(s) EXCEPT !.lastRun = l]] /\ l \in BOOLEAN
    BY <1>3, <1>4 DEF Refuse
  <2>2. map' = k /\ UNCHANGED <<drain, callback, accepted, homes, excused>>
    BY <1>4 DEF Refuse
  <2> HIDE DEF l
  <2> QED
    BY <1>1, <1>2, <2>1, <2>2 DEF s
<1>5. CASE Take(m, s, k)
  <2>1. /\ ~IsDuplicate(m) /\ (s.policy = "new" => Overflow(GetQueue(s)) = <<>>)
        /\ queue' = [queue EXCEPT ![k] = Taken(m, s)]
        /\ accepted' = Append(accepted, m)
        /\ homes' = [homes EXCEPT ![m] = k]
        /\ excused' = excused \cup
             (IF s.policy = "old" THEN ToSet(Overflow(GetQueue(s))) ELSE {})
    BY <1>5 DEF Take, Taken
  <2>2. \/ callback /\ Schedule(queue', drain, k)
        \/ ~callback /\ map' = k /\ UNCHANGED <<drain, callback>>
    BY <1>5 DEF Take
  <2> QED
    BY <1>1, <1>2, <2>1, <2>2 DEF s
<1> QED
  BY <1>2, <1>4, <1>5


\* scheduleFollowupDrain leaves no queue in the map that is not draining.
LEMMA ScheduleShape ==
  ASSUME NEW qs, NEW drains \in [Queues -> Drains], NEW k \in Queues \cup {None},
         callback \in BOOLEAN, Schedule(qs, drains, k)
  PROVE  /\ callback' \in BOOLEAN
         /\ drain' \in [Queues -> Drains]
         /\ \/ map' = k
            \/ map' = None /\ k # None /\ NothingLeft(qs[k]) /\ drains[k].at = "idle"
         /\ map' # None => drain'[map'].at # "idle"
         /\ \A j \in Queues :
              \/ drain'[j] = drains[j]
              \/ /\ j = k /\ map' = k /\ drains[j].at = "idle"
                 /\ drain'[j] = Waiting(FALSE)
<1>1. Waiting(FALSE) \in Drains /\ Waiting(FALSE).at = "debounce"
  BY Constants
<1>2. CASE k = None \/ (k # None /\ drains[k].at # "idle")
  BY <1>2 DEF Schedule
<1>3. CASE ~(k = None \/ (k # None /\ drains[k].at # "idle"))
  <2>1. k \in Queues /\ k # None /\ drains[k].at = "idle"
    BY <1>3
  <2>2. CASE NothingLeft(qs[k])
    BY <1>3, <2>1, <2>2 DEF Schedule
  <2>3. CASE ~NothingLeft(qs[k])
    BY <1>1, <1>3, <2>1, <2>3 DEF Schedule
  <2> QED
    BY <2>2, <2>3
<1> QED
  BY <1>2, <1>3

LEMMA ScheduleDrains ==
  ASSUME NEW qs, NEW drains \in [Queues -> Drains], NEW k \in Queues \cup {None},
         callback \in BOOLEAN, Schedule(qs, drains, k)
  PROVE  \A j \in Queues : drain'[j] = drains[j] \/ drain'[j] = Waiting(FALSE)
<1>1. \A j \in Queues :
        \/ drain'[j] = drains[j]
        \/ j = k /\ map' = k /\ drains[j].at = "idle" /\ drain'[j] = Waiting(FALSE)
  BY ScheduleShape, ZenonT(60)
<1> QED  BY <1>1

\* The end of a drain: an empty queue is deleted by key, whichever the map leads to.
LEMMA FinishShape ==
  ASSUME TypeOK, NEW qs, NEW k \in Queues, Finish(qs, k)
  PROVE  /\ queue' = qs
         /\ callback' \in BOOLEAN
         /\ drain' \in [Queues -> Drains]
         /\ \/ NothingLeft(qs[k]) /\ map' = None
            \/ ~NothingLeft(qs[k]) /\ map' = map
            \/ /\ ~NothingLeft(qs[k]) /\ map' = None /\ map # None /\ map # k
               /\ NothingLeft(qs[map]) /\ ~IsDraining(map)
         /\ map' # None => drain'[map'].at # "idle"
         /\ drain'[k] = Idle \/ (k = map /\ map' = k /\ drain'[k] = Waiting(FALSE))
         /\ \A j \in Queues \ {k} :
              \/ drain'[j] = drain[j]
              \/ /\ j = map /\ map' = j /\ ~IsDraining(j)
                 /\ drain'[j] = Waiting(FALSE)
<1> DEFINE drains == [drain EXCEPT ![k] = Idle]
<1>1. /\ drains \in [Queues -> Drains]
      /\ drains[k] = Idle /\ \A j \in Queues \ {k} : drains[j] = drain[j]
      /\ map \in Queues \cup {None} /\ callback \in BOOLEAN /\ None \notin Queues
  BY Constants, FollowupTypes DEF TypeOK
<1>2. queue' = qs /\ (IF NothingLeft(qs[k])
                      THEN drain' = drains /\ map' = None /\ UNCHANGED callback
                      ELSE Schedule(qs, drains, map))
  BY DEF Finish
<1> HIDE DEF drains
<1>3. CASE NothingLeft(qs[k])
  BY <1>1, <1>2, <1>3
<1>4. CASE ~NothingLeft(qs[k])
  <2>1. Schedule(qs, drains, map)
    BY <1>2, <1>4
  <2>2. /\ callback' \in BOOLEAN
        /\ drain' \in [Queues -> Drains]
        /\ \/ map' = map
           \/ map' = None /\ map # None /\ NothingLeft(qs[map]) /\ drains[map].at = "idle"
        /\ map' # None => drain'[map'].at # "idle"
        /\ \A j \in Queues :
             \/ drain'[j] = drains[j]
             \/ /\ j = map /\ map' = map /\ drains[j].at = "idle"
                /\ drain'[j] = Waiting(FALSE)
    <3>1. drains \in [Queues -> Drains] /\ map \in Queues \cup {None} /\ callback \in BOOLEAN
      BY <1>1
    <3> QED  BY <2>1, <3>1, ScheduleShape, ZenonT(60)
  <2> QED
    BY <1>1, <1>2, <1>4, <2>2 DEF IsDraining
<1> QED
  BY <1>3, <1>4

\* What a drain takes in hand: messages from the front of its queue.
InHand(k, d) ==
  LET x == queue[k] IN
  /\ d \in Drains /\ d.at = "run"
  /\ d.count <= Len(x.items)
  /\ Len(d.batch) = d.count \/ (d.batch = <<>> /\ d.count = 1)
  /\ \A i \in 1 .. Len(d.batch) : d.batch[i] = x.items[i]
  /\ d.told \in {{}, Report(x)}
  /\ x.settings.mode = "followup" => d.count = 1 /\ d.told = Report(x)

LEMMA OneInHand ==
  ASSUME TypeOK, NEW k \in Queues, queue[k].items # <<>>
  PROVE  /\ <<Head(queue[k].items)>> \in Seq(Messages)
         /\ Len(<<Head(queue[k].items)>>) = 1
         /\ <<Head(queue[k].items)>>[1] = queue[k].items[1]
         /\ Len(queue[k].items) \in Nat \ {0}
<1>1. queue[k].items \in Seq(Messages)
  BY DEF TypeOK, QueueObjects
<1> QED
  BY <1>1, EmptySeq, HeadTailProperties

LEMMA ReportIs ==
  ASSUME TypeOK, NEW k \in Queues PROVE Report(queue[k]) \in SUBSET Messages
BY DEF TypeOK, QueueObjects, Report

LEMMA StepShape ==
  ASSUME TypeOK, NEW k \in Queues, Step(k)
  PROVE  /\ drain[k].at = "debounce"
         /\ UNCHANGED <<agentVars, fails, clears, inputVars, accepted, homes, delivered,
                        excused>>
         /\ \/ Finish(queue, k) /\ UNCHANGED causes
            \/ \E d \in Drains :
                 /\ InHand(k, d)
                 /\ drain' = [drain EXCEPT ![k] = d]
                 /\ UNCHANGED <<map, queue, callback>>
                 /\ causes' = causes \cup (IF d.count = 1 /\ d.batch = <<>>
                                           THEN {"summary"} ELSE {})
<1> DEFINE x == queue[k]
           C == causes' = causes \cup
                  (IF drain'[k].at = "run" /\ drain'[k].count = 1 /\ drain'[k].batch = <<>>
                   THEN {"summary"} ELSE {})
           D(d) == /\ d \in Drains /\ InHand(k, d)
                   /\ drain' = [drain EXCEPT ![k] = d]
                   /\ UNCHANGED <<map, queue, callback>>
<1>1. /\ drain[k].at = "debounce" /\ C /\ (StepCollect(k) \/ StepFollowup(k))
      /\ UNCHANGED <<agentVars, fails, clears, inputVars, accepted, homes, delivered,
                     excused>>
  BY DEF Step
<1>2. /\ x \in QueueObjects /\ x.items \in Seq(Messages) /\ Len(x.items) \in Nat
      /\ drain \in [Queues -> Drains] /\ drain[k].force \in BOOLEAN
  BY LenProperties DEF TypeOK, QueueObjects, Drains
<1>3. ASSUME Finish(queue, k) PROVE UNCHANGED causes
  <2>1. drain'[k] = Idle \/ drain'[k] = Waiting(FALSE)
    BY <1>3, FinishShape
  <2>2. drain'[k].at # "run"
    BY <2>1, Constants
  <2> QED
    BY <1>1, <2>2
<1>4. ASSUME NEW d, D(d)
      PROVE  causes' = causes \cup (IF d.count = 1 /\ d.batch = <<>> THEN {"summary"} ELSE {})
  <2>1. drain'[k] = d /\ d.at = "run"
    BY <1>2, <1>4 DEF InHand
  <2> QED
    BY <1>1, <2>1
<1>5. Finish(queue, k) \/ \E d : D(d)
  <2>1. CASE StepCollect(k)
    <3> DEFINE alone == drain[k].force \/ Mixed(x.items)
               d1 == [at |-> "run", batch |-> <<Head(x.items)>>, count |-> 1,
                      told |-> {}, force |-> TRUE]
               d2 == [at |-> "run", batch |-> x.items, count |-> Len(x.items),
                      told |-> Report(x), force |-> FALSE]
    <3>1. x.settings.mode = "collect"
      BY <2>1 DEF StepCollect
    <3>2. CASE alone /\ x.items # <<>>
      <4>1. drain' = [drain EXCEPT ![k] = d1] /\ UNCHANGED <<map, queue, callback>>
        BY <2>1, <3>2 DEF StepCollect, Deliver
      <4>2. d1 \in Drains /\ InHand(k, d1)
        BY <3>1, <3>2, OneInHand DEF Drains, InHand
      <4> QED
        BY <4>1, <4>2
    <3>3. CASE ~alone /\ (x.items # <<>> \/ x.lastRun)
      <4>1. drain' = [drain EXCEPT ![k] = d2] /\ UNCHANGED <<map, queue, callback>>
        BY <2>1, <3>3 DEF StepCollect, Deliver
      <4>2. d2 \in Drains /\ InHand(k, d2)
        BY <1>2, <3>1, ReportIs DEF Drains, InHand
      <4> QED
        BY <4>1, <4>2
    <3>4. CASE ~(alone /\ x.items # <<>>) /\ ~(~alone /\ (x.items # <<>> \/ x.lastRun))
      BY <2>1, <3>4, Zenon DEF StepCollect
    <3> QED
      BY <3>2, <3>3, <3>4
  <2>2. CASE StepFollowup(k)
    <3> DEFINE told == Report(x)
               d3 == [at |-> "run", batch |-> <<Head(x.items)>>, count |-> 1,
                      told |-> told, force |-> drain[k].force]
               d4 == [at |-> "run", batch |-> <<>>, count |-> 1,
                      told |-> told, force |-> drain[k].force]
    <3>1. x.settings.mode = "followup"
      BY <2>2 DEF StepFollowup
    <3>2. CASE x.items # <<>> /\ (told # {} => x.lastRun) /\ told = {}
      <4>1. drain' = [drain EXCEPT ![k] = d3] /\ UNCHANGED <<map, queue, callback>>
        BY <2>2, <3>2 DEF StepFollowup, Deliver
      <4>2. d3 \in Drains /\ InHand(k, d3)
        BY <1>2, <3>1, <3>2, OneInHand, ReportIs DEF Drains, InHand
      <4> QED
        BY <4>1, <4>2
    <3>3. CASE x.items # <<>> /\ (told # {} => x.lastRun) /\ told # {}
      <4>1. drain' = [drain EXCEPT ![k] = d4] /\ UNCHANGED <<map, queue, callback>>
        BY <2>2, <3>3 DEF StepFollowup, Deliver
      <4>2. d4 \in Drains /\ InHand(k, d4)
        BY <1>2, <3>1, <3>3, OneInHand, ReportIs DEF Drains, InHand
      <4> QED
        BY <4>1, <4>2
    <3>4. CASE ~(x.items # <<>> /\ (told # {} => x.lastRun))
      BY <2>2, <3>4 DEF StepFollowup
    <3> QED
      BY <3>2, <3>3, <3>4
  <2> QED
    BY <1>1, <2>1, <2>2
<1> HIDE DEF C, D
<1>6. CASE Finish(queue, k)
  BY <1>1, <1>3, <1>6
<1>7. CASE \E d : D(d)
  BY <1>1, <1>4, <1>7 DEF D
<1> QED
  BY <1>5, <1>6, <1>7


\* What is cut from a queue after a delivery, and what is left of it.
Cut(k) == IF drain[k].count > Len(queue[k].items) THEN Len(queue[k].items)
          ELSE drain[k].count
Rest(k) ==
  [queue[k] EXCEPT !.items = SubSeq(@, Cut(k) + 1, Len(@)),
                   !.dropped = IF drain[k].told = {} THEN @ ELSE {}]

LEMMA RestIs ==
  ASSUME TypeOK, NEW k \in Queues
  PROVE  LET x == queue[k].items IN
         /\ Rest(k) \in QueueObjects
         /\ Cut(k) \in 0 .. Len(x)
         /\ Cut(k) <= drain[k].count
         /\ Len(Rest(k).items) = Len(x) - Cut(k)
         /\ \A i \in 1 .. Len(x) - Cut(k) : Rest(k).items[i] = x[i + Cut(k)]
         /\ Rest(k).dropped = IF drain[k].told = {} THEN queue[k].dropped ELSE {}
         /\ Rest(k).settings = queue[k].settings
<1> DEFINE x == queue[k].items
           n == Cut(k)
           gone == IF drain[k].told = {} THEN queue[k].dropped ELSE {}
           cut == SubSeq(x, n + 1, Len(x))
<1>1. /\ queue[k] \in QueueObjects /\ x \in Seq(Messages) /\ Len(x) \in Nat
      /\ drain[k].count \in Nat
  BY LenProperties DEF TypeOK, QueueObjects, Drains
<1>2. n \in 0 .. Len(x) /\ n <= drain[k].count
  BY <1>1 DEF Cut
<1>3. /\ cut \in Seq(Messages) /\ Len(cut) = Len(x) - n
      /\ \A i \in 1 .. Len(x) - n : cut[i] = x[i + n]
  <2> HIDE DEF n
  <2> QED  BY <1>1, <1>2, CutFront
<1>4. Rest(k) = [queue[k] EXCEPT !.items = cut, !.dropped = gone]
  BY DEF Rest
<1>5. gone \in SUBSET Messages
  BY <1>1 DEF QueueObjects
<1> HIDE DEF cut, gone, n
<1>6. Rest(k) \in QueueObjects /\ Rest(k).items = cut /\ Rest(k).dropped = gone
      /\ Rest(k).settings = queue[k].settings
  BY <1>1, <1>3, <1>4, <1>5 DEF QueueObjects
<1> QED
  BY <1>2, <1>3, <1>6 DEF n, gone

LEMMA DeliveredShape ==
  ASSUME TypeOK, NEW k \in Queues, Delivered(k)
  PROVE  /\ drain[k].at = "run" /\ drain[k] \in Drains
         /\ delivered' = delivered \o drain[k].batch
         /\ excused' = excused \cup drain[k].told
         /\ UNCHANGED <<agentVars, fails, clears, inputVars, accepted, homes, causes>>
         /\ queue' = [queue EXCEPT ![k] = Rest(k)]
         /\ drain' \in [Queues -> Drains] /\ callback' \in BOOLEAN
         /\ \A j \in Queues \ {k} : drain'[j] = drain[j]
         /\ \/ NothingLeft(Rest(k)) /\ map' = None /\ drain'[k] = Idle
            \/ /\ ~NothingLeft(Rest(k)) /\ UNCHANGED <<map, callback>>
               /\ drain'[k] = Waiting(drain[k].force)
<1> DEFINE queues == [queue EXCEPT ![k] = Rest(k)]
<1>1. /\ queues[k] = Rest(k) /\ drain \in [Queues -> Drains] /\ drain[k] \in Drains
      /\ callback \in BOOLEAN /\ drain[k].force \in BOOLEAN
  BY DEF TypeOK, Drains
<1>2. /\ drain[k].at = "run"
      /\ delivered' = delivered \o drain[k].batch
      /\ excused' = excused \cup drain[k].told
      /\ IF NothingLeft(Rest(k))
         THEN Finish(queues, k)
         ELSE /\ queue' = queues
              /\ drain' = [drain EXCEPT ![k] = Waiting(drain[k].force)]
              /\ UNCHANGED <<map, callback>>
      /\ UNCHANGED <<agentVars, fails, clears, inputVars, accepted, homes, causes>>
  BY DEF Delivered, Rest, Cut
<1>3. CASE NothingLeft(Rest(k))
  <2>1. queue' = queues /\ drain' = [drain EXCEPT ![k] = Idle] /\ map' = None
        /\ UNCHANGED callback
    BY <1>1, <1>2, <1>3 DEF Finish
  <2>2. Idle \in Drains
    BY Constants
  <2> QED
    BY <1>1, <1>2, <1>3, <2>1, <2>2
<1>4. CASE ~NothingLeft(Rest(k))
  <2>1. Waiting(drain[k].force) \in Drains
    BY <1>1, Constants
  <2> QED
    BY <1>1, <1>2, <1>4, <2>1
<1> QED
  BY <1>3, <1>4

---------------------------------------------------------------------------
(* Type correctness *)

LEMMA InitType == Init => TypeOK /\ FewOutlive
<1> SUFFICES ASSUME Init PROVE TypeOK /\ FewOutlive
  OBVIOUS
<1>1. TypeOK
  <2>1. queue \in [Queues -> QueueObjects] /\ drain \in [Queues -> Drains]
    BY Constants DEF Init
  <2>2. \A k \in Queues : queue[k].items = <<>>
    BY Constants DEF Init
  <2>3. <<>> \in Seq(Messages) /\ homes \in [Messages -> Queues \cup {None}]
    BY DEF Init
  <2>4. /\ turns \in 0 .. MaxTurns /\ fails \in 0 .. MaxFails /\ clears \in 0 .. MaxClears
        /\ arrived \in 0 .. Count
    BY FollowupTypes DEF Init
  <2>5. accepted \in Seq(Messages) /\ delivered \in Seq(Messages)
    BY <2>3 DEF Init
  <2>6. map \in Queues \cup {None} /\ callback \in BOOLEAN /\ turn \in BOOLEAN
        /\ inbox \subseteq 1 .. arrived /\ settings \in Plans
        /\ excused \subseteq Messages /\ causes \subseteq Causes
    BY DEF Init
  <2> QED
    BY <2>1, <2>2, <2>3, <2>4, <2>5, <2>6 DEF TypeOK
<1>2. Outliving = {}
  BY Constants DEF Init, Outliving, IsDraining
<1> QED
  BY <1>1, <1>2, FS_EmptySet DEF Init, FewOutlive

LEMMA StepType == TypeOK /\ FewOutlive /\ [Next]_vars => TypeOK'
<1> SUFFICES ASSUME TypeOK, FewOutlive, [Next]_vars PROVE TypeOK'
  OBVIOUS
<1> USE DEF queueVars, agentVars, history, inputVars
<1>0. map \in Queues \cup {None} /\ callback \in BOOLEAN
  BY DEF TypeOK
<1>1. CASE BeginTurn
  BY <1>1, FollowupTypes DEF BeginTurn, TypeOK
<1>2. CASE EndTurn
  <2>1. Schedule(queue, drain, map)
        /\ turn' = FALSE /\ UNCHANGED <<queue, turns, fails, clears, inputVars, history>>
    BY <1>2 DEF EndTurn
  <2>2. drain \in [Queues -> Drains]
    BY DEF TypeOK
  <2>3. callback' \in BOOLEAN /\ drain' \in [Queues -> Drains] /\ map' \in Queues \cup {None}
    BY <1>0, <2>1, <2>2, ScheduleShape, ZenonT(60)
  <2> QED
    BY <2>1, <2>3 DEF TypeOK
<1>3. ASSUME NEW m \in Messages, Arrive(m) PROVE TypeOK'
  BY <1>3, FollowupTypes DEF Arrive, TypeOK, Messages
<1>4. ASSUME NEW m \in Messages, Enqueue(m) PROVE TypeOK'
  <2> DEFINE s == settings[m]
  <2>1. s \in SettingsType
    BY SettingsAre
  <2>2. /\ GetQueue(s) \in QueueObjects
        /\ GetQueue(s).items = IF map = None THEN <<>> ELSE queue[map].items
    BY <2>1, GetQueueIs
  <2> DEFINE Enqueued(k, y) ==
               /\ k \in Queues /\ y \in QueueObjects
               /\ queue' = [queue EXCEPT ![k] = y]
               /\ y.items # <<>> => \E i \in Messages : Len(y.items) <= settings[i].cap
               /\ map' \in Queues \cup {None} /\ drain' \in [Queues -> Drains]
               /\ callback' \in BOOLEAN
               /\ accepted' \in Seq(Messages)
               /\ homes' \in [Messages -> Queues \cup {None}]
               /\ excused' \subseteq Messages
               /\ causes' \subseteq Causes
               /\ inbox' \subseteq inbox
               /\ UNCHANGED <<agentVars, fails, clears, arrived, settings, delivered>>
  <2>3. ASSUME NEW k, NEW y, Enqueued(k, y) PROVE TypeOK'
    <3>1. queue' \in [Queues -> QueueObjects]
      BY <2>3 DEF TypeOK
    <3>2. \A j \in Queues : queue'[j].items # <<>> =>
            \E i \in Messages : Len(queue'[j].items) <= settings'[i].cap
      BY <2>3 DEF TypeOK
    <3>3. inbox' \subseteq 1 .. arrived'
      BY <2>3 DEF TypeOK
    <3> QED
      BY <2>3, <3>1, <3>2, <3>3 DEF TypeOK
  <2>4. PICK k \in Queues :
           /\ Home(k) /\ inbox' = inbox \ {m}
           /\ UNCHANGED <<agentVars, fails, clears, arrived, settings, delivered>>
           /\ causes' = causes
                \cup (IF map # None /\ settings[m] # queue[map].settings
                      THEN {"settings"} ELSE {})
                \cup (IF m \in ToSet(accepted') /\ Overflow(GetQueue(settings[m])) # <<>>
                           /\ drain[k].at = "run" THEN {"overflow"} ELSE {})
           /\ \/ /\ \E l \in BOOLEAN :
                      queue' = [queue EXCEPT ![k] = [GetQueue(settings[m]) EXCEPT !.lastRun = l]]
                 /\ map' = k /\ UNCHANGED <<drain, callback, accepted, homes, excused>>
              \/ /\ queue' = [queue EXCEPT ![k] = Taken(m, settings[m])]
                 /\ accepted' = Append(accepted, m)
                 /\ homes' = [homes EXCEPT ![m] = k]
                 /\ excused' = excused \cup
                      (IF settings[m].policy = "old"
                       THEN ToSet(Overflow(GetQueue(settings[m]))) ELSE {})
                 /\ \/ callback /\ Schedule(queue', drain, k)
                    \/ ~callback /\ map' = k /\ UNCHANGED <<drain, callback>>
    BY <1>4, EnqueueShape
  <2>5. causes' \subseteq Causes
    BY <2>4 DEF TypeOK, Causes
  <2>6. CASE /\ \E l \in BOOLEAN :
                  queue' = [queue EXCEPT ![k] = [GetQueue(s) EXCEPT !.lastRun = l]]
             /\ map' = k /\ UNCHANGED <<drain, callback, accepted, homes, excused>>
    <3>1. PICK l \in BOOLEAN : queue' = [queue EXCEPT ![k] = [GetQueue(s) EXCEPT !.lastRun = l]]
      BY <2>6
    <3> DEFINE y == [GetQueue(s) EXCEPT !.lastRun = l]
    <3>2. y \in QueueObjects /\ y.items = GetQueue(s).items
      BY <2>2 DEF QueueObjects
    <3>3. y.items # <<>> => \E i \in Messages : Len(y.items) <= settings[i].cap
      BY <1>0, <2>2, <3>2 DEF TypeOK
    <3>4. queue' = [queue EXCEPT ![k] = y]
      BY <3>1
    <3> HIDE DEF y
    <3>5. Enqueued(k, y)
      BY <2>4, <2>5, <2>6, <3>2, <3>3, <3>4 DEF TypeOK
    <3> HIDE DEF Enqueued
    <3> QED
      BY <2>3, <3>5
  <2>7. CASE /\ queue' = [queue EXCEPT ![k] = Taken(m, settings[m])]
             /\ accepted' = Append(accepted, m)
             /\ homes' = [homes EXCEPT ![m] = k]
             /\ excused' = excused \cup
                  (IF settings[m].policy = "old"
                   THEN ToSet(Overflow(GetQueue(settings[m]))) ELSE {})
             /\ \/ callback /\ Schedule(queue', drain, k)
                \/ ~callback /\ map' = k /\ UNCHANGED <<drain, callback>>
    <3> DEFINE y == Taken(m, s)
    <3>1. y \in QueueObjects /\ Len(y.items) <= settings[m].cap
      BY <2>1, TakenIs
    <3>2. accepted' \in Seq(Messages)
      BY <2>7, AppendProperties DEF TypeOK
    <3>3. homes' \in [Messages -> Queues \cup {None}]
      BY <2>7 DEF TypeOK
    <3>4. excused' \subseteq Messages
      <4>1. Overflow(GetQueue(s)) \in Seq(Messages)
        BY <2>2, OverflowIs
      <4>2. ToSet(Overflow(GetQueue(s))) \subseteq Messages
        BY <4>1, ToSetOf, ElementOfSeq
      <4> QED
        BY <2>7, <4>2 DEF TypeOK
    <3>5. map' \in Queues \cup {None} /\ drain' \in [Queues -> Drains] /\ callback' \in BOOLEAN
      <4>1. drain \in [Queues -> Drains] /\ k \in Queues \cup {None}
        BY DEF TypeOK
      <4>2. CASE callback /\ Schedule(queue', drain, k)
        <5>1. callback' \in BOOLEAN /\ drain' \in [Queues -> Drains]
              /\ (map' = k \/ map' = None)
          BY <1>0, <4>1, <4>2, ScheduleShape, ZenonT(60)
        <5> QED
          BY <4>1, <5>1
      <4>3. CASE ~callback /\ map' = k /\ UNCHANGED <<drain, callback>>
        BY <1>0, <4>1, <4>3
      <4> QED
        BY <2>7, <4>2, <4>3
    <3> HIDE DEF y
    <3>6. Enqueued(k, y)
      BY <2>4, <2>5, <2>7, <3>1, <3>2, <3>3, <3>4, <3>5 DEF y
    <3> HIDE DEF Enqueued
    <3> QED
      BY <2>3, <3>6
  <2> QED
    BY <2>4, <2>6, <2>7
<1>5. ASSUME NEW k \in Queues, Finish(queue, k), turn' \in BOOLEAN, fails' \in 0 .. MaxFails,
             turns' \in 0 .. MaxTurns,
             UNCHANGED <<clears, inputVars, history>>
      PROVE  TypeOK'
  <2>1. /\ queue' = queue /\ callback' \in BOOLEAN /\ drain' \in [Queues -> Drains]
        /\ map' \in {None, map}
    BY <1>5, FinishShape
  <2> QED
    BY <1>5, <2>1 DEF TypeOK
<1>6. ASSUME NEW k \in Queues, Step(k) PROVE TypeOK'
  <2>1. CASE Finish(queue, k) /\ UNCHANGED causes
    BY <1>5, <1>6, <2>1 DEF Step, TypeOK
  <2>2. CASE \E d \in Drains :
                 /\ drain' = [drain EXCEPT ![k] = d]
                 /\ UNCHANGED <<map, queue, callback>>
                 /\ causes' = causes \cup (IF d.count = 1 /\ d.batch = <<>>
                                           THEN {"summary"} ELSE {})
    BY <1>6, <2>2 DEF TypeOK, Causes, Step
  <2> QED
    BY <1>6, <2>1, <2>2, StepShape
<1>7. ASSUME NEW k \in Queues, Delivered(k) PROVE TypeOK'
  <2>1. /\ delivered' = delivered \o drain[k].batch /\ drain[k] \in Drains
        /\ excused' = excused \cup drain[k].told
        /\ UNCHANGED <<agentVars, fails, clears, inputVars, accepted, homes, causes>>
        /\ queue' = [queue EXCEPT ![k] = Rest(k)]
        /\ drain' \in [Queues -> Drains] /\ callback' \in BOOLEAN
        /\ map' \in Queues \cup {None}
    BY <1>0, <1>7, DeliveredShape
  <2>2. /\ Rest(k) \in QueueObjects /\ Cut(k) \in 0 .. Len(queue[k].items)
        /\ Len(Rest(k).items) = Len(queue[k].items) - Cut(k)
    BY RestIs
  <2>3. delivered' \in Seq(Messages) /\ excused' \subseteq Messages
    BY <2>1, ConcatProperties DEF TypeOK, Drains
  <2>4. queue' \in [Queues -> QueueObjects]
    BY <2>1, <2>2 DEF TypeOK
  <2>5. \A j \in Queues : queue'[j].items # <<>> =>
            \E i \in Messages : Len(queue'[j].items) <= settings'[i].cap
    <3>1. ASSUME Rest(k).items # <<>>
          PROVE  \E i \in Messages : Len(Rest(k).items) <= settings[i].cap
      <4>1. queue[k].items \in Seq(Messages) /\ Rest(k).items \in Seq(Messages)
        BY <2>2 DEF TypeOK, QueueObjects
      <4>2. queue[k].items # <<>>
        BY <2>2, <3>1, <4>1, EmptySeq
      <4>3. PICK i \in Messages : Len(queue[k].items) <= settings[i].cap
        BY <4>2 DEF TypeOK
      <4>4. settings[i].cap \in Nat /\ Len(queue[k].items) \in Nat
        BY <4>1, LenProperties, SettingsAre DEF SettingsType
      <4> QED
        BY <2>2, <4>3, <4>4
    <3> QED
      BY <2>1, <3>1 DEF TypeOK
  <2> QED
    BY <2>1, <2>3, <2>4, <2>5 DEF TypeOK
<1>8. ASSUME NEW k \in Queues, DeliveryFails(k) PROVE TypeOK'
  BY <1>5, <1>8, FollowupTypes DEF DeliveryFails, TypeOK
<1>9. CASE Clear
  <2>0. /\ clears' \in 0 .. MaxClears /\ callback' = FALSE /\ map' = None
        /\ causes' \subseteq Causes
        /\ UNCHANGED <<drain, agentVars, fails, inputVars, accepted, homes, delivered>>
    BY <1>9, FollowupTypes DEF Clear, TypeOK, Causes
  <2>1. CASE map = None
    <3>1. UNCHANGED <<queue, excused>>
      BY <1>9, <2>1 DEF Clear
    <3> QED
      BY <2>0, <3>1 DEF TypeOK
  <2>2. CASE map # None
    <3> DEFINE y == [queue[map] EXCEPT !.items = <<>>, !.dropped = {}, !.lastRun = FALSE]
    <3>1. map \in Queues /\ queue[map] \in QueueObjects
      BY <1>0, <2>2 DEF TypeOK
    <3>2. y \in QueueObjects /\ y.items = <<>>
      <4>1. <<>> \in Seq(Messages)
        OBVIOUS
      <4> QED
        BY <3>1, <4>1 DEF QueueObjects
    <3>3. queue' = [queue EXCEPT ![map] = y]
          /\ excused' = excused \cup ToSet(queue[map].items) \cup queue[map].dropped
      BY <1>9, <2>2 DEF Clear
    <3>4. excused' \subseteq Messages
      BY <3>1, <3>3, ToSetOf, ElementOfSeq DEF TypeOK, QueueObjects
    <3> HIDE DEF y
    <3>5. queue' \in [Queues -> QueueObjects]
          /\ \A j \in Queues : queue'[j].items # <<>> =>
               \E i \in Messages : Len(queue'[j].items) <= settings'[i].cap
      BY <2>0, <3>1, <3>2, <3>3 DEF TypeOK
    <3> QED
      BY <2>0, <3>4, <3>5 DEF TypeOK
  <2> QED
    BY <2>1, <2>2
<1>10. CASE UNCHANGED vars
  BY <1>10 DEF vars, TypeOK
<1> QED
  BY <1>1, <1>2, <1>3, <1>4, <1>6, <1>7, <1>8, <1>9, <1>10 DEF Next


\* Cardinalities: a set that grows by one, and one that exchanges a member.
LEMMA GrowsByOne ==
  ASSUME NEW A, IsFiniteSet(A), NEW B \in SUBSET A, NEW b, NEW C, C \subseteq B \cup {b}
  PROVE  Cardinality(C) <= Cardinality(B) + 1
<1>1. IsFiniteSet(B)
  BY FS_Subset
<1>2. /\ IsFiniteSet(B \cup {b}) /\ Cardinality(B) \in Nat
      /\ Cardinality(B \cup {b}) = IF b \in B THEN Cardinality(B) ELSE Cardinality(B) + 1
  BY <1>1, FS_AddElement, FS_CardinalityType
<1>3. Cardinality(C) <= Cardinality(B \cup {b}) /\ Cardinality(C) \in Nat
  BY <1>2, FS_Subset, FS_CardinalityType
<1> QED
  BY <1>2, <1>3, FS_CardinalityType

LEMMA Exchanges ==
  ASSUME NEW A, IsFiniteSet(A), NEW B \in SUBSET A, NEW a \in B, NEW b,
         NEW C, C \subseteq (B \ {a}) \cup {b}
  PROVE  Cardinality(C) <= Cardinality(B)
<1>1. IsFiniteSet(B) /\ Cardinality(B) \in Nat
  BY FS_Subset, FS_CardinalityType
<1>2. Cardinality(B \ {a}) = Cardinality(B) - 1
  BY <1>1, FS_RemoveElement
<1>3. Cardinality(C) <= Cardinality(B \ {a}) + 1
  <2>1. B \ {a} \in SUBSET B
    OBVIOUS
  <2> QED
    BY <1>1, <2>1, GrowsByOne
<1>4. Cardinality(C) \in Nat
  <2>1. IsFiniteSet((B \ {a}) \cup {b})
    BY <1>1, FS_RemoveElement, FS_AddElement
  <2> QED
    BY <2>1, FS_Subset, FS_CardinalityType
<1> QED
  BY <1>1, <1>2, <1>3, <1>4

LEMMA OutliveStep == TypeOK /\ FewOutlive /\ [Next]_vars => FewOutlive'
<1> SUFFICES ASSUME TypeOK, FewOutlive, [Next]_vars PROVE FewOutlive'
  OBVIOUS
<1> USE DEF queueVars, agentVars, history, inputVars
<1> DEFINE O == {k \in Queues : IsDraining(k) /\ k # map}
           P == {k \in Queues : drain'[k].at # "idle" /\ k # map'}
           Fewer == \/ P \subseteq O /\ UNCHANGED clears
                    \/ \E a \in O, b \in Queues :
                         P \subseteq (O \ {a}) \cup {b} /\ UNCHANGED clears
                    \/ \E b : P \subseteq O \cup {b} /\ clears' = clears + 1
<1>0. /\ IsFiniteSet(Queues) /\ O \in SUBSET Queues /\ clears \in Nat
      /\ Cardinality(O) <= clears /\ Cardinality(O) \in Nat
      /\ map \in Queues \cup {None} /\ callback \in BOOLEAN /\ None \notin Queues
      /\ drain \in [Queues -> Drains]
  <2>1. IsFiniteSet(O) /\ O \in SUBSET Queues
    BY EnoughQueues, FS_Subset
  <2> QED
    BY <2>1, EnoughQueues, FollowupTypes, FS_CardinalityType DEF FewOutlive, Outliving, TypeOK
<1>1. SUFFICES Fewer
  <2>1. Outliving' = P
    BY DEF Outliving, IsDraining
  <2> HIDE DEF O, P
  <2>2. ASSUME P \subseteq O, UNCHANGED clears PROVE FewOutlive'
    <3>1. Cardinality(P) <= Cardinality(O) /\ Cardinality(P) \in Nat
      BY <1>0, <2>2, FS_Subset, FS_CardinalityType
    <3> QED
      BY <1>0, <2>1, <2>2, <3>1 DEF FewOutlive
  <2>3. ASSUME NEW a \in O, NEW b \in Queues, P \subseteq (O \ {a}) \cup {b}, UNCHANGED clears
        PROVE  FewOutlive'
    <3>1. Cardinality(P) <= Cardinality(O)
      BY <1>0, <2>3, Exchanges
    <3>2. Cardinality(P) \in Nat
      <4>1. P \subseteq Queues
        BY <1>0, <2>3
      <4> QED
        BY <1>0, <4>1, FS_Subset, FS_CardinalityType
    <3> QED
      BY <1>0, <2>1, <2>3, <3>1, <3>2 DEF FewOutlive
  <2>4. ASSUME NEW b, P \subseteq O \cup {b}, clears' = clears + 1 PROVE FewOutlive'
    <3>1. Cardinality(P) <= Cardinality(O) + 1
      BY <1>0, <2>4, GrowsByOne
    <3>2. Cardinality(P) \in Nat
      <4>1. P \subseteq Queues
        BY DEF P
      <4> QED
        BY <1>0, <4>1, FS_Subset, FS_CardinalityType
    <3> QED
      BY <1>0, <2>1, <2>4, <3>1, <3>2 DEF FewOutlive
  <2> QED
    BY <2>2, <2>3, <2>4
<1>2. ASSUME UNCHANGED <<map, drain, clears>> PROVE P \subseteq O
  BY <1>2 DEF IsDraining
<1>3. CASE BeginTurn \/ UNCHANGED vars \/ \E m \in Messages : Arrive(m)
  BY <1>2, <1>3 DEF BeginTurn, vars, Arrive
<1>4. CASE EndTurn
  <2>1. Schedule(queue, drain, map) /\ UNCHANGED clears
    BY <1>4 DEF EndTurn
  <2>2. /\ (map' = map \/ (map' = None /\ map # None /\ drain[map].at = "idle"))
        /\ \A j \in Queues : drain'[j] = drain[j] \/ (j = map /\ map' = map)
    BY <1>0, <2>1, ScheduleShape, ZenonT(60)
  <2>3. P \subseteq O
    BY <1>0, <2>2 DEF IsDraining
  <2> QED
    BY <2>1, <2>3
<1>5. ASSUME NEW m \in Messages, Enqueue(m) PROVE P \subseteq O /\ UNCHANGED clears
  <2>1. PICK k \in Queues :
           /\ Home(k) /\ UNCHANGED clears
           /\ \/ map' = k /\ UNCHANGED drain
              \/ Schedule(queue', drain, k)
    BY <1>5, EnqueueShape
  <2>2. /\ (map' = k \/ (map' = None /\ drain[k].at = "idle"))
        /\ \A j \in Queues : drain'[j] = drain[j] \/ (j = k /\ map' = k)
    <3>1. CASE map' = k /\ UNCHANGED drain
      BY <3>1
    <3>2. CASE Schedule(queue', drain, k)
      <4>1. k \in Queues \cup {None}
        OBVIOUS
      <4> QED
        BY <1>0, <3>2, <4>1, ScheduleShape, ZenonT(60)
    <3> QED
      BY <2>1, <3>1, <3>2
  <2>3. map = None \/ k = map
    BY <2>1 DEF Home
  <2>4. map = None => drain[k].at = "idle"
    BY <2>1 DEF Home, IsLive, IsDraining
  <2> QED
    BY <1>0, <2>1, <2>2, <2>3, <2>4 DEF IsDraining
<1>6. ASSUME NEW qs, NEW k \in Queues, Finish(qs, k), UNCHANGED clears, IsDraining(k)
      PROVE  \/ P \subseteq O
             \/ \E a \in O, b \in Queues : P \subseteq (O \ {a}) \cup {b}
  <2>1. /\ (map' = map \/ map' = None)
        /\ drain'[k] = Idle \/ (k = map /\ map' = k)
        /\ \A j \in Queues \ {k} : drain'[j] = drain[j] \/ (j = map /\ map' = j)
    BY <1>6, FinishShape, Zenon
  <2>2. Idle.at = "idle"
    BY Constants
  <2>3. CASE map' = map
    BY <1>0, <2>1, <2>2, <2>3 DEF IsDraining
  <2>4. CASE map' = None
    <3>1. \A j \in P : j # k /\ IsDraining(j)
      BY <1>0, <2>1, <2>2, <2>4 DEF IsDraining
    <3>2. CASE map = k \/ map = None
      BY <1>0, <3>1, <3>2
    <3>3. CASE map # k /\ map # None
      <4>1. k \in O /\ map \in Queues
        BY <1>0, <1>6, <3>3
      <4>2. P \subseteq (O \ {k}) \cup {map}
        BY <3>1
      <4> QED
        BY <4>1, <4>2
    <3> QED
      BY <3>2, <3>3
  <2> QED
    BY <2>1, <2>3, <2>4
<1>7. ASSUME NEW k \in Queues, Step(k) \/ DeliveryFails(k) PROVE Fewer
  <2>1. IsDraining(k) /\ UNCHANGED clears
    BY <1>7 DEF Step, DeliveryFails, IsDraining
  <2>2. CASE Finish(queue, k)
    BY <1>6, <2>1, <2>2
  <2>3. CASE Step(k) /\ ~Finish(queue, k)
    <3>1. PICK d \in Drains : drain' = [drain EXCEPT ![k] = d] /\ UNCHANGED map
      BY <2>3, StepShape
    <3>2. P \subseteq O
      BY <1>0, <2>1, <3>1 DEF IsDraining
    <3> QED
      BY <2>1, <3>2
  <2> QED
    BY <1>7, <2>2, <2>3 DEF DeliveryFails
<1>8. ASSUME NEW k \in Queues, Delivered(k) PROVE Fewer
  <2>1. IsDraining(k)
    BY <1>8 DEF Delivered, IsDraining
  <2>2. UNCHANGED clears
    BY <1>8 DEF Delivered
  <2>3. CASE NothingLeft(Rest(k))
    <3>1. Finish([queue EXCEPT ![k] = Rest(k)], k)
      BY <1>8, <2>3 DEF Delivered, Rest, Cut
    <3> QED
      BY <1>6, <2>1, <2>2, <3>1
  <2>4. CASE ~NothingLeft(Rest(k))
    <3>1. UNCHANGED map /\ \A j \in Queues \ {k} : drain'[j] = drain[j]
      BY <1>8, <2>4, DeliveredShape
    <3>2. P \subseteq O
      BY <2>1, <3>1 DEF IsDraining
    <3> QED
      BY <2>2, <3>2
  <2> QED
    BY <2>3, <2>4
<1>9. CASE Clear
  <2>1. P \subseteq O \cup {map} /\ clears' = clears + 1
    BY <1>9 DEF Clear, IsDraining
  <2> QED
    BY <2>1
<1> QED
  BY <1>3, <1>4, <1>5, <1>7, <1>8, <1>9 DEF Next

LEMMA TypesHold == Spec => [](TypeOK /\ FewOutlive)
BY InitType, StepType, OutliveStep, PTL DEF Spec

\* The state keeps its types, and a queue holds no more than some message's cap lets
\* it (applyQueueDropPolicy), for any messages, settings and interleavings.
THEOREM QueueTypes == Spec => []TypeOK
BY TypesHold, PTL


---------------------------------------------------------------------------
(* Order.  The operators take the histories as arguments: the messages that were
   accepted, the queues that took them, the messages that were delivered. *)

Before(acc, a, b) ==
  \E i, j \in 1 .. Len(acc) : i < j /\ acc[i] = a /\ acc[j] = b

\* The messages s wait in queue k, in the order it took them, later than all that
\* was delivered of it.
InOrder(acc, s) == \A i, j \in 1 .. Len(s) : i < j => Before(acc, s[i], s[j])
OfQueue(hom, s, k) == \A i \in 1 .. Len(s) : hom[s[i]] = k
AfterDelivered(acc, hom, del, s, k) ==
  \A i \in 1 .. Len(del), j \in 1 .. Len(s) :
    hom[del[i]] = k => Before(acc, del[i], s[j])
Pending(acc, hom, del, s, k) ==
  InOrder(acc, s) /\ OfQueue(hom, s, k) /\ AfterDelivered(acc, hom, del, s, k)

\* Of the items x all but the first n are later than the batch b.
Precede(acc, b, x, n) ==
  \A i \in 1 .. Len(b), j \in 1 .. Len(x) : j > n => Before(acc, b[i], x[j])

\* The items x of queue k and its drain d.
Orderly(acc, hom, del, x, d, k) ==
  /\ Pending(acc, hom, del, x, k)
  /\ Pending(acc, hom, del, d.batch, k)
  /\ Precede(acc, d.batch, x, d.count)
  /\ d.at # "run" => d.batch = <<>>

TakenOnce(acc) ==
  \A i, j \in 1 .. Len(acc) : IdOf[acc[i]] = IdOf[acc[j]] => i = j
HomesOfTaken(acc, hom) ==
  \A m \in Messages : hom[m] # None <=> \E i \in 1 .. Len(acc) : acc[i] = m
DeliveredInOrder(acc, hom, del) ==
  \A i, j \in 1 .. Len(del) :
    i < j /\ hom[del[i]] = hom[del[j]] => Before(acc, del[i], del[j])
DeliveredTaken(hom, del) == \A i \in 1 .. Len(del) : hom[del[i]] # None

OrderInv ==
  /\ TakenOnce(accepted)
  /\ HomesOfTaken(accepted, homes)
  /\ DeliveredInOrder(accepted, homes, delivered)
  /\ DeliveredTaken(homes, delivered)
  /\ \A k \in Queues :
       Orderly(accepted, homes, delivered, queue[k].items, drain[k], k)

LEMMA PendingEmpty ==
  ASSUME NEW acc, NEW hom, NEW del, NEW k PROVE Pending(acc, hom, del, <<>>, k)
BY DEF Pending, InOrder, OfQueue, AfterDelivered

LEMMA PrecedeEmpty ==
  ASSUME NEW acc, NEW s, NEW n
  PROVE  Precede(acc, <<>>, s, n) /\ Precede(acc, s, <<>>, n)
BY DEF Precede

\* Any stretch of what is pending is pending.
LEMMA PendingPart ==
  ASSUME NEW acc, NEW hom, NEW del, NEW k, NEW s, NEW t, NEW n \in Nat,
         Pending(acc, hom, del, s, k), Len(s) \in Nat, Len(t) \in Nat,
         Len(t) + n <= Len(s), \A i \in 1 .. Len(t) : t[i] = s[i + n]
  PROVE  Pending(acc, hom, del, t, k)
<1>1. \A i \in 1 .. Len(t) : i + n \in 1 .. Len(s)
  OBVIOUS
<1>2. InOrder(acc, t)
  <2>1. \A i, j \in 1 .. Len(t) : i < j => i + n < j + n
    OBVIOUS
  <2> QED
    BY <1>1, <2>1 DEF Pending, InOrder
<1>3. OfQueue(hom, t, k)
  BY <1>1 DEF Pending, OfQueue
<1>4. AfterDelivered(acc, hom, del, t, k)
  BY <1>1 DEF Pending, AfterDelivered
<1> QED
  BY <1>2, <1>3, <1>4 DEF Pending

\* A message more is accepted: the order of the others stays, and they are before it.
Accepts(acc, hom, new, hom2, m, k) ==
  /\ acc \in Seq(Messages) /\ hom \in [Messages -> Queues \cup {None}]
  /\ m \in Messages /\ k \in Queues
  /\ \A i \in 1 .. Len(acc) : IdOf[acc[i]] # IdOf[m]
  /\ new = Append(acc, m)
  /\ hom2 = [hom EXCEPT ![m] = k]

LEMMA AcceptsFacts ==
  ASSUME NEW acc, NEW hom, NEW new, NEW hom2, NEW m, NEW k,
         Accepts(acc, hom, new, hom2, m, k), HomesOfTaken(acc, hom), TakenOnce(acc)
  PROVE  /\ new \in Seq(Messages)
         /\ \A a, b : Before(acc, a, b) => Before(new, a, b)
         /\ \A a \in Messages : hom[a] # None => Before(new, a, m)
         /\ \A a \in Messages : hom[a] # None => hom2[a] = hom[a]
         /\ hom2[m] = k /\ hom[m] = None
         /\ TakenOnce(new) /\ HomesOfTaken(new, hom2)
<1>1. /\ new \in Seq(Messages) /\ Len(new) = Len(acc) + 1 /\ Len(acc) \in Nat
      /\ \A i \in 1 .. Len(acc) : new[i] = acc[i]
      /\ new[Len(acc) + 1] = m
  BY AppendProperties, LenProperties DEF Accepts
<1>2. \A i \in 1 .. Len(acc) : acc[i] # m
  BY DEF Accepts
<1>3. hom[m] = None /\ hom2[m] = k /\ k # None /\ \A a \in Messages \ {m} : hom2[a] = hom[a]
  BY <1>2, FollowupTypes DEF Accepts, HomesOfTaken
<1>4. \A a, b : Before(acc, a, b) => Before(new, a, b)
  BY <1>1 DEF Before
<1>5. ASSUME NEW a \in Messages, hom[a] # None PROVE Before(new, a, m) /\ hom2[a] = hom[a]
  <2>1. PICK i \in 1 .. Len(acc) : acc[i] = a
    BY <1>5 DEF HomesOfTaken
  <2> QED
    BY <1>1, <1>3, <1>5, <2>1 DEF Before
<1>6. TakenOnce(new)
  <2> SUFFICES ASSUME NEW i \in 1 .. Len(new), NEW j \in 1 .. Len(new), i < j,
                      IdOf[new[i]] = IdOf[new[j]]
               PROVE  FALSE
    BY <1>1 DEF TakenOnce
  <2>1. i \in 1 .. Len(acc) /\ new[i] = acc[i]
    BY <1>1
  <2>2. CASE j = Len(acc) + 1
    BY <1>1, <2>1, <2>2 DEF Accepts
  <2>3. CASE j # Len(acc) + 1
    BY <1>1, <2>1, <2>3 DEF TakenOnce
  <2> QED
    BY <2>2, <2>3
<1>7. HomesOfTaken(new, hom2)
  <2> SUFFICES ASSUME NEW a \in Messages
               PROVE  hom2[a] # None <=> \E i \in 1 .. Len(new) : new[i] = a
    BY DEF HomesOfTaken
  <2>1. CASE a = m
    BY <1>1, <1>3, <2>1
  <2>2. CASE a # m
    BY <1>1, <1>3, <2>2 DEF HomesOfTaken
  <2> QED
    BY <2>1, <2>2
<1> QED
  BY <1>1, <1>3, <1>4, <1>5, <1>6, <1>7

LEMMA PendingAccepts ==
  ASSUME NEW acc, NEW hom, NEW new, NEW hom2, NEW m, NEW k, NEW del, NEW s, NEW j \in Queues,
         Accepts(acc, hom, new, hom2, m, k), HomesOfTaken(acc, hom), TakenOnce(acc),
         s \in Seq(Messages), del \in Seq(Messages),
         Pending(acc, hom, del, s, j), DeliveredTaken(hom, del)
  PROVE  Pending(new, hom2, del, s, j)
<1>1. /\ \A a, b : Before(acc, a, b) => Before(new, a, b)
      /\ \A a \in Messages : hom[a] # None => hom2[a] = hom[a]
  BY AcceptsFacts
<1>2. \A i \in 1 .. Len(s) : s[i] \in Messages /\ hom[s[i]] = j /\ j # None
  BY ElementOfSeq, FollowupTypes DEF Pending, OfQueue
<1>3. \A i \in 1 .. Len(del) : hom2[del[i]] = hom[del[i]]
  BY <1>1, ElementOfSeq DEF DeliveredTaken
<1>4. InOrder(new, s)
  BY <1>1 DEF Pending, InOrder
<1>5. OfQueue(hom2, s, j)
  BY <1>1, <1>2 DEF OfQueue
<1>6. AfterDelivered(new, hom2, del, s, j)
  BY <1>1, <1>3 DEF Pending, AfterDelivered
<1> QED
  BY <1>4, <1>5, <1>6 DEF Pending

\* The new message is the last of its queue.
LEMMA PendingAppended ==
  ASSUME NEW acc, NEW hom, NEW new, NEW hom2, NEW m, NEW k, NEW del, NEW s, NEW t,
         Accepts(acc, hom, new, hom2, m, k), HomesOfTaken(acc, hom), TakenOnce(acc),
         s \in Seq(Messages), del \in Seq(Messages), Len(t) = Len(s) + 1,
         \A i \in 1 .. Len(s) : t[i] = s[i], t[Len(s) + 1] = m,
         Pending(acc, hom, del, s, k), DeliveredTaken(hom, del)
  PROVE  Pending(new, hom2, del, t, k)
<1>1. k \in Queues
  BY DEF Accepts
<1>2. Pending(new, hom2, del, s, k)
  BY <1>1, PendingAccepts
<1>3. /\ \A a \in Messages : hom[a] # None => Before(new, a, m)
      /\ \A a \in Messages : hom[a] # None => hom2[a] = hom[a]
      /\ hom2[m] = k
  BY AcceptsFacts
<1>4. \A i \in 1 .. Len(s) : s[i] \in Messages /\ hom[s[i]] = k /\ k # None
  BY <1>1, ElementOfSeq, FollowupTypes DEF Pending, OfQueue
<1>5. \A i \in 1 .. Len(s) : Before(new, t[i], m)
  BY <1>3, <1>4
<1>6. Len(s) \in Nat
  BY LenProperties
<1>7. InOrder(new, t)
  <2> SUFFICES ASSUME NEW i \in 1 .. Len(t), NEW j \in 1 .. Len(t), i < j
               PROVE  Before(new, t[i], t[j])
    BY DEF InOrder
  <2>1. i \in 1 .. Len(s)
    BY <1>6
  <2>2. CASE j = Len(s) + 1
    BY <1>5, <2>1, <2>2
  <2>3. CASE j # Len(s) + 1
    BY <1>2, <1>6, <2>1, <2>3, SMTT(30) DEF Pending, InOrder
  <2> QED
    BY <2>2, <2>3
<1>8. OfQueue(hom2, t, k)
  BY <1>2, <1>3, <1>6 DEF Pending, OfQueue
<1>9. AfterDelivered(new, hom2, del, t, k)
  <2> SUFFICES ASSUME NEW i \in 1 .. Len(del), NEW j \in 1 .. Len(t), hom2[del[i]] = k
               PROVE  Before(new, del[i], t[j])
    BY DEF AfterDelivered
  <2>1. CASE j = Len(s) + 1
    <3>1. del[i] \in Messages /\ hom[del[i]] # None
      BY ElementOfSeq DEF DeliveredTaken
    <3> QED
      BY <1>3, <2>1, <3>1
  <2>2. CASE j # Len(s) + 1
    BY <1>2, <1>6, <2>2 DEF Pending, AfterDelivered
  <2> QED
    BY <2>1, <2>2
<1> QED
  BY <1>7, <1>8, <1>9 DEF Pending


\* What was behind the batch stays behind it when a full queue drops its head and
\* takes the new message.
LEMMA PrecedeAccepts ==
  ASSUME NEW acc, NEW hom, NEW new, NEW hom2, NEW m, NEW k, NEW del, NEW b, NEW s, NEW t,
         NEW c \in Nat, NEW n \in Nat,
         Accepts(acc, hom, new, hom2, m, k), HomesOfTaken(acc, hom), TakenOnce(acc),
         b \in Seq(Messages), Len(s) \in Nat, c <= Len(s), Len(t) = Len(s) - c + 1,
         \A i \in 1 .. Len(s) - c : t[i] = s[i + c], t[Len(s) - c + 1] = m,
         Pending(acc, hom, del, b, k), Precede(acc, b, s, n)
  PROVE  Precede(new, b, t, n)
<1>1. k # None
  BY FollowupTypes DEF Accepts
<1>2. /\ \A x, y : Before(acc, x, y) => Before(new, x, y)
      /\ \A x \in Messages : hom[x] # None => Before(new, x, m)
  BY AcceptsFacts
<1> SUFFICES ASSUME NEW i \in 1 .. Len(b), NEW j \in 1 .. Len(t), j > n
             PROVE  Before(new, b[i], t[j])
  BY DEF Precede
<1>3. CASE j = Len(s) - c + 1
  <2>1. b[i] \in Messages /\ hom[b[i]] # None
    BY <1>1, ElementOfSeq DEF Pending, OfQueue
  <2> QED
    BY <1>2, <1>3, <2>1
<1>4. CASE j # Len(s) - c + 1
  <2>1. j \in 1 .. Len(s) - c /\ j + c \in 1 .. Len(s) /\ j + c > n
    BY <1>4
  <2>2. Before(acc, b[i], s[j + c])
    BY <2>1 DEF Precede
  <2> QED
    BY <1>2, <2>1, <2>2
<1> QED
  BY <1>3, <1>4

\* A batch is delivered.
LEMMA DeliveredNext ==
  ASSUME NEW acc, NEW hom, NEW del \in Seq(Messages), NEW b \in Seq(Messages),
         NEW k \in Queues,
         DeliveredInOrder(acc, hom, del), DeliveredTaken(hom, del),
         Pending(acc, hom, del, b, k)
  PROVE  /\ DeliveredInOrder(acc, hom, del \o b)
         /\ DeliveredTaken(hom, del \o b)
         /\ \A s, j : j # k /\ Pending(acc, hom, del, s, j) => Pending(acc, hom, del \o b, s, j)
         /\ \A s, t, n, c :
              /\ Pending(acc, hom, del, s, k) /\ Precede(acc, b, s, n)
              /\ Len(s) \in Nat /\ n \in Nat /\ c \in Nat /\ Len(t) \in Nat
              /\ Len(t) = Len(s) - c /\ (c >= n \/ c = Len(s))
              /\ \A i \in 1 .. Len(t) : t[i] = s[i + c]
              => Pending(acc, hom, del \o b, t, k)
<1> DEFINE d == del \o b
<1>1. /\ Len(del) \in Nat /\ Len(b) \in Nat /\ Len(d) = Len(del) + Len(b)
      /\ \A i \in 1 .. Len(del) : d[i] = del[i]
      /\ \A i \in 1 .. Len(b) : d[Len(del) + i] = b[i]
  <2>1. \A i \in 1 .. Len(del) + Len(b) :
          d[i] = IF i <= Len(del) THEN del[i] ELSE b[i - Len(del)]
    BY ConcatProperties
  <2>2. Len(del) \in Nat /\ Len(b) \in Nat /\ Len(d) = Len(del) + Len(b)
    BY ConcatProperties, LenProperties
  <2> HIDE DEF d
  <2> QED
    BY <2>1, <2>2
<1> HIDE DEF d
<1>2. \A i \in 1 .. Len(d) : i \in 1 .. Len(del) \/ \E h \in 1 .. Len(b) : i = Len(del) + h
  <2> TAKE i \in 1 .. Len(d)
  <2>1. CASE i > Len(del)
    <3>1. i - Len(del) \in 1 .. Len(b) /\ i = Len(del) + (i - Len(del))
      BY <1>1, <2>1
    <3> QED
      BY <3>1
  <2> QED
    BY <1>1, <2>1
<1>3. /\ \A i \in 1 .. Len(b) : hom[b[i]] = k
      /\ k # None
  BY FollowupTypes DEF Pending, OfQueue
<1>4. DeliveredInOrder(acc, hom, d)
  <2> SUFFICES ASSUME NEW i \in 1 .. Len(d), NEW j \in 1 .. Len(d), i < j,
                      hom[d[i]] = hom[d[j]]
               PROVE  Before(acc, d[i], d[j])
    BY DEF DeliveredInOrder
  <2>1. CASE i \in 1 .. Len(del) /\ j \in 1 .. Len(del)
    BY <1>1, <2>1 DEF DeliveredInOrder
  <2>2. ASSUME i \in 1 .. Len(del), NEW h \in 1 .. Len(b), j = Len(del) + h
        PROVE  Before(acc, d[i], d[j])
    <3>1. d[i] = del[i] /\ d[j] = b[h] /\ hom[del[i]] = k
      BY <1>1, <1>3, <2>2
    <3> QED
      BY <2>2, <3>1 DEF Pending, AfterDelivered
  <2>3. ASSUME NEW g \in 1 .. Len(b), i = Len(del) + g, NEW h \in 1 .. Len(b), j = Len(del) + h
        PROVE  Before(acc, d[i], d[j])
    <3>1. d[i] = b[g] /\ d[j] = b[h] /\ g < h
      BY <1>1, <2>3
    <3> QED
      BY <3>1 DEF Pending, InOrder
  <2>4. ASSUME NEW g \in 1 .. Len(b), i = Len(del) + g, j \in 1 .. Len(del) PROVE FALSE
    BY <1>1, <2>4
  <2> QED
    BY <1>2, <2>1, <2>2, <2>3, <2>4
<1>5. DeliveredTaken(hom, d)
  <2> SUFFICES ASSUME NEW i \in 1 .. Len(d) PROVE hom[d[i]] # None
    BY DEF DeliveredTaken
  <2>1. CASE i \in 1 .. Len(del)
    BY <1>1, <2>1 DEF DeliveredTaken
  <2>2. ASSUME NEW h \in 1 .. Len(b), i = Len(del) + h PROVE hom[d[i]] # None
    BY <1>1, <1>3, <2>2
  <2> QED
    BY <1>2, <2>1, <2>2
<1>6. ASSUME NEW s, NEW j, j # k, Pending(acc, hom, del, s, j)
      PROVE  Pending(acc, hom, d, s, j)
  <2>1. AfterDelivered(acc, hom, d, s, j)
    <3> SUFFICES ASSUME NEW i \in 1 .. Len(d), NEW e \in 1 .. Len(s), hom[d[i]] = j
                 PROVE  Before(acc, d[i], s[e])
      BY DEF AfterDelivered
    <3>1. CASE i \in 1 .. Len(del)
      BY <1>1, <1>6, <3>1 DEF Pending, AfterDelivered
    <3>2. ASSUME NEW h \in 1 .. Len(b), i = Len(del) + h PROVE FALSE
      BY <1>1, <1>3, <1>6, <3>2
    <3> QED
      BY <1>2, <3>1, <3>2
  <2> QED
    BY <1>6, <2>1 DEF Pending
<1>7. ASSUME NEW s, NEW t, NEW n \in Nat, NEW c \in Nat,
             Pending(acc, hom, del, s, k), Precede(acc, b, s, n),
             Len(s) \in Nat, Len(t) \in Nat, Len(t) = Len(s) - c, c >= n \/ c = Len(s),
             \A i \in 1 .. Len(t) : t[i] = s[i + c]
      PROVE  Pending(acc, hom, d, t, k)
  <2>1. Pending(acc, hom, del, t, k)
    <3>1. Len(t) + c <= Len(s)
      BY <1>7
    <3> QED
      BY <1>7, <3>1, PendingPart
  <2>2. ASSUME NEW h \in 1 .. Len(b), NEW j \in 1 .. Len(t) PROVE Before(acc, b[h], t[j])
    <3>1. j + c \in 1 .. Len(s) /\ j + c > n
      BY <1>7
    <3> QED
      BY <1>7, <3>1 DEF Precede
  <2>3. AfterDelivered(acc, hom, d, t, k)
    <3> SUFFICES ASSUME NEW i \in 1 .. Len(d), NEW j \in 1 .. Len(t), hom[d[i]] = k
                 PROVE  Before(acc, d[i], t[j])
      BY DEF AfterDelivered
    <3>1. CASE i \in 1 .. Len(del)
      BY <1>1, <2>1, <3>1 DEF Pending, AfterDelivered
    <3>2. ASSUME NEW h \in 1 .. Len(b), i = Len(del) + h PROVE Before(acc, d[i], t[j])
      BY <1>1, <2>2, <3>2
    <3> QED
      BY <1>2, <3>1, <3>2
  <2> QED
    BY <2>1, <2>3 DEF Pending
<1>8. \A s, t, n, c :
        /\ Pending(acc, hom, del, s, k) /\ Precede(acc, b, s, n)
        /\ Len(s) \in Nat /\ n \in Nat /\ c \in Nat /\ Len(t) \in Nat
        /\ Len(t) = Len(s) - c /\ (c >= n \/ c = Len(s))
        /\ \A i \in 1 .. Len(t) : t[i] = s[i + c]
        => Pending(acc, hom, d, t, k)
  BY <1>7
<1> QED
  BY <1>4, <1>5, <1>6, <1>8 DEF d

\* A drain takes messages from the front of its queue in hand.
LEMMA TakesInHand ==
  ASSUME NEW acc, NEW hom, NEW del, NEW k, NEW x, NEW d,
         Pending(acc, hom, del, x, k), Len(x) \in Nat, Len(d.batch) \in Nat, d.count \in Nat,
         Len(d.batch) <= d.count, d.count <= Len(x),
         \A i \in 1 .. Len(d.batch) : d.batch[i] = x[i], d.at = "run"
  PROVE  Orderly(acc, hom, del, x, d, k)
<1>1. Pending(acc, hom, del, d.batch, k)
  <2>1. \A i \in 1 .. Len(d.batch) : d.batch[i] = x[i + 0]
    OBVIOUS
  <2> DEFINE t == d.batch
  <2>2. 0 \in Nat /\ Len(t) + 0 <= Len(x) /\ Len(t) \in Nat
    OBVIOUS
  <2> HIDE DEF t
  <2> QED
    BY <2>1, <2>2, PendingPart DEF t
<1>2. Precede(acc, d.batch, x, d.count)
  BY DEF Precede, Pending, InOrder
<1> QED
  BY <1>1, <1>2 DEF Orderly


LEMMA OrderlyRests ==
  ASSUME NEW acc, NEW hom, NEW del, NEW k, NEW x, NEW d, NEW e,
         Orderly(acc, hom, del, x, d, k), e.batch = <<>>
  PROVE  Orderly(acc, hom, del, x, e, k)
BY PendingEmpty, PrecedeEmpty DEF Orderly

LEMMA OrderlyEmptied ==
  ASSUME NEW acc, NEW hom, NEW del, NEW k, NEW x, NEW d, Orderly(acc, hom, del, x, d, k)
  PROVE  Orderly(acc, hom, del, <<>>, d, k)
BY PendingEmpty, PrecedeEmpty DEF Orderly

LEMMA OrderlyAccepts ==
  ASSUME NEW acc, NEW hom, NEW new, NEW hom2, NEW m, NEW k, NEW del, NEW x, NEW d,
         NEW j \in Queues,
         Accepts(acc, hom, new, hom2, m, k), HomesOfTaken(acc, hom), TakenOnce(acc),
         x \in Seq(Messages), d.batch \in Seq(Messages), del \in Seq(Messages),
         DeliveredTaken(hom, del), Orderly(acc, hom, del, x, d, j)
  PROVE  Orderly(new, hom2, del, x, d, j)
<1>1. Pending(new, hom2, del, x, j)
  BY PendingAccepts DEF Orderly
<1>2. Pending(new, hom2, del, d.batch, j)
  <2> DEFINE b == d.batch
  <2>1. Pending(acc, hom, del, b, j) /\ b \in Seq(Messages)
    BY DEF Orderly
  <2> HIDE DEF b
  <2> QED
    BY <2>1, PendingAccepts DEF b
<1>3. Precede(new, d.batch, x, d.count)
  BY AcceptsFacts DEF Orderly, Precede
<1> QED
  BY <1>1, <1>2, <1>3 DEF Orderly

LEMMA OrderlyAppended ==
  ASSUME NEW acc, NEW hom, NEW new, NEW hom2, NEW m, NEW k, NEW del, NEW s, NEW t, NEW d,
         NEW c \in Nat,
         Accepts(acc, hom, new, hom2, m, k), HomesOfTaken(acc, hom), TakenOnce(acc),
         s \in Seq(Messages), t \in Seq(Messages), d.batch \in Seq(Messages), d.count \in Nat,
         del \in Seq(Messages), DeliveredTaken(hom, del),
         c <= Len(s), Len(t) = Len(s) - c + 1,
         \A i \in 1 .. Len(s) - c : t[i] = s[i + c], t[Len(s) - c + 1] = m,
         Orderly(acc, hom, del, s, d, k)
  PROVE  Orderly(new, hom2, del, t, d, k)
<1>0. k \in Queues /\ Len(s) \in Nat
  BY LenProperties DEF Accepts
<1> DEFINE u == SubSeq(s, c + 1, Len(s))
<1>1. /\ u \in Seq(Messages) /\ Len(u) = Len(s) - c
      /\ \A i \in 1 .. Len(s) - c : u[i] = s[i + c]
  <2>1. c \in 0 .. Len(s)
    BY <1>0
  <2> QED
    BY <2>1, CutFront
<1> HIDE DEF u
<1>2. Pending(acc, hom, del, u, k)
  <2>1. Pending(acc, hom, del, s, k) /\ Len(u) \in Nat /\ Len(u) + c <= Len(s)
    BY <1>0, <1>1 DEF Orderly
  <2>2. \A i \in 1 .. Len(u) : u[i] = s[i + c]
    BY <1>1
  <2> QED
    BY <1>0, <2>1, <2>2, PendingPart
<1>3. Pending(new, hom2, del, t, k)
  <2>1. Len(t) = Len(u) + 1 /\ t[Len(u) + 1] = m /\ \A i \in 1 .. Len(u) : t[i] = u[i]
    BY <1>0, <1>1
  <2> QED
    BY <1>1, <1>2, <2>1, PendingAppended
<1>4. Pending(new, hom2, del, d.batch, k) /\ Precede(new, d.batch, t, d.count)
  <2> DEFINE b == d.batch
             n == d.count
  <2>1. Pending(acc, hom, del, b, k) /\ Precede(acc, b, s, n) /\ b \in Seq(Messages)
        /\ n \in Nat
    BY DEF Orderly
  <2> HIDE DEF b, n
  <2>2. Pending(new, hom2, del, b, k)
    BY <1>0, <2>1, PendingAccepts
  <2>3. Precede(new, b, t, n)
    BY <1>0, <2>1, PrecedeAccepts
  <2> QED
    BY <2>2, <2>3 DEF b, n
<1> QED
  BY <1>3, <1>4 DEF Orderly

LEMMA InitOrder == Init => OrderInv
<1> SUFFICES ASSUME Init PROVE OrderInv
  OBVIOUS
<1>1. accepted = <<>> /\ delivered = <<>> /\ \A m \in Messages : homes[m] = None
  BY DEF Init
<1>2. \A k \in Queues : queue[k].items = <<>> /\ drain[k].batch = <<>>
  BY Constants DEF Init
<1>3. Len(<<>>) = 0
  BY EmptySeq
<1> QED
  BY <1>1, <1>2, <1>3, PendingEmpty, PrecedeEmpty
     DEF OrderInv, TakenOnce, HomesOfTaken, DeliveredInOrder, DeliveredTaken, Orderly

LEMMA OrderStep == TypeOK /\ FewOutlive /\ OrderInv /\ [Next]_vars => OrderInv'
<1> SUFFICES ASSUME TypeOK, FewOutlive, OrderInv, [Next]_vars PROVE OrderInv'
  OBVIOUS
<1> USE DEF queueVars, agentVars, history, inputVars
<1>0. /\ map \in Queues \cup {None} /\ callback \in BOOLEAN /\ None \notin Queues
      /\ drain \in [Queues -> Drains] /\ queue \in [Queues -> QueueObjects]
      /\ accepted \in Seq(Messages) /\ delivered \in Seq(Messages)
      /\ homes \in [Messages -> Queues \cup {None}]
  BY FollowupTypes DEF TypeOK
<1>00. /\ TakenOnce(accepted)
       /\ HomesOfTaken(accepted, homes)
       /\ DeliveredInOrder(accepted, homes, delivered)
       /\ DeliveredTaken(homes, delivered)
       /\ \A k \in Queues :
            Orderly(accepted, homes, delivered, queue[k].items, drain[k], k)
  BY DEF OrderInv
<1>000. \A k \in Queues :
          /\ queue[k].items \in Seq(Messages) /\ Len(queue[k].items) \in Nat
          /\ drain[k].batch \in Seq(Messages) /\ Len(drain[k].batch) \in Nat
          /\ drain[k].count \in Nat
  BY <1>0, LenProperties DEF QueueObjects, Drains
<1> DEFINE Quiet(k) == /\ queue'[k].items = queue[k].items \/ queue'[k].items = <<>>
                       /\ drain'[k] = drain[k] \/ drain'[k].batch = <<>>
<1>1. ASSUME UNCHANGED <<accepted, homes, delivered>>, \A k \in Queues : Quiet(k)
      PROVE  OrderInv'
  <2>1. ASSUME NEW k \in Queues
        PROVE  Orderly(accepted, homes, delivered, queue'[k].items, drain'[k], k)
    <3>1. Orderly(accepted, homes, delivered, queue[k].items, drain'[k], k)
      BY <1>00, <1>1, OrderlyRests, Zenon
    <3> QED
      BY <1>1, <3>1, OrderlyEmptied, Zenon
  <2> QED
    BY <1>00, <1>1, <2>1 DEF OrderInv
<1> HIDE DEF Quiet
<1>2. ASSUME UNCHANGED <<accepted, homes, delivered, queue, drain>> PROVE OrderInv'
  BY <1>1, <1>2 DEF Quiet
<1>3. CASE BeginTurn \/ UNCHANGED vars \/ \E m \in Messages : Arrive(m)
  BY <1>2, <1>3 DEF BeginTurn, vars, Arrive
<1>4. CASE EndTurn
  <2>1. Schedule(queue, drain, map) /\ UNCHANGED <<accepted, homes, delivered, queue>>
    BY <1>4 DEF EndTurn
  <2>2. \A j \in Queues : drain'[j] = drain[j] \/ drain'[j] = Waiting(FALSE)
    BY <1>0, <2>1, ScheduleDrains, ZenonT(60)
  <2>3. \A k \in Queues : Quiet(k)
    BY <2>1, <2>2, Constants DEF Quiet
  <2> QED
    BY <1>1, <2>1, <2>3
<1>5. ASSUME NEW k \in Queues, Finish(queue, k), UNCHANGED <<accepted, homes, delivered>>
      PROVE  OrderInv'
  <2>1. queue' = queue
    BY <1>5, FinishShape
  <2>2. \A j \in Queues : drain'[j] \in {drain[j], Idle, Waiting(FALSE)}
    BY <1>5, FinishShape
  <2>3. \A j \in Queues : Quiet(j)
    BY <2>1, <2>2, Constants DEF Quiet
  <2> QED
    BY <1>1, <1>5, <2>3
<1>6. ASSUME NEW k \in Queues, Step(k) PROVE OrderInv'
  <2>1. UNCHANGED <<accepted, homes, delivered>>
    BY <1>6 DEF Step
  <2>2. CASE ~Finish(queue, k)
    <3>1. PICK d \in Drains :
            InHand(k, d) /\ drain' = [drain EXCEPT ![k] = d] /\ UNCHANGED queue
      BY <1>6, <2>2, StepShape
    <3>2. d.batch \in Seq(Messages) /\ Len(d.batch) \in Nat /\ d.count \in Nat
      BY LenProperties DEF Drains
    <3>3. Len(d.batch) <= d.count /\ d.count <= Len(queue[k].items) /\ d.at = "run"
          /\ \A i \in 1 .. Len(d.batch) : d.batch[i] = queue[k].items[i]
      BY <3>1, <3>2, EmptySeq DEF InHand
    <3> DEFINE x == queue[k].items
    <3>4. Pending(accepted, homes, delivered, x, k) /\ Len(x) \in Nat
      BY <1>00, <1>000 DEF Orderly
    <3>5. Orderly(accepted, homes, delivered, x, d, k)
      <4> HIDE DEF x
      <4> QED  BY <3>2, <3>3, <3>4, TakesInHand DEF x
    <3>6. \A j \in Queues : Orderly(accepted, homes, delivered, queue[j].items, drain'[j], j)
      <4>1. drain'[k] = d /\ \A j \in Queues \ {k} : drain'[j] = drain[j]
        BY <1>0, <3>1
      <4> TAKE j \in Queues
      <4> QED
        BY <1>00, <3>5, <4>1
    <3> QED
      BY <1>00, <2>1, <3>1, <3>6 DEF OrderInv
  <2> QED
    BY <1>5, <2>1, <2>2
<1>7. ASSUME NEW k \in Queues, DeliveryFails(k) PROVE OrderInv'
  BY <1>5, <1>7 DEF DeliveryFails
<1>8. CASE Clear
  <2>1. UNCHANGED <<drain, accepted, homes, delivered>>
    BY <1>8 DEF Clear
  <2>2. \A k \in Queues : queue'[k].items = queue[k].items \/ queue'[k].items = <<>>
    <3>1. CASE map = None
      BY <1>8, <3>1 DEF Clear
    <3>2. CASE map # None
      <4>1. queue' = [queue EXCEPT ![map] =
                [queue[map] EXCEPT !.items = <<>>, !.dropped = {}, !.lastRun = FALSE]]
        BY <1>8, <3>2 DEF Clear
      <4>2. queue[map] \in QueueObjects
        BY <1>0, <3>2
      <4> QED
        BY <1>0, <4>1, <4>2 DEF QueueObjects
    <3> QED
      BY <3>1, <3>2
  <2> QED
    BY <1>1, <2>1, <2>2 DEF Quiet
<1>9. ASSUME NEW m \in Messages, Enqueue(m) PROVE OrderInv'
  <2> DEFINE s == settings[m]
             Refused(k) ==
               /\ \E l \in BOOLEAN :
                    queue' = [queue EXCEPT ![k] = [GetQueue(s) EXCEPT !.lastRun = l]]
               /\ map' = k /\ UNCHANGED <<drain, callback, accepted, homes, excused>>
             Accepted1(k) ==
               /\ ~IsDuplicate(m)
               /\ queue' = [queue EXCEPT ![k] = Taken(m, s)]
               /\ accepted' = Append(accepted, m)
               /\ homes' = [homes EXCEPT ![m] = k]
               /\ \/ callback /\ Schedule(queue', drain, k)
                  \/ ~callback /\ map' = k /\ UNCHANGED <<drain, callback>>
  <2>1. PICK k \in Queues : Home(k) /\ UNCHANGED delivered /\ (Refused(k) \/ Accepted1(k))
    BY <1>9, EnqueueShape
  <2>2. s \in SettingsType
    BY SettingsAre
  <2>3. /\ GetQueue(s) \in QueueObjects
        /\ GetQueue(s).items = IF map = None THEN <<>> ELSE queue[map].items
    BY <2>2, GetQueueIs
  <2>4. GetQueue(s).items = queue[k].items \/ GetQueue(s).items = <<>>
    BY <2>1, <2>3 DEF Home
  <2>5. CASE Refused(k)
    <3>1. PICK l \in BOOLEAN : queue' = [queue EXCEPT ![k] = [GetQueue(s) EXCEPT !.lastRun = l]]
      BY <2>5
    <3>2. [GetQueue(s) EXCEPT !.lastRun = l].items = GetQueue(s).items
      BY <2>3 DEF QueueObjects
    <3>3. \A j \in Queues : Quiet(j)
      BY <1>0, <2>4, <2>5, <3>1, <3>2 DEF Quiet
    <3> QED
      BY <1>1, <2>1, <2>5, <3>3
  <2>6. CASE Accepted1(k)
    <3> DEFINE x == GetQueue(s).items
               n == Len(Overflow(GetQueue(s)))
               t == Taken(m, s).items
    <3>1. Accepts(accepted, homes, accepted', homes', m, k)
      <4>1. \A i \in 1 .. Len(accepted) : IdOf[accepted[i]] # IdOf[m]
        BY <1>0, <2>6, ToSetOf DEF IsDuplicate, Accepted
      <4> QED
        BY <1>0, <2>6, <4>1 DEF Accepts
    <3>2. /\ TakenOnce(accepted') /\ HomesOfTaken(accepted', homes')
          /\ \A a, b : Before(accepted, a, b) => Before(accepted', a, b)
          /\ \A a \in Messages : homes[a] # None => homes'[a] = homes[a]
      BY <1>00, <3>1, AcceptsFacts
    <3>3. \A i \in 1 .. Len(delivered) : homes'[delivered[i]] = homes[delivered[i]]
      BY <1>0, <1>00, <3>2, ElementOfSeq DEF DeliveredTaken
    <3>4. DeliveredInOrder(accepted', homes', delivered') /\ DeliveredTaken(homes', delivered')
      BY <1>00, <2>1, <3>2, <3>3 DEF DeliveredInOrder, DeliveredTaken
    <3>5. Orderly(accepted, homes, delivered, x, drain[k], k)
      BY <1>00, <2>4, OrderlyEmptied
    <3>6. /\ n \in 0 .. Len(x) /\ Len(t) = Len(x) - n + 1
          /\ \A i \in 1 .. Len(x) - n : t[i] = x[i + n]
          /\ t[Len(x) - n + 1] = m
          /\ t \in Seq(Messages) /\ x \in Seq(Messages)
      <4>1. Taken(m, s) \in QueueObjects
        BY <2>2, TakenIs
      <4>2. t \in Seq(Messages) /\ x \in Seq(Messages)
        BY <2>3, <4>1 DEF QueueObjects
      <4>3. n \in 0 .. Len(x) /\ Len(t) = Len(x) - n + 1
        BY <2>2, TakenIs
      <4>4. t[Len(x) - n + 1] = m
        BY <2>2, TakenIs
      <4>5. \A i \in 1 .. Len(x) - n : t[i] = x[i + n]
        <5> HIDE DEF s
        <5> QED  BY <2>2, TakenShifts
      <4> HIDE DEF x, n, t
      <4> QED
        BY <4>2, <4>3, <4>4, <4>5
    <3>7. Orderly(accepted', homes', delivered, t, drain[k], k)
      <4> HIDE DEF x, n, t
      <4>1. n \in Nat /\ n <= Len(x)
        BY <3>6, LenProperties
      <4> QED
        BY <1>0, <1>00, <1>000, <3>1, <3>5, <3>6, <4>1, OrderlyAppended
    <3>8. \A j \in Queues : Orderly(accepted', homes', delivered, queue[j].items, drain[j], j)
      <4> TAKE j \in Queues
      <4> DEFINE y == queue[j].items
                 d == drain[j]
      <4>1. y \in Seq(Messages) /\ d.batch \in Seq(Messages)
            /\ Orderly(accepted, homes, delivered, y, d, j)
        BY <1>00, <1>000
      <4> HIDE DEF y, d
      <4>2. Orderly(accepted', homes', delivered, y, d, j)
        BY <1>0, <1>00, <3>1, <4>1, OrderlyAccepts
      <4> QED
        BY <4>2 DEF y, d
    <3>9. \A j \in Queues : drain'[j] = drain[j] \/ drain'[j].batch = <<>>
      <4>1. CASE Schedule(queue', drain, k)
        <5>1. k \in Queues \cup {None}
          OBVIOUS
        <5>2. \A j \in Queues : drain'[j] = drain[j] \/ drain'[j] = Waiting(FALSE)
          BY <1>0, <4>1, <5>1, ScheduleDrains, ZenonT(60)
        <5> QED
          BY <5>2, Constants
      <4>2. CASE UNCHANGED drain
        BY <4>2
      <4> QED
        BY <2>6, <4>1, <4>2
    <3>10. queue'[k].items = t /\ \A j \in Queues \ {k} : queue'[j] = queue[j]
      BY <1>0, <2>6
    <3>11. \A j \in Queues : Orderly(accepted', homes', delivered', queue'[j].items, drain[j], j)
      <4> HIDE DEF t
      <4> QED  BY <2>1, <3>7, <3>8, <3>10
    <3>12. \A j \in Queues : Orderly(accepted', homes', delivered', queue'[j].items, drain'[j], j)
      <4> TAKE j \in Queues
      <4> QED
        BY <3>9, <3>11, OrderlyRests, Zenon
    <3> QED
      BY <3>2, <3>4, <3>12 DEF OrderInv
  <2> HIDE DEF Refused, Accepted1
  <2> QED
    BY <2>1, <2>5, <2>6
<1>10. ASSUME NEW k \in Queues, Delivered(k) PROVE OrderInv'
  <2> DEFINE b == drain[k].batch
             n == drain[k].count
             x == queue[k].items
             t == Rest(k).items
             c == Cut(k)
  <2>1. /\ delivered' = delivered \o b /\ UNCHANGED <<accepted, homes>>
        /\ queue' = [queue EXCEPT ![k] = Rest(k)]
        /\ \A j \in Queues \ {k} : drain'[j] = drain[j]
        /\ drain'[k] \in {Idle, Waiting(drain[k].force)}
        /\ drain[k].force \in BOOLEAN
    BY <1>10, DeliveredShape DEF Drains
  <2>2. drain'[k].batch = <<>>
    BY <2>1, Constants
  <2>3. /\ Rest(k) \in QueueObjects /\ c \in 0 .. Len(x) /\ Len(t) = Len(x) - c
        /\ \A i \in 1 .. Len(x) - c : t[i] = x[i + c]
    BY RestIs
  <2>4. c >= n \/ c = Len(x)
    BY <1>000 DEF Cut
  <2>5. Pending(accepted, homes, delivered, b, k) /\ Pending(accepted, homes, delivered, x, k)
        /\ Precede(accepted, b, x, n)
    BY <1>00 DEF Orderly
  <2>6. b \in Seq(Messages) /\ x \in Seq(Messages) /\ Len(x) \in Nat /\ n \in Nat
    BY <1>000
  <2>7. queue'[k].items = t /\ \A j \in Queues \ {k} : queue'[j] = queue[j]
    BY <1>0, <2>1
  <2> HIDE DEF b, n, x, t, c
  <2>8. Len(t) \in Nat /\ c \in Nat /\ \A i \in 1 .. Len(t) : t[i] = x[i + c]
    BY <2>3, <2>6
  <2>9. /\ DeliveredInOrder(accepted, homes, delivered \o b)
        /\ DeliveredTaken(homes, delivered \o b)
        /\ \A s, j : j # k /\ Pending(accepted, homes, delivered, s, j)
                       => Pending(accepted, homes, delivered \o b, s, j)
        /\ Pending(accepted, homes, delivered \o b, t, k)
    BY <1>0, <1>00, <2>3, <2>4, <2>5, <2>6, <2>8, DeliveredNext
  <2>10. Orderly(accepted, homes, delivered', queue'[k].items, drain'[k], k)
    BY <2>1, <2>2, <2>7, <2>9, PendingEmpty, PrecedeEmpty DEF Orderly
  <2>11. \A j \in Queues \ {k} :
           Orderly(accepted, homes, delivered', queue'[j].items, drain'[j], j)
    BY <1>00, <2>1, <2>7, <2>9 DEF Orderly
  <2> QED
    BY <1>00, <2>1, <2>9, <2>10, <2>11 DEF OrderInv
<1> QED
  BY <1>3, <1>4, <1>6, <1>7, <1>8, <1>9, <1>10 DEF Next

LEMMA OrderHolds == Spec => []OrderInv
BY TypesHold, InitOrder, OrderStep, PTL DEF Spec

\* No message is delivered twice, under its own id or a redelivery's, and a queue
\* delivers in the order it took: for any failures, clears, caps and settings
\* (scheduleFollowupDrain, enqueueFollowupRun).
THEOREM DeliveredOnceInOrder == Spec => []OnceInOrder
<1>1. TypeOK /\ OrderInv => OnceInOrder
  <2> SUFFICES ASSUME TypeOK, OrderInv,
                      NEW i \in DOMAIN delivered, NEW j \in DOMAIN delivered, i < j
               PROVE  /\ IdOf[delivered[i]] # IdOf[delivered[j]]
                      /\ homes[delivered[i]] = homes[delivered[j]] =>
                           Position(delivered[i]) < Position(delivered[j])
    BY DEF OnceInOrder
  <2>1. /\ i \in 1 .. Len(delivered) /\ j \in 1 .. Len(delivered)
        /\ delivered[i] \in Messages /\ delivered[j] \in Messages
        /\ DOMAIN accepted = 1 .. Len(accepted) /\ Len(accepted) \in Nat
    BY LenProperties, ElementOfSeq DEF TypeOK
  <2>2. TakenOnce(accepted) /\ HomesOfTaken(accepted, homes)
        /\ DeliveredInOrder(accepted, homes, delivered) /\ DeliveredTaken(homes, delivered)
    BY DEF OrderInv
  <2>3. ASSUME NEW h \in 1 .. Len(accepted) PROVE Position(accepted[h]) = h
    <3>1. \A g \in DOMAIN accepted : accepted[g] = accepted[h] => g = h
      BY <2>1, <2>2 DEF TakenOnce
    <3> QED
      BY <2>1, <3>1 DEF Position
  <2>4. PICK g \in 1 .. Len(accepted) : accepted[g] = delivered[i]
    BY <2>1, <2>2 DEF HomesOfTaken, DeliveredTaken
  <2>5. PICK h \in 1 .. Len(accepted) : accepted[h] = delivered[j]
    BY <2>1, <2>2 DEF HomesOfTaken, DeliveredTaken
  <2>6. ASSUME homes[delivered[i]] = homes[delivered[j]] PROVE g < h
    <3>1. Before(accepted, delivered[i], delivered[j])
      BY <2>1, <2>2, <2>6 DEF DeliveredInOrder
    <3>2. PICK p, q \in 1 .. Len(accepted) :
            p < q /\ accepted[p] = delivered[i] /\ accepted[q] = delivered[j]
      BY <3>1 DEF Before
    <3>3. p = g /\ q = h
      BY <2>2, <2>4, <2>5, <3>2 DEF TakenOnce
    <3> QED
      BY <3>2, <3>3
  <2>7. IdOf[delivered[i]] # IdOf[delivered[j]]
    <3> SUFFICES ASSUME IdOf[delivered[i]] = IdOf[delivered[j]] PROVE FALSE
      OBVIOUS
    <3>1. g = h
      BY <2>2, <2>4, <2>5 DEF TakenOnce
    <3>2. g < h
      BY <2>4, <2>5, <2>6, <3>1
    <3> QED
      BY <3>1, <3>2
  <2> QED
    BY <2>3, <2>4, <2>5, <2>6, <2>7
<1> QED
  BY <1>1, TypesHold, OrderHolds, PTL


---------------------------------------------------------------------------
(* Losses: every message taken is settled or in the queue that the map holds, as *)
(* long as nothing has happened that can cost one.                               *)

Explained == causes \cap {"overflow", "clear", "summary"} # {}

KeptIn(q, mp) == IF mp = None THEN {} ELSE ToSet(q[mp].items) \cup q[mp].dropped

\* What a delivery has in hand is still at the front of its queue.
FrontRuns(d, x) ==
  d.at = "run" =>
    /\ d.count <= Len(x.items) /\ Len(d.batch) = d.count
    /\ \A i \in 1 .. Len(d.batch) : d.batch[i] = x.items[i]
    /\ d.told # {} => x.dropped \subseteq d.told

NothingLost ==
  /\ ToSet(accepted) \subseteq ToSet(delivered) \cup excused \cup KeptIn(queue, map)
  /\ \A k \in Queues : IsDraining(k) => k = map
  /\ \A k \in Queues : FrontRuns(drain[k], queue[k])

LossInv == Explained \/ NothingLost

LEMMA ToSetConcat ==
  ASSUME NEW S, NEW s \in Seq(S), NEW t \in Seq(S)
  PROVE  ToSet(s \o t) = ToSet(s) \cup ToSet(t)
<1> DEFINE u == s \o t
<1>1. /\ u \in Seq(S) /\ Len(u) = Len(s) + Len(t) /\ Len(s) \in Nat /\ Len(t) \in Nat
      /\ \A i \in 1 .. Len(s) + Len(t) : u[i] = IF i <= Len(s) THEN s[i] ELSE t[i - Len(s)]
  BY ConcatProperties, LenProperties
<1>2. /\ \A e : e \in ToSet(s) <=> \E i \in 1 .. Len(s) : s[i] = e
      /\ \A e : e \in ToSet(t) <=> \E i \in 1 .. Len(t) : t[i] = e
      /\ \A e : e \in ToSet(u) <=> \E i \in 1 .. Len(u) : u[i] = e
  BY <1>1, ToSetOf
<1> HIDE DEF u
<1>3. ASSUME NEW e \in ToSet(u) PROVE e \in ToSet(s) \cup ToSet(t)
  <2>1. PICK i \in 1 .. Len(s) + Len(t) : u[i] = e
    BY <1>1, <1>2, <1>3
  <2>2. CASE i <= Len(s)
    BY <1>1, <1>2, <2>1, <2>2
  <2>3. CASE ~(i <= Len(s))
    <3>1. i - Len(s) \in 1 .. Len(t) /\ t[i - Len(s)] = e
      BY <1>1, <2>1, <2>3
    <3> QED
      BY <1>2, <3>1
  <2> QED
    BY <2>2, <2>3
<1>4. ASSUME NEW e \in ToSet(s) PROVE e \in ToSet(u)
  <2>1. PICK i \in 1 .. Len(s) : s[i] = e
    BY <1>2
  <2>2. Len(u) = Len(s) + Len(t) /\ Len(s) \in Nat /\ Len(t) \in Nat /\ i \in Nat
    BY <1>1, <2>1
  <2>3. i \in 1 .. Len(u)
    BY <2>1, <2>2
  <2>4. u[i] = e
    BY <1>1, <2>1
  <2> QED
    BY <1>2, <2>3, <2>4
<1>5. ASSUME NEW e \in ToSet(t) PROVE e \in ToSet(u)
  <2>1. PICK i \in 1 .. Len(t) : t[i] = e
    BY <1>2
  <2>2. /\ Len(u) = Len(s) + Len(t) /\ Len(s) \in Nat /\ Len(t) \in Nat /\ i \in Nat
        /\ i >= 1 /\ i <= Len(t)
    BY <1>1, <2>1
  <2>3. Len(s) + i \in 1 .. Len(u) /\ (Len(s) + i) - Len(s) = i /\ ~(Len(s) + i <= Len(s))
    BY <2>2
  <2>4. u[Len(s) + i] = e
    BY <1>1, <2>1, <2>3
  <2> QED
    BY <1>2, <2>3, <2>4
<1> QED
  BY <1>3, <1>4, <1>5 DEF u

\* A queue that takes a message keeps what it had, but for what overflows.
LEMMA TakenKeeps ==
  ASSUME TypeOK, NEW m \in Messages, NEW s \in SettingsType
  PROVE  LET x == GetQueue(s) IN
         ToSet(x.items) \cup {m} \subseteq ToSet(Taken(m, s).items) \cup ToSet(Overflow(x))
<1> DEFINE x == GetQueue(s)
           out == Overflow(x)
           y == Taken(m, s)
           n == Len(out)
<1>1. /\ x \in QueueObjects /\ x.items \in Seq(Messages) /\ y.items \in Seq(Messages)
      /\ out \in Seq(Messages) /\ Len(x.items) \in Nat
  BY GetQueueIs, TakenIs, OverflowIs, LenProperties DEF QueueObjects
<1>2. /\ n \in 0 .. Len(x.items) /\ Len(y.items) = Len(x.items) - n + 1
      /\ \A i \in 1 .. Len(x.items) - n : y.items[i] = x.items[i + n]
      /\ y.items[Len(x.items) - n + 1] = m
  BY TakenIs
<1>3. \A i \in 1 .. n : out[i] = x.items[i]
  BY <1>1, OverflowIs
<1>4. /\ \A e : e \in ToSet(x.items) <=> \E i \in 1 .. Len(x.items) : x.items[i] = e
      /\ \A e : e \in ToSet(y.items) <=> \E i \in 1 .. Len(y.items) : y.items[i] = e
      /\ \A e : e \in ToSet(out) <=> \E i \in 1 .. n : out[i] = e
  BY <1>1, ToSetOf
<1> HIDE DEF x, out, y, n
<1>5. m \in ToSet(y.items)
  <2>1. Len(x.items) - n + 1 \in 1 .. Len(y.items)
    BY <1>1, <1>2
  <2> QED
    BY <1>2, <1>4, <2>1
<1>6. ASSUME NEW e \in ToSet(x.items) PROVE e \in ToSet(y.items) \cup ToSet(out)
  <2>1. PICK i \in 1 .. Len(x.items) : x.items[i] = e
    BY <1>4
  <2>2. CASE i <= n
    <3>1. i \in 1 .. n
      BY <1>1, <1>2, <2>2
    <3> QED
      BY <1>3, <1>4, <2>1, <3>1
  <2>3. CASE ~(i <= n)
    <3>1. i - n \in 1 .. Len(x.items) - n /\ i - n \in 1 .. Len(y.items) /\ i - n + n = i
      BY <1>1, <1>2, <2>3
    <3>2. y.items[i - n] = e
      BY <1>2, <2>1, <3>1
    <3> QED
      BY <1>4, <3>1, <3>2
  <2> QED
    BY <2>2, <2>3
<1> QED
  BY <1>5, <1>6 DEF x, out, y

\* A delivery accounts for what it cuts from the front of its queue.
LEMMA RestKeeps ==
  ASSUME TypeOK, NEW k \in Queues, drain[k].at = "run", FrontRuns(drain[k], queue[k])
  PROVE  ToSet(queue[k].items) \cup queue[k].dropped
           \subseteq ToSet(Rest(k).items) \cup Rest(k).dropped
                     \cup ToSet(drain[k].batch) \cup drain[k].told
<1> DEFINE x == queue[k].items
           b == drain[k].batch
           r == Rest(k).items
           c == Cut(k)
<1>1. /\ x \in Seq(Messages) /\ b \in Seq(Messages) /\ r \in Seq(Messages)
      /\ Len(x) \in Nat /\ drain[k].count \in Nat
  BY RestIs, LenProperties DEF TypeOK, QueueObjects, Drains
<1>2. /\ c = Len(b) /\ c \in 0 .. Len(x) /\ Len(r) = Len(x) - c
      /\ \A i \in 1 .. Len(x) - c : r[i] = x[i + c]
      /\ \A i \in 1 .. c : b[i] = x[i]
  <2>1. drain[k].count <= Len(x) /\ Len(b) = drain[k].count
        /\ \A i \in 1 .. Len(b) : b[i] = x[i]
    BY DEF FrontRuns
  <2>2. c = Len(b)
    BY <1>1, <2>1 DEF Cut
  <2> QED
    BY <2>1, <2>2, RestIs
<1>3. queue[k].dropped \subseteq Rest(k).dropped \cup drain[k].told
  BY RestIs DEF FrontRuns
<1>4. /\ \A e : e \in ToSet(x) <=> \E i \in 1 .. Len(x) : x[i] = e
      /\ \A e : e \in ToSet(r) <=> \E i \in 1 .. Len(r) : r[i] = e
      /\ \A e : e \in ToSet(b) <=> \E i \in 1 .. Len(b) : b[i] = e
  BY <1>1, ToSetOf
<1> HIDE DEF x, b, r, c
<1>5. ASSUME NEW e \in ToSet(x) PROVE e \in ToSet(r) \cup ToSet(b)
  <2>1. PICK i \in 1 .. Len(x) : x[i] = e
    BY <1>4
  <2>2. CASE i <= c
    <3>1. i \in 1 .. c
      BY <1>1, <1>2, <2>2
    <3> QED
      BY <1>2, <1>4, <2>1, <3>1
  <2>3. CASE ~(i <= c)
    <3>1. i - c \in 1 .. Len(x) - c /\ i - c + c = i
      BY <1>1, <1>2, <2>3
    <3>2. r[i - c] = e /\ i - c \in 1 .. Len(r)
      BY <1>2, <2>1, <3>1
    <3> QED
      BY <1>4, <3>2
  <2> QED
    BY <2>2, <2>3
<1> QED
  BY <1>3, <1>5 DEF x, b, r

LEMMA InitLoss == Init => LossInv
<1> SUFFICES ASSUME Init PROVE NothingLost
  BY DEF LossInv
<1>1. ToSet(accepted) = {}
  BY EmptySeq DEF Init, ToSet
<1> QED
  BY <1>1, Constants DEF Init, NothingLost, IsDraining, FrontRuns

LEMMA LossStep == TypeOK /\ FewOutlive /\ LossInv /\ [Next]_vars => LossInv'
<1> SUFFICES ASSUME TypeOK, FewOutlive, LossInv, [Next]_vars, ~Explained' PROVE NothingLost'
  BY DEF LossInv
<1> USE DEF queueVars, agentVars, history, inputVars
<1>0. /\ map \in Queues \cup {None} /\ callback \in BOOLEAN /\ None \notin Queues
      /\ drain \in [Queues -> Drains] /\ queue \in [Queues -> QueueObjects]
      /\ accepted \in Seq(Messages) /\ delivered \in Seq(Messages)
  BY FollowupTypes DEF TypeOK
<1> DEFINE Owed == ToSet(accepted) \subseteq ToSet(delivered) \cup excused \cup KeptIn(queue, map)
           Only(dr, mp) == \A k \in Queues : dr[k].at # "idle" => k = mp
           AtFront(dr, q) == \A k \in Queues : FrontRuns(dr[k], q[k])
<1>1. Explained => Explained'
  <2>1. causes \subseteq causes'
    <3>1. ASSUME NEW k \in Queues, Step(k) PROVE causes \subseteq causes'
      BY <3>1, StepShape
    <3>2. ASSUME NEW k \in Queues, Delivered(k) PROVE causes \subseteq causes'
      BY <3>2 DEF Delivered
    <3>3. ASSUME NEW k \in Queues, DeliveryFails(k) PROVE causes \subseteq causes'
      BY <3>3 DEF DeliveryFails
    <3>4. ASSUME NEW m \in Messages, Enqueue(m) PROVE causes \subseteq causes'
      BY <3>4 DEF Enqueue
    <3>5. CASE Clear
      BY <3>5 DEF Clear
    <3> QED
      BY <3>1, <3>2, <3>3, <3>4, <3>5 DEF Next, BeginTurn, EndTurn, Arrive, vars
  <2> QED
    BY <2>1 DEF Explained
<1>2. Owed /\ Only(drain, map) /\ AtFront(drain, queue)
  BY <1>1 DEF LossInv, NothingLost, IsDraining
\* What has to be shown of the next state.
<1>3. ASSUME ToSet(accepted') \subseteq ToSet(delivered') \cup excused' \cup KeptIn(queue', map'),
             Only(drain', map'), AtFront(drain', queue')
      PROVE  NothingLost'
  BY <1>3 DEF NothingLost, IsDraining, KeptIn
<1>4. \A d, x : d.at # "run" => FrontRuns(d, x)
  BY DEF FrontRuns
<1>5. ASSUME UNCHANGED <<map, queue, drain, accepted, delivered, excused>> PROVE NothingLost'
  BY <1>2, <1>3, <1>5
<1>6. CASE BeginTurn \/ UNCHANGED vars \/ \E m \in Messages : Arrive(m)
  BY <1>5, <1>6 DEF BeginTurn, vars, Arrive
\* A queue that leaves the map has nothing left.
<1>7. ASSUME UNCHANGED <<queue, accepted, delivered, excused>>,
             map' = map \/ (map' = None /\ map # None /\ NothingLeft(queue[map])),
             Only(drain', map'), AtFront(drain', queue)
      PROVE  NothingLost'
  <2>1. KeptIn(queue, map) = KeptIn(queue', map')
    <3>1. CASE map' = map
      BY <1>7, <3>1
    <3>2. CASE map' = None /\ map # None /\ NothingLeft(queue[map])
      <4>1. ToSet(<<>>) = {}
        BY EmptySeq DEF ToSet
      <4> QED
        BY <1>7, <3>2, <4>1 DEF KeptIn, NothingLeft
    <3> QED
      BY <1>7, <3>1, <3>2
  <2> HIDE DEF Only, AtFront
  <2> QED
    BY <1>2, <1>3, <1>7, <2>1
<1>8. CASE EndTurn
  <2>1. Schedule(queue, drain, map) /\ UNCHANGED <<queue, accepted, delivered, excused>>
    BY <1>8 DEF EndTurn
  <2>2. /\ map' = map \/ (map' = None /\ map # None /\ NothingLeft(queue[map])
                           /\ drain[map].at = "idle")
        /\ \A j \in Queues :
             \/ drain'[j] = drain[j]
             \/ /\ j = map /\ map' = map /\ drain[j].at = "idle"
                /\ drain'[j] = Waiting(FALSE)
    BY <1>0, <2>1, ScheduleShape, ZenonT(60)
  <2>3. Only(drain', map')
    BY <1>0, <1>2, <2>2
  <2>4. AtFront(drain', queue)
    BY <1>2, <1>4, <2>2, Constants
  <2> QED
    BY <1>7, <2>1, <2>2, <2>3, <2>4
<1>9. ASSUME NEW k \in Queues, Finish(queue, k), drain[k].at # "idle",
             UNCHANGED <<accepted, delivered, excused>>
      PROVE  NothingLost'
  <2>1. k = map
    BY <1>2, <1>9
  <2>2. /\ queue' = queue
        /\ map' = map \/ (map' = None /\ NothingLeft(queue[k]))
        /\ drain'[k] = Idle \/ (map' = k /\ drain'[k] = Waiting(FALSE))
        /\ \A j \in Queues \ {k} : drain'[j] = drain[j]
    BY <1>9, <2>1, FinishShape
  <2>3. Only(drain', map')
    BY <1>2, <2>1, <2>2, Constants
  <2>4. AtFront(drain', queue)
    BY <1>2, <1>4, <2>2, Constants
  <2> QED
    BY <1>0, <1>7, <1>9, <2>1, <2>2, <2>3, <2>4
<1>10. ASSUME NEW k \in Queues, Step(k) PROVE NothingLost'
  <2>1. drain[k].at = "debounce" /\ UNCHANGED <<accepted, delivered, excused>>
    BY <1>10, StepShape
  <2>2. CASE Finish(queue, k)
    BY <1>9, <2>1, <2>2
  <2>3. CASE ~Finish(queue, k)
    <3>1. PICK d \in Drains :
            /\ InHand(k, d) /\ drain' = [drain EXCEPT ![k] = d] /\ UNCHANGED <<map, queue>>
            /\ causes' = causes \cup (IF d.count = 1 /\ d.batch = <<>> THEN {"summary"} ELSE {})
      BY <1>10, <2>3, StepShape
    <3>2. ~(d.count = 1 /\ d.batch = <<>>)
      BY <3>1 DEF Explained
    <3>3. FrontRuns(d, queue[k])
      BY <3>1, <3>2 DEF InHand, FrontRuns, Report
    <3>4. drain'[k] = d /\ \A j \in Queues \ {k} : drain'[j] = drain[j]
      BY <1>0, <3>1
    <3>5. AtFront(drain', queue)
      BY <1>2, <3>3, <3>4
    <3>6. Only(drain', map')
      BY <1>2, <2>1, <3>1, <3>4
    <3> QED
      BY <1>7, <2>1, <3>1, <3>5, <3>6
  <2> QED
    BY <2>2, <2>3
<1>11. ASSUME NEW k \in Queues, DeliveryFails(k) PROVE NothingLost'
  BY <1>9, <1>11 DEF DeliveryFails
<1>12. CASE Clear
  <2>1. \A k \in Queues : drain[k].at = "idle"
    BY <1>12 DEF Clear, Explained, IsDraining
  <2>2. UNCHANGED <<drain, accepted, delivered>> /\ map' = None
    BY <1>12 DEF Clear
  <2>3. Only(drain', map') /\ AtFront(drain', queue')
    BY <1>4, <2>1, <2>2
  <2>4. excused \cup KeptIn(queue, map) \subseteq excused'
    BY <1>12 DEF Clear, KeptIn
  <2> HIDE DEF Only, AtFront
  <2> QED
    BY <1>2, <1>3, <2>2, <2>3, <2>4
<1>13. ASSUME NEW m \in Messages, Enqueue(m) PROVE NothingLost'
  <2> DEFINE s == settings[m]
             x == GetQueue(s)
             out == Overflow(x)
             Refused(k) ==
               /\ \E l \in BOOLEAN : queue' = [queue EXCEPT ![k] = [x EXCEPT !.lastRun = l]]
               /\ map' = k /\ UNCHANGED <<drain, accepted, excused>>
             Took(k) ==
               /\ s.policy = "new" => out = <<>>
               /\ queue' = [queue EXCEPT ![k] = Taken(m, s)]
               /\ accepted' = Append(accepted, m)
               /\ excused' = excused \cup (IF s.policy = "old" THEN ToSet(out) ELSE {})
               /\ \/ callback /\ Schedule(queue', drain, k)
                  \/ ~callback /\ map' = k /\ UNCHANGED <<drain, callback>>
  <2>1. PICK k \in Queues :
          /\ Home(k) /\ UNCHANGED delivered /\ (Refused(k) \/ Took(k))
          /\ m \in ToSet(accepted') /\ out # <<>> /\ drain[k].at = "run" => "overflow" \in causes'
    BY <1>13, EnqueueShape
  <2>2. s \in SettingsType
    BY SettingsAre
  <2>3. /\ x \in QueueObjects
        /\ x.items = IF map = None THEN <<>> ELSE queue[map].items
        /\ x.dropped = IF map = None THEN {} ELSE queue[map].dropped
    BY <2>2, GetQueueIs
  <2>4. /\ map = None => x.items = <<>> /\ x.dropped = {} /\ drain[k].at = "idle"
        /\ map # None => k = map /\ x.items = queue[k].items /\ x.dropped = queue[k].dropped
    BY <2>1, <2>3 DEF Home, IsLive, IsDraining
  <2>5. \A j \in Queues \ {k} : drain[j].at = "idle"
    BY <1>0, <1>2, <2>4
  <2>6. KeptIn(queue, map) = ToSet(x.items) \cup x.dropped
    <3>1. ToSet(<<>>) = {}
      BY EmptySeq DEF ToSet
    <3> QED
      BY <2>3, <3>1 DEF KeptIn
  <2>7. CASE Refused(k)
    <3>1. PICK l \in BOOLEAN : queue' = [queue EXCEPT ![k] = [x EXCEPT !.lastRun = l]]
      BY <2>7
    <3>2. /\ queue'[k].items = x.items /\ queue'[k].dropped = x.dropped
          /\ \A j \in Queues \ {k} : queue'[j] = queue[j]
      BY <1>0, <2>3, <3>1 DEF QueueObjects
    <3>3. map' = k /\ UNCHANGED <<drain, accepted, excused>> /\ k # None
      BY <1>0, <2>7
    <3>4. KeptIn(queue', map') = KeptIn(queue, map)
      BY <2>6, <3>2, <3>3 DEF KeptIn
    <3>5. Only(drain', map')
      BY <2>5, <3>3
    <3>6. AtFront(drain', queue')
      BY <1>2, <1>4, <2>4, <3>2, <3>3 DEF FrontRuns
    <3> HIDE DEF Only, AtFront
    <3> QED
      BY <1>2, <1>3, <2>1, <3>3, <3>4, <3>5, <3>6
  <2>8. CASE Took(k)
    <3> DEFINE y == Taken(m, s)
               n == Len(out)
    <3>1. /\ y \in QueueObjects
          /\ n \in 0 .. Len(x.items) /\ Len(y.items) = Len(x.items) - n + 1
          /\ \A i \in 1 .. Len(x.items) - n : y.items[i] = x.items[i + n]
          /\ y.dropped = x.dropped \cup (IF s.policy = "summarize" THEN ToSet(out) ELSE {})
      <4>1. y \in QueueObjects
        BY <2>2, TakenIs
      <4>2. n \in 0 .. Len(x.items) /\ Len(y.items) = Len(x.items) - n + 1
        BY <2>2, TakenIs
      <4>3. \A i \in 1 .. Len(x.items) - n : y.items[i] = x.items[i + n]
        BY <2>2, TakenIs
      <4>4. y.dropped = x.dropped \cup (IF s.policy = "summarize" THEN ToSet(out) ELSE {})
        BY <2>2, TakenIs
      <4> HIDE DEF x, y, n, out
      <4> QED
        BY <4>1, <4>2, <4>3, <4>4
    <3>2. Len(x.items) \in Nat /\ (out = <<>> <=> n = 0)
      BY <2>3, OverflowIs, LenProperties DEF QueueObjects
    <3>3. queue'[k] = y /\ \A j \in Queues \ {k} : queue'[j] = queue[j]
      BY <1>0, <2>8
    <3>4. ~NothingLeft(queue'[k])
      <4> HIDE DEF x, y, n, out
      <4>1. Len(y.items) # 0
        BY <3>1, <3>2
      <4> QED
        BY <3>3, <4>1, EmptySeq DEF NothingLeft
    <3>5. /\ map' = k
          /\ \A j \in Queues : drain'[j] = drain[j] \/ (j = k /\ drain'[j] = Waiting(FALSE))
      <4>1. CASE Schedule(queue', drain, k)
        <5>1. k \in Queues \cup {None}
          OBVIOUS
        <5>2. /\ map' = k \/ NothingLeft(queue'[k])
              /\ \A j \in Queues :
                   \/ drain'[j] = drain[j]
                   \/ /\ j = k /\ map' = k /\ drain[j].at = "idle"
                      /\ drain'[j] = Waiting(FALSE)
          BY <1>0, <4>1, <5>1, ScheduleShape, ZenonT(60)
        <5> QED
          BY <3>4, <5>2
      <4>2. CASE map' = k /\ UNCHANGED drain
        BY <4>2
      <4> QED
        BY <2>8, <4>1, <4>2
    <3>6. m \in ToSet(accepted') /\ ToSet(accepted') = ToSet(accepted) \cup {m}
      BY <1>0, <2>8, ToSetAppend
    <3>7. drain[k].at = "run" => n = 0
      BY <2>1, <3>2, <3>6 DEF Explained
    <3>8. FrontRuns(drain[k], y)
      <4> SUFFICES ASSUME drain[k].at = "run" PROVE FrontRuns(drain[k], y)
        BY <1>4
      <4>1. n = 0 /\ map # None
        BY <2>4, <3>7
      <4>2. FrontRuns(drain[k], queue[k]) /\ x.items = queue[k].items
            /\ x.dropped = queue[k].dropped
        BY <1>2, <2>4, <4>1
      <4>3. /\ Len(y.items) = Len(x.items) + 1
            /\ \A i \in 1 .. Len(x.items) : y.items[i] = x.items[i]
        <5> HIDE DEF y, x, n
        <5> QED  BY <3>1, <3>2, <4>1
      <4>4. y.dropped = x.dropped
        <5>1. out = <<>>
          BY <3>2, <4>1
        <5>2. ToSet(out) = {}
          BY <5>1, EmptySeq DEF ToSet
        <5> HIDE DEF y, x, out
        <5> QED
          BY <3>1, <5>2
      <4>5. drain[k].count \in Nat /\ drain[k].batch \in Seq(Messages)
            /\ Len(drain[k].batch) \in Nat
        BY <1>0, LenProperties DEF Drains
      <4> HIDE DEF y, x
      <4> QED
        BY <3>2, <4>2, <4>3, <4>4, <4>5 DEF FrontRuns
    <3>9. AtFront(drain', queue')
      <4> HIDE DEF y
      <4> QED  BY <1>4, <2>5, <3>3, <3>5, <3>8, Constants
    <3>10. Only(drain', map')
      <4> HIDE DEF x, y, n, out
      <4>1. \A j \in Queues \ {k} : drain'[j].at = "idle"
        BY <2>5, <3>5
      <4> QED
        BY <3>5, <4>1
    <3>11. ToSet(accepted') \subseteq ToSet(delivered') \cup excused' \cup KeptIn(queue', map')
      <4>1. ToSet(x.items) \cup {m} \subseteq ToSet(y.items) \cup ToSet(out)
        BY <2>2, TakenKeeps
      <4>2. ToSet(out) \subseteq y.dropped \cup excused'
        <5>1. s.policy \in {"summarize", "old", "new"}
          BY <2>2 DEF SettingsType
        <5>2. s.policy = "new" => ToSet(out) = {}
          BY <2>8, EmptySeq DEF ToSet
        <5> HIDE DEF y, out
        <5> QED
          BY <2>8, <3>1, <5>1, <5>2
      <4>3. excused \subseteq excused' /\ x.dropped \subseteq y.dropped
        BY <2>8, <3>1
      <4>4. KeptIn(queue', map') = ToSet(y.items) \cup y.dropped
        BY <1>0, <3>3, <3>5 DEF KeptIn
      <4> HIDE DEF y, x, out
      <4> QED
        BY <1>2, <2>1, <2>6, <3>6, <4>1, <4>2, <4>3, <4>4
    <3> HIDE DEF Only, AtFront
    <3> QED
      BY <1>3, <3>9, <3>10, <3>11
  <2> HIDE DEF Refused, Took
  <2> QED
    BY <2>1, <2>7, <2>8
<1>14. ASSUME NEW k \in Queues, Delivered(k) PROVE NothingLost'
  <2>1. /\ drain[k].at = "run" /\ UNCHANGED accepted
        /\ delivered' = delivered \o drain[k].batch
        /\ excused' = excused \cup drain[k].told
        /\ queue' = [queue EXCEPT ![k] = Rest(k)]
        /\ \A j \in Queues \ {k} : drain'[j] = drain[j]
        /\ drain[k].force \in BOOLEAN /\ drain[k].batch \in Seq(Messages)
        /\ \/ NothingLeft(Rest(k)) /\ map' = None /\ drain'[k] = Idle
           \/ ~NothingLeft(Rest(k)) /\ map' = map /\ drain'[k] = Waiting(drain[k].force)
    BY <1>14, DeliveredShape DEF Drains
  <2>2. map = k /\ k # None
    BY <1>0, <1>2, <2>1
  <2>3. queue'[k] = Rest(k) /\ \A j \in Queues \ {k} : queue'[j] = queue[j]
    BY <1>0, <2>1
  <2>4. KeptIn(queue', map') = ToSet(Rest(k).items) \cup Rest(k).dropped
    <3>1. ToSet(<<>>) = {}
      BY EmptySeq DEF ToSet
    <3>2. CASE NothingLeft(Rest(k)) /\ map' = None
      BY <3>1, <3>2 DEF KeptIn, NothingLeft
    <3>3. CASE map' = map
      BY <2>2, <2>3, <3>3 DEF KeptIn
    <3> QED
      BY <2>1, <3>2, <3>3
  <2>5. ToSet(delivered') = ToSet(delivered) \cup ToSet(drain[k].batch)
    BY <1>0, <2>1, ToSetConcat
  <2>6. KeptIn(queue, map) \subseteq KeptIn(queue', map') \cup ToSet(drain[k].batch) \cup drain[k].told
    <3>1. KeptIn(queue, map) = ToSet(queue[k].items) \cup queue[k].dropped
      BY <2>2 DEF KeptIn
    <3> QED
      BY <1>2, <2>1, <2>4, <3>1, RestKeeps
  <2>7. Only(drain', map')
    BY <1>2, <2>1, <2>2, Constants
  <2>8. AtFront(drain', queue')
    BY <1>2, <1>4, <2>1, <2>3, Constants
  <2> HIDE DEF Only, AtFront
  <2> QED
    BY <1>2, <1>3, <2>1, <2>5, <2>6, <2>7, <2>8
<1> HIDE DEF Owed, Only, AtFront
<1> QED
  BY <1>6, <1>8, <1>10, <1>11, <1>12, <1>13, <1>14 DEF Next

LEMMA LossHolds == Spec => []LossInv
BY TypesHold, InitLoss, LossStep, PTL DEF Spec


---------------------------------------------------------------------------
(* Queues that are left behind: a queue with work whose callback is known is     *)
(* draining, and while the settings stay, what was dropped can be reported.      *)

Kicked == map # None /\ callback /\ ~turn /\ ~NothingLeft(queue[map]) => IsDraining(map)

\* A queue whose mode is "followup" reports in the turn of a message: one stays
\* for it, unless the cap is one.
Reportable(d, x) ==
  /\ x.dropped # {} => x.settings.policy = "summarize"
  /\ x.settings.mode = "followup" /\ x.settings.cap # 1 =>
       /\ x.dropped # {} => x.items # <<>>
       /\ x.dropped # {} /\ d.at = "run" /\ d.told = {} => Len(x.items) >= 2
       /\ d.at = "run" => d.count = 1

AllReportable == \A k \in Queues : Reportable(drain[k], queue[k])

StuckInv == Kicked /\ ("settings" \in causes \/ AllReportable)

LEMMA InitStuck == Init => StuckInv
BY Constants DEF Init, StuckInv, Kicked, AllReportable, Reportable

LEMMA KickedStep == TypeOK /\ FewOutlive /\ Kicked /\ [Next]_vars => Kicked'
<1> SUFFICES ASSUME TypeOK, FewOutlive, Kicked, [Next]_vars PROVE Kicked'
  OBVIOUS
<1> USE DEF queueVars, agentVars, history, inputVars
<1>0. /\ map \in Queues \cup {None} /\ callback \in BOOLEAN /\ None \notin Queues
      /\ drain \in [Queues -> Drains] /\ queue \in [Queues -> QueueObjects]
  BY FollowupTypes DEF TypeOK
<1>1. CASE UNCHANGED vars \/ \E m \in Messages : Arrive(m)
  BY <1>1 DEF vars, Arrive, Kicked, IsDraining
<1>2. CASE BeginTurn
  BY <1>2 DEF BeginTurn, Kicked
<1>3. ASSUME map' # None => drain'[map'].at # "idle" PROVE Kicked'
  BY <1>3 DEF Kicked, IsDraining
<1>4. CASE EndTurn
  <2>1. Schedule(queue, drain, map)
    BY <1>4 DEF EndTurn
  <2>2. map' # None => drain'[map'].at # "idle"
    BY <1>0, <2>1, ScheduleShape, ZenonT(60)
  <2> QED
    BY <1>3, <2>2
<1>5. ASSUME NEW k \in Queues, Finish(queue, k) PROVE Kicked'
  BY <1>3, <1>5, FinishShape
<1>6. ASSUME NEW k \in Queues, Step(k) PROVE Kicked'
  <2>1. CASE Finish(queue, k)
    BY <1>5, <2>1
  <2>2. CASE ~Finish(queue, k)
    <3>1. PICK d \in Drains :
            InHand(k, d) /\ drain' = [drain EXCEPT ![k] = d] /\ UNCHANGED <<map, queue, callback>>
      BY <1>6, <2>2, StepShape
    <3>2. UNCHANGED turn /\ \A j \in Queues : drain[j].at # "idle" => drain'[j].at # "idle"
      BY <1>0, <1>6, <3>1 DEF InHand, Step
    <3> QED
      BY <1>0, <3>1, <3>2 DEF Kicked, IsDraining
  <2> QED
    BY <2>1, <2>2
<1>7. ASSUME NEW k \in Queues, DeliveryFails(k) PROVE Kicked'
  BY <1>5, <1>7 DEF DeliveryFails
<1>8. ASSUME NEW k \in Queues, Delivered(k) PROVE Kicked'
  <2>1. /\ UNCHANGED turn /\ queue' = [queue EXCEPT ![k] = Rest(k)]
        /\ \A j \in Queues \ {k} : drain'[j] = drain[j]
        /\ map' = None \/ (UNCHANGED <<map, callback>> /\ drain'[k] = Waiting(drain[k].force))
        /\ drain[k].force \in BOOLEAN
    BY <1>8, DeliveredShape DEF Drains
  <2>2. CASE map' = None
    BY <2>2 DEF Kicked
  <2>3. CASE UNCHANGED <<map, callback>> /\ drain'[k] = Waiting(drain[k].force)
    BY <1>0, <2>1, <2>3, Constants DEF Kicked, IsDraining
  <2> QED
    BY <2>1, <2>2, <2>3
<1>9. CASE Clear
  BY <1>9 DEF Clear, Kicked
<1>10. ASSUME NEW m \in Messages, Enqueue(m) PROVE Kicked'
  <2> DEFINE s == settings[m]
             x == GetQueue(s)
             Refused(k) ==
               /\ \E l \in BOOLEAN : queue' = [queue EXCEPT ![k] = [x EXCEPT !.lastRun = l]]
               /\ map' = k /\ UNCHANGED <<drain, callback>>
             Took(k) == \/ callback /\ Schedule(queue', drain, k)
                        \/ ~callback /\ UNCHANGED callback
  <2>1. PICK k \in Queues : Home(k) /\ UNCHANGED turn /\ (Refused(k) \/ Took(k))
    BY <1>10, EnqueueShape
  <2>2. /\ x \in QueueObjects
        /\ x.items = IF map = None THEN <<>> ELSE queue[map].items
        /\ x.dropped = IF map = None THEN {} ELSE queue[map].dropped
    BY SettingsAre, GetQueueIs
  <2>3. CASE Refused(k)
    <3>1. PICK l \in BOOLEAN : queue' = [queue EXCEPT ![k] = [x EXCEPT !.lastRun = l]]
      BY <2>3
    <3>2. queue'[k].items = x.items /\ queue'[k].dropped = x.dropped
      BY <1>0, <2>2, <3>1 DEF QueueObjects
    <3>3. map' = k /\ UNCHANGED <<drain, callback>>
      BY <2>3
    <3>4. CASE map = None
      BY <2>2, <3>2, <3>3, <3>4 DEF Kicked, NothingLeft
    <3>5. CASE map # None
      BY <2>1, <2>2, <3>2, <3>3, <3>5 DEF Kicked, NothingLeft, Home, IsDraining
    <3> QED
      BY <3>4, <3>5
  <2>4. CASE callback /\ Schedule(queue', drain, k)
    <3>1. k \in Queues \cup {None}
      OBVIOUS
    <3>2. map' # None => drain'[map'].at # "idle"
      BY <1>0, <2>4, <3>1, ScheduleShape, ZenonT(60)
    <3> QED
      BY <1>3, <3>2
  <2>5. CASE ~callback /\ UNCHANGED callback
    BY <2>5 DEF Kicked
  <2> QED
    BY <2>1, <2>3, <2>4, <2>5
<1> QED
  BY <1>1, <1>2, <1>4, <1>6, <1>7, <1>8, <1>9, <1>10 DEF Next

LEMMA ReportableStep ==
  TypeOK /\ FewOutlive /\ ("settings" \in causes \/ AllReportable) /\ [Next]_vars
    => ("settings" \in causes' \/ AllReportable')
<1> SUFFICES ASSUME TypeOK, FewOutlive, "settings" \in causes \/ AllReportable, [Next]_vars,
                    "settings" \notin causes'
             PROVE  AllReportable'
  OBVIOUS
<1> USE DEF queueVars, agentVars, history, inputVars
<1>0. /\ map \in Queues \cup {None} /\ callback \in BOOLEAN /\ None \notin Queues
      /\ drain \in [Queues -> Drains] /\ queue \in [Queues -> QueueObjects]
  BY FollowupTypes DEF TypeOK
<1>1. \A k \in Queues : Reportable(drain[k], queue[k])
  <2>1. causes \subseteq causes'
    <3>1. ASSUME NEW k \in Queues, Step(k) PROVE causes \subseteq causes'
      BY <3>1, StepShape
    <3>2. ASSUME NEW k \in Queues, Delivered(k) PROVE causes \subseteq causes'
      BY <3>2 DEF Delivered
    <3>3. ASSUME NEW k \in Queues, DeliveryFails(k) PROVE causes \subseteq causes'
      BY <3>3 DEF DeliveryFails
    <3>4. ASSUME NEW m \in Messages, Enqueue(m) PROVE causes \subseteq causes'
      BY <3>4 DEF Enqueue
    <3>5. CASE Clear
      BY <3>5 DEF Clear
    <3> QED
      BY <3>1, <3>2, <3>3, <3>4, <3>5 DEF Next, BeginTurn, EndTurn, Arrive, vars
  <2> QED
    BY <2>1 DEF AllReportable
\* A drain that does not deliver asks for less.
<1>2. ASSUME UNCHANGED queue,
             \A k \in Queues : drain'[k] = drain[k] \/ drain'[k].at # "run"
      PROVE  AllReportable'
  BY <1>1, <1>2 DEF AllReportable, Reportable
<1>3. CASE BeginTurn \/ UNCHANGED vars \/ \E m \in Messages : Arrive(m)
  BY <1>2, <1>3 DEF BeginTurn, vars, Arrive
<1>4. CASE EndTurn
  <2>1. Schedule(queue, drain, map) /\ UNCHANGED queue
    BY <1>4 DEF EndTurn
  <2>2. \A j \in Queues : drain'[j] = drain[j] \/ drain'[j] = Waiting(FALSE)
    BY <1>0, <2>1, ScheduleDrains, ZenonT(60)
  <2> QED
    BY <1>2, <2>1, <2>2, Constants
<1>5. ASSUME NEW k \in Queues, Finish(queue, k) PROVE AllReportable'
  <2>1. queue' = queue /\ \A j \in Queues : drain'[j] \in {drain[j], Idle, Waiting(FALSE)}
    BY <1>5, FinishShape
  <2> QED
    BY <1>2, <2>1, Constants
<1>6. ASSUME NEW k \in Queues, Step(k) PROVE AllReportable'
  <2>1. CASE Finish(queue, k)
    BY <1>5, <2>1
  <2>2. CASE ~Finish(queue, k)
    <3>1. PICK d \in Drains :
            InHand(k, d) /\ drain' = [drain EXCEPT ![k] = d] /\ UNCHANGED queue
      BY <1>6, <2>2, StepShape
    <3>2. Reportable(d, queue[k])
      BY <1>1, <3>1 DEF InHand, Reportable, Report
    <3>3. drain'[k] = d /\ \A j \in Queues \ {k} : drain'[j] = drain[j]
      BY <1>0, <3>1
    <3> QED
      BY <1>1, <3>1, <3>2, <3>3 DEF AllReportable
  <2> QED
    BY <2>1, <2>2
<1>7. ASSUME NEW k \in Queues, DeliveryFails(k) PROVE AllReportable'
  BY <1>5, <1>7 DEF DeliveryFails
<1>8. CASE Clear
  <2>1. UNCHANGED drain
    BY <1>8 DEF Clear
  <2>2. ASSUME NEW k \in Queues PROVE Reportable(drain[k], queue'[k])
    <3>1. CASE map # k
      BY <1>0, <1>1, <1>8, <3>1 DEF Clear
    <3>2. CASE map = k
      <4>1. queue'[k] = [queue[k] EXCEPT !.items = <<>>, !.dropped = {}, !.lastRun = FALSE]
        BY <1>0, <1>8, <3>2 DEF Clear
      <4>2. queue'[k].dropped = {} /\ queue'[k].settings = queue[k].settings
        BY <1>0, <4>1 DEF QueueObjects
      <4> QED
        BY <1>1, <4>2 DEF Reportable
    <3> QED
      BY <3>1, <3>2
  <2> QED
    BY <2>1, <2>2 DEF AllReportable
<1>9. ASSUME NEW k \in Queues, Delivered(k) PROVE AllReportable'
  <2>1. /\ drain[k].at = "run" /\ queue' = [queue EXCEPT ![k] = Rest(k)]
        /\ \A j \in Queues \ {k} : drain'[j] = drain[j]
        /\ drain'[k] \in {Idle, Waiting(drain[k].force)}
        /\ drain[k].force \in BOOLEAN
    BY <1>9, DeliveredShape DEF Drains
  <2>2. drain'[k].at # "run"
    BY <2>1, Constants
  <2>3. queue'[k] = Rest(k) /\ \A j \in Queues \ {k} : queue'[j] = queue[j]
    BY <1>0, <2>1
  <2>4. Reportable(drain'[k], Rest(k))
    <3>1. /\ Rest(k).settings = queue[k].settings
          /\ Rest(k).dropped = IF drain[k].told = {} THEN queue[k].dropped ELSE {}
          /\ Len(Rest(k).items) = Len(queue[k].items) - Cut(k)
          /\ Cut(k) <= drain[k].count
      BY RestIs
    <3>2. /\ Cut(k) \in Nat /\ Len(queue[k].items) \in Nat /\ drain[k].count \in Nat
      <4>1. queue[k].items \in Seq(Messages) /\ drain[k].count \in Nat
        BY <1>0 DEF QueueObjects, Drains
      <4> QED
        BY <4>1, LenProperties DEF Cut
    <3>3. CASE Rest(k).dropped = {}
      BY <2>2, <3>3 DEF Reportable
    <3>4. CASE Rest(k).dropped # {}
      <4>1. drain[k].told = {} /\ queue[k].dropped # {}
        BY <3>1, <3>4
      <4>2. queue[k].settings.mode = "followup" /\ queue[k].settings.cap # 1
              => Len(Rest(k).items) > 0
        BY <1>1, <2>1, <3>1, <3>2, <4>1 DEF Reportable
      <4>3. Len(Rest(k).items) > 0 => Rest(k).items # <<>>
        BY EmptySeq
      <4> QED
        BY <1>1, <2>2, <3>1, <4>1, <4>2, <4>3 DEF Reportable
    <3> QED
      BY <3>3, <3>4
  <2> QED
    BY <1>1, <2>1, <2>3, <2>4 DEF AllReportable
<1>10. ASSUME NEW m \in Messages, Enqueue(m) PROVE AllReportable'
  <2> DEFINE s == settings[m]
             x == GetQueue(s)
             out == Overflow(x)
             y == Taken(m, s)
             Refused(k) ==
               /\ \E l \in BOOLEAN : queue' = [queue EXCEPT ![k] = [x EXCEPT !.lastRun = l]]
               /\ UNCHANGED drain
             Took(k) == /\ queue' = [queue EXCEPT ![k] = y]
                        /\ s.policy = "new" => out = <<>>
                        /\ \/ callback /\ Schedule(queue', drain, k)
                           \/ UNCHANGED drain
  <2>1. PICK k \in Queues :
          /\ Home(k) /\ (Refused(k) \/ Took(k))
          /\ map # None /\ s # queue[map].settings => "settings" \in causes'
    BY <1>10, EnqueueShape
  <2>2. s \in SettingsType
    BY SettingsAre
  <2>3. /\ x \in QueueObjects /\ x.settings = s
        /\ x.items = IF map = None THEN <<>> ELSE queue[map].items
        /\ x.dropped = IF map = None THEN {} ELSE queue[map].dropped
    BY <2>2, GetQueueIs
  <2>4. Reportable(drain[k], x)
    <3>1. CASE map = None
      <4>1. drain[k].at = "idle" /\ x.dropped = {}
        BY <2>1, <2>3, <3>1 DEF Home, IsLive, IsDraining
      <4> QED
        BY <4>1 DEF Reportable
    <3>2. CASE map # None
      <4>1. k = map /\ x.settings = queue[k].settings /\ x.items = queue[k].items
            /\ x.dropped = queue[k].dropped
        BY <2>1, <2>3, <3>2 DEF Home
      <4> QED
        BY <1>1, <4>1 DEF Reportable
    <3> QED
      BY <3>1, <3>2
  <2>5. CASE Refused(k)
    <3>1. PICK l \in BOOLEAN : queue' = [queue EXCEPT ![k] = [x EXCEPT !.lastRun = l]]
      BY <2>5
    <3>2. /\ queue'[k].items = x.items /\ queue'[k].dropped = x.dropped
          /\ queue'[k].settings = x.settings
          /\ \A j \in Queues \ {k} : queue'[j] = queue[j]
      BY <1>0, <2>3, <3>1 DEF QueueObjects
    <3>3. Reportable(drain[k], queue'[k])
      BY <2>4, <3>2 DEF Reportable
    <3> QED
      BY <1>1, <2>5, <3>2, <3>3 DEF AllReportable
  <2>6. CASE Took(k)
    <3> DEFINE n == Len(out)
    <3>1. y.settings = s /\ Len(y.items) = Len(x.items) - n + 1
      <4>1. y.settings = s
        BY <2>2, TakenIs
      <4>2. Len(y.items) = Len(x.items) - n + 1
        BY <2>2, TakenIs
      <4> QED
        BY <4>1, <4>2
    <3>2. y.dropped = x.dropped \cup (IF s.policy = "summarize" THEN ToSet(out) ELSE {})
      BY <2>2, TakenIs
    <3>3. n = (IF Len(x.items) < s.cap THEN 0 ELSE Len(x.items) - s.cap + 1)
          /\ (out = <<>> <=> n = 0) /\ Len(x.items) \in Nat /\ s.cap \in Nat \ {0}
      BY <2>2, <2>3, OverflowIs, LenProperties DEF QueueObjects, SettingsType
    <3>4. queue'[k] = y /\ \A j \in Queues \ {k} : queue'[j] = queue[j]
      BY <1>0, <2>6
    <3> HIDE DEF x, y, n, out
    <3>5. y.items # <<>>
      BY <3>1, <3>3, EmptySeq
    <3>6. y.dropped # {} => s.policy = "summarize"
      BY <2>3, <2>4, <3>2 DEF Reportable
    <3>7. ASSUME y.dropped # {}, drain[k].at = "run", drain[k].told = {},
                 s.mode = "followup", s.cap # 1
          PROVE  Len(y.items) >= 2
      <4>1. CASE n = 0
        <5>1. out = <<>>
          BY <3>3, <4>1
        <5>2. ToSet(out) = {}
          BY <5>1, EmptySeq DEF ToSet
        <5>3. Len(x.items) >= 2
          BY <2>3, <2>4, <3>2, <3>7, <5>2 DEF Reportable
        <5> QED
          BY <3>1, <3>3, <4>1, <5>3
      <4>2. CASE n # 0
        <5>1. n = Len(x.items) - s.cap + 1 /\ s.cap >= 2
          BY <3>3, <3>7, <4>2
        <5> QED
          BY <3>1, <3>3, <5>1
      <4> QED
        BY <4>1, <4>2
    <3>8. Reportable(drain[k], y)
      BY <2>3, <2>4, <3>1, <3>5, <3>6, <3>7 DEF Reportable
    <3>9. \A j \in Queues : drain'[j] = drain[j] \/ drain'[j] = Waiting(FALSE)
      <4>1. CASE Schedule(queue', drain, k)
        <5>1. k \in Queues \cup {None}
          OBVIOUS
        <5> QED
          BY <1>0, <4>1, <5>1, ScheduleDrains, ZenonT(60)
      <4> QED
        BY <2>6, <4>1
    <3>10. \A j \in Queues : Reportable(drain[j], queue'[j])
      BY <1>1, <3>4, <3>8
    <3> QED
      BY <3>9, <3>10, Constants DEF AllReportable, Reportable
  <2> HIDE DEF Refused, Took
  <2> QED
    BY <2>1, <2>5, <2>6
<1> QED
  BY <1>3, <1>4, <1>6, <1>7, <1>8, <1>9, <1>10 DEF Next

LEMMA StuckHolds == Spec => []StuckInv
<1>1. TypeOK /\ FewOutlive /\ StuckInv /\ [Next]_vars => StuckInv'
  BY KickedStep, ReportableStep DEF StuckInv
<1> QED
  BY <1>1, TypesHold, InitStuck, PTL DEF Spec

\* An accepted message is lost only after an overflow during a delivery, a clear
\* that a drain outlives or a summary delivered alone; a queue is stranded only
\* without its callback, and a drain goes round in vain only after its settings
\* have changed or with a cap of one: for any messages and settings, and any
\* number of replies, failures and clears (enqueueFollowupRun,
\* scheduleFollowupDrain, clearSessionQueues).
THEOREM TroubleExplained == Spec => []TroubleHasCause
<1>1. TypeOK /\ LossInv => LossHasCause
  <2> SUFFICES ASSUME TypeOK, NothingLost PROVE Lost = {}
    BY DEF LossInv, LossHasCause, Explained
  <2> SUFFICES ASSUME NEW m \in Accepted, ~Held(m), m \notin ToSet(delivered) \cup excused
               PROVE  FALSE
    BY DEF Lost
  <2>1. m \in KeptIn(queue, map)
    BY DEF NothingLost, Accepted
  <2>2. map \in Queues /\ m \in ToSet(queue[map].items) \cup queue[map].dropped
    BY <2>1 DEF KeptIn, TypeOK
  <2> QED
    BY <2>2 DEF Held, IsLive
<1>2. TypeOK /\ StuckInv => StuckHasCause
  <2> SUFFICES ASSUME TypeOK, StuckInv, NEW k \in Queues
               PROVE  /\ Stranded(k) => ~callback
                      /\ IsLive(k) /\ drain[k].at # "run" /\ Spinning(k) =>
                           queue[k].settings.cap = 1 \/ "settings" \in causes
    BY DEF StuckHasCause
  <2>1. Stranded(k) => ~callback
    BY FollowupTypes DEF StuckInv, Kicked, Stranded
  <2>2. ASSUME Spinning(k), "settings" \notin causes PROVE queue[k].settings.cap = 1
    <3>1. Reportable(drain[k], queue[k])
      BY <2>2 DEF StuckInv, AllReportable
    <3>2. queue[k].settings.mode \in {"collect", "followup"}
      BY DEF TypeOK, QueueObjects, SettingsType
    <3> QED
      BY <2>2, <3>1, <3>2 DEF Spinning, Reportable
  <2> QED
    BY <2>1, <2>2
<1> QED
  BY <1>1, <1>2, TypesHold, LossHolds, StuckHolds, PTL DEF TroubleHasCause


===========================================================================
