------------------------- MODULE CronServiceProofs -------------------------
(***************************************************************************)
(* The cron service, for any jobs and schedules and any number of runs,    *)
(* services, edits, failed writes, reloads and crashes.                    *)
(***************************************************************************)
EXTENDS CronService, FiniteSetTheorems, TLAPS

---------------------------------------------------------------------------
(* The runs that begin together *)

UsedRuns == {r \in Runs : run[r].phase # "unused"}
Rank(j, js) == Cardinality({i \in js : i <= j})

LEMMA JobsAndRuns ==
  /\ Jobs \subseteq Nat /\ IsFiniteSet(Jobs) /\ Runs \subseteq Nat /\ IsFiniteSet(Runs)
  /\ 1 \in Jobs /\ 1 \in Services /\ None \notin Nat /\ None \notin Markers
  /\ StuckAfter \in Nat /\ AtTime \in Nat
  /\ MaxTime \in Nat /\ MaxTroubles \in Nat /\ MaxAttempts \in Nat
<1>1. JobCount \in Nat \ {0} /\ RunCount \in Nat /\ MaxServices \in Nat \ {0}
  BY CronTypes
<1>2. 1 \in Int /\ JobCount \in Int /\ RunCount \in Int
  BY <1>1
<1>3. IsFiniteSet(1 .. JobCount) /\ IsFiniteSet(1 .. RunCount)
  BY <1>2, FS_Interval
<1> QED
  BY <1>1, <1>3, CronTypes DEF Jobs, Runs, Services

LEMMA UsedIs == Used \in Nat /\ Used = Cardinality(UsedRuns) /\ IsFiniteSet(UsedRuns)
<1>1. IsFiniteSet(UsedRuns)
  BY JobsAndRuns, FS_Subset DEF UsedRuns
<1> QED
  BY <1>1, FS_CardinalityType DEF Used, UsedRuns

\* Jobs are numbered in their order.
LEMMA RankIs ==
  ASSUME NEW js \in SUBSET Jobs
  PROVE  /\ IsFiniteSet(js) /\ Cardinality(js) \in Nat
         /\ \A j \in js : Rank(j, js) \in 1 .. Cardinality(js)
         /\ \A i, j \in js : Rank(i, js) = Rank(j, js) => i = j
<1>1. IsFiniteSet(js) /\ Cardinality(js) \in Nat /\ js \subseteq Nat
  BY JobsAndRuns, FS_Subset, FS_CardinalityType
<1> DEFINE upTo(j) == {i \in js : i <= j}
<1>2. ASSUME NEW j \in js
      PROVE  IsFiniteSet(upTo(j)) /\ Cardinality(upTo(j)) \in 1 .. Cardinality(js)
  <2>1. IsFiniteSet(upTo(j)) /\ Cardinality(upTo(j)) <= Cardinality(js)
        /\ Cardinality(upTo(j)) \in Nat
    <3>1. upTo(j) \subseteq js
      OBVIOUS
    <3> HIDE DEF upTo
    <3> QED
      BY <1>1, <3>1, FS_Subset, FS_CardinalityType
  <2>2. j \in upTo(j)
    BY <1>1
  <2>3. Cardinality(upTo(j)) # 0
    <3> HIDE DEF upTo
    <3> QED  BY <2>1, <2>2, FS_EmptySet
  <2> HIDE DEF upTo
  <2> QED
    BY <1>1, <2>1, <2>3
<1>3. ASSUME NEW i \in js, NEW j \in js, i < j
      PROVE  Cardinality(upTo(i)) # Cardinality(upTo(j))
  <2>1. upTo(i) \subseteq upTo(j) /\ j \notin upTo(i) /\ j \in upTo(j)
    <3>1. \A k \in js : k \in Nat /\ i \in Nat /\ j \in Nat
      BY <1>1
    <3>2. \A k \in js : k <= i => k <= j
      BY <1>3, <3>1
    <3> QED
      BY <1>3, <3>1, <3>2
  <2>2. IsFiniteSet(upTo(j))
    BY <1>2
  <2> HIDE DEF upTo
  <2> QED
    BY <2>1, <2>2, FS_Subset
<1>4. \A j \in js : Rank(j, js) = Cardinality(upTo(j))
  BY DEF Rank
<1>5. ASSUME NEW i \in js, NEW j \in js, Rank(i, js) = Rank(j, js) PROVE i = j
  <2> HIDE DEF upTo
  <2>1. ~(i < j) /\ ~(j < i)
    BY <1>3, <1>4, <1>5
  <2> QED
    BY <1>1, <2>1
<1> HIDE DEF upTo
<1> QED
  BY <1>1, <1>2, <1>4, <1>5

LEMMA RunOfIs ==
  ASSUME NEW js \in SUBSET Jobs, CanRun(js)
  PROVE  /\ Used \in Nat
         /\ \A j \in js : RunOf(j, js) \in Runs /\ RunOf(j, js) > Used
                          /\ RunOf(j, js) <= Used + Cardinality(js)
         /\ \A i, j \in js : RunOf(i, js) = RunOf(j, js) => i = j
<1>1. Used \in Nat /\ Used + Cardinality(js) <= RunCount /\ RunCount \in Nat
  BY UsedIs, CronTypes DEF CanRun
<1>2. \A j \in js : RunOf(j, js) = Used + Rank(j, js)
  BY DEF RunOf, Rank
<1>3. /\ Cardinality(js) \in Nat
      /\ \A j \in js : Rank(j, js) \in 1 .. Cardinality(js)
      /\ \A i, j \in js : Rank(i, js) = Rank(j, js) => i = j
  BY RankIs
<1>4. \A j \in js : Rank(j, js) \in Nat
  BY <1>3
<1> QED
  BY <1>1, <1>2, <1>3, <1>4 DEF Runs

---------------------------------------------------------------------------
(* The repairs of a job, and the result of a run *)

Store == [Jobs -> JobState]

LEMMA NextIs ==
  ASSUME now \in 0 .. MaxTime, NEW j \in Jobs, NEW x \in JobState
  PROVE  /\ ComputeNext(j, x) \in Nat \cup {None}
         /\ ~OneShot(j) /\ x.enabled => ComputeNext(j, x) \in Nat /\ ComputeNext(j, x) > now
         /\ ~x.enabled => ComputeNext(j, x) = None
         /\ OneShot(j) /\ x.enabled =>
              ComputeNext(j, x) = IF x.last = "ok" /\ AtTime <= x.lastRun THEN None ELSE AtTime
<1>1. x.lastRun \in Times \cup {None} /\ Times \subseteq Nat /\ now \in Nat /\ AtTime \in Nat
      /\ None \notin Nat /\ x.enabled \in BOOLEAN
  BY JobsAndRuns DEF JobState, Times
<1> DEFINE every == KindOf[j] = "every" /\ x.lastRun # None /\ x.lastRun + 1 > now
<1>2. CASE ~x.enabled
  BY <1>1, <1>2 DEF ComputeNext
<1>3. CASE x.enabled /\ OneShot(j)
  <2>1. ComputeNext(j, x) = IF x.last = "ok" /\ AtTime <= x.lastRun THEN None ELSE AtTime
    BY <1>3 DEF ComputeNext
  <2> QED
    BY <1>1, <1>3, <2>1
<1>4. CASE x.enabled /\ ~OneShot(j)
  <2>1. CASE every
    <3>1. ComputeNext(j, x) = x.lastRun + 1
      BY <1>4, <2>1 DEF ComputeNext
    <3>2. x.lastRun \in Nat /\ x.lastRun + 1 > now
      BY <1>1, <2>1
    <3> QED
      BY <1>1, <1>4, <3>1, <3>2
  <2>2. CASE ~every
    <3>1. ComputeNext(j, x) = now + 1
      BY <1>4, <2>2 DEF ComputeNext
    <3> QED
      BY <1>1, <1>4, <3>1
  <2> QED
    BY <2>1, <2>2
<1> QED
  BY <1>1, <1>2, <1>3, <1>4

\* What repairs do to a job: only its next time and its marker can change.
Repaired(j, x, y) ==
  /\ y \in JobState
  /\ y.exists = x.exists /\ y.enabled = x.enabled
  /\ y.last = x.last /\ y.lastRun = x.lastRun
  /\ y.marker \in {x.marker, None}
  /\ x.enabled /\ x.marker # None /\ now - x.marker.since <= StuckAfter => y.marker = x.marker
  /\ y.next \in {x.next, ComputeNext(j, x), None}
  /\ ~x.enabled => y.next = None
  /\ x.enabled /\ y.next # x.next => y.next = ComputeNext(j, x)
  /\ x.exists /\ x.enabled /\ x.next = None => y.next = ComputeNext(j, x)

LEMMA NormalizeIs ==
  ASSUME now \in 0 .. MaxTime, NEW j \in Jobs, NEW x \in JobState
  PROVE  LET y == Normalize(x) IN
         /\ y \in JobState
         /\ y.exists = x.exists /\ y.enabled = x.enabled
         /\ y.last = x.last /\ y.lastRun = x.lastRun
         /\ y.marker \in {x.marker, None}
         /\ x.enabled /\ x.marker # None /\ now - x.marker.since <= StuckAfter
              => y.marker = x.marker
         /\ y.next = IF x.enabled THEN x.next ELSE None
         /\ ComputeNext(j, y) = ComputeNext(j, x)
<1> DEFINE y == Normalize(x)
<1>1. /\ y \in JobState
      /\ y.exists = x.exists /\ y.enabled = x.enabled
      /\ y.last = x.last /\ y.lastRun = x.lastRun
      /\ y.marker \in {x.marker, None}
      /\ y.next = IF x.enabled THEN x.next ELSE None
  BY DEF JobState, Normalize
<1>2. ASSUME x.enabled, x.marker # None, now - x.marker.since <= StuckAfter
      PROVE  y.marker = x.marker
  <2>1. x.marker.since \in Nat /\ now \in Nat /\ StuckAfter \in Nat
    BY <1>2, JobsAndRuns DEF JobState, Markers, Times
  <2>2. ~(now - x.marker.since > StuckAfter)
    BY <1>2, <2>1
  <2> QED
    BY <1>2, <2>2 DEF Normalize
<1>3. ComputeNext(j, y) = ComputeNext(j, x)
  <2> HIDE DEF y
  <2> QED  BY <1>1, Zenon DEF ComputeNext
<1> QED
  BY <1>1, <1>2, <1>3

LEMMA RepairedNext ==
  ASSUME now \in 0 .. MaxTime, NEW j \in Jobs, NEW x \in JobState,
         NEW stale \in BOOLEAN, x.next = None => stale
  PROVE  Repaired(j, x, IF x.exists /\ x.enabled /\ stale
                        THEN [Normalize(x) EXCEPT !.next = ComputeNext(j, Normalize(x))]
                        ELSE Normalize(x))
<1> DEFINE y == Normalize(x)
           n == ComputeNext(j, x)
<1>1. /\ y \in JobState
      /\ y.exists = x.exists /\ y.enabled = x.enabled
      /\ y.last = x.last /\ y.lastRun = x.lastRun
      /\ y.marker \in {x.marker, None}
      /\ x.enabled /\ x.marker # None /\ now - x.marker.since <= StuckAfter
           => y.marker = x.marker
      /\ y.next = IF x.enabled THEN x.next ELSE None
      /\ ComputeNext(j, y) = n
  BY NormalizeIs
<1>2. n \in Nat \cup {None} /\ (~x.enabled => n = None)
  BY NextIs
<1> HIDE DEF y, n
<1>3. CASE x.exists /\ x.enabled /\ stale
  <2> DEFINE z == [y EXCEPT !.next = n]
  <2>1. /\ z \in JobState /\ z.next = n /\ z.exists = y.exists /\ z.enabled = y.enabled
        /\ z.last = y.last /\ z.lastRun = y.lastRun /\ z.marker = y.marker
    BY <1>1, <1>2 DEF JobState
  <2> HIDE DEF z
  <2>2. Repaired(j, x, z)
    BY <1>1, <1>2, <1>3, <2>1 DEF Repaired, n
  <2> QED
    BY <1>1, <1>3, <2>2 DEF z, y
<1>4. CASE ~(x.exists /\ x.enabled /\ stale)
  <2>1. Repaired(j, x, y)
    BY <1>1, <1>2, <1>4 DEF Repaired, n
  <2> QED
    BY <1>4, <2>1 DEF y
<1> QED
  BY <1>3, <1>4

LEMMA MaintainIs ==
  ASSUME now \in 0 .. MaxTime, NEW store \in Store, NEW expired \in BOOLEAN
  PROVE  /\ Maintain(store, expired) \in Store
         /\ \A j \in Jobs : Repaired(j, store[j], Maintain(store, expired)[j])
<1>1. ASSUME NEW j \in Jobs PROVE Repaired(j, store[j], Maintain(store, expired)[j])
  <2> DEFINE x == store[j]
             y == Normalize(x)
             stale == \/ y.next = None
                      \/ /\ expired /\ IsDue(y) /\ y.marker = None
                         /\ y.lastRun # None /\ y.lastRun >= y.next
  <2>1. x \in JobState
    BY DEF Store
  <2>2. /\ y.exists = x.exists /\ y.enabled = x.enabled
        /\ y.next = IF x.enabled THEN x.next ELSE None
    BY <2>1, NormalizeIs
  <2>3. Maintain(store, expired)[j] =
          IF y.exists /\ y.enabled /\ stale
          THEN [y EXCEPT !.next = ComputeNext(j, y)] ELSE y
    BY DEF Maintain
  <2>4. stale \in BOOLEAN /\ (x.next = None => stale)
    BY <2>2
  <2> HIDE DEF stale, x
  <2>5. Repaired(j, x, IF x.exists /\ x.enabled /\ stale
                       THEN [y EXCEPT !.next = ComputeNext(j, y)] ELSE y)
    BY <2>1, <2>4, RepairedNext
  <2> QED
    BY <2>2, <2>3, <2>5 DEF x
<1>2. \A j \in Jobs : Maintain(store, expired)[j] \in JobState
  BY <1>1 DEF Repaired
<1>3. Maintain(store, expired) = [j \in Jobs |-> Maintain(store, expired)[j]]
  BY DEF Maintain
<1> QED
  BY <1>1, <1>2, <1>3 DEF Store

\* After a full repair, no job that repeats has a slot that is due.
LEMMA RecomputeIs ==
  ASSUME now \in 0 .. MaxTime, NEW store \in Store
  PROVE  /\ Recompute(store) \in Store
         /\ \A j \in Jobs :
              LET y == Recompute(store)[j] IN
              /\ Repaired(j, store[j], y)
              /\ y.exists /\ ~OneShot(j) => y.next = None \/ y.next > now
<1>1. ASSUME NEW j \in Jobs
      PROVE  /\ Repaired(j, store[j], Recompute(store)[j])
             /\ store[j].exists /\ ~OneShot(j) =>
                  Recompute(store)[j].next = None \/ Recompute(store)[j].next > now
  <2> DEFINE x == store[j]
             y == Normalize(x)
             stale == y.next = None \/ IsDue(y)
             z == IF x.exists /\ x.enabled /\ stale
                  THEN [y EXCEPT !.next = ComputeNext(j, y)] ELSE y
  <2>1. x \in JobState
    BY DEF Store
  <2>2. /\ y.exists = x.exists /\ y.enabled = x.enabled
        /\ y.next = (IF x.enabled THEN x.next ELSE None)
        /\ y \in JobState /\ ComputeNext(j, y) = ComputeNext(j, x)
    BY <2>1, NormalizeIs
  <2>3. Recompute(store)[j] = z
    BY <2>2 DEF Recompute
  <2>4. stale \in BOOLEAN /\ (x.next = None => stale)
    BY <2>2 DEF IsDue
  <2>5. Repaired(j, x, z)
    <3> HIDE DEF stale, x
    <3> QED  BY <2>1, <2>4, RepairedNext
  <2>6. ASSUME x.exists, ~OneShot(j) PROVE z.next = None \/ z.next > now
    <3>1. CASE x.enabled /\ stale
      <4>1. ComputeNext(j, x) > now
        BY <2>1, <2>6, <3>1, NextIs
      <4>2. z.next = ComputeNext(j, y)
        <5> HIDE DEF stale, x, y
        <5> QED  BY <2>2, <2>6, <3>1 DEF JobState
      <4> QED
        BY <2>2, <4>1, <4>2
    <3>2. CASE ~x.enabled
      BY <2>2, <3>2
    <3>3. CASE x.enabled /\ ~stale
      <4>1. z = y /\ y.next # None /\ ~(now >= y.next)
        BY <3>3 DEF IsDue
      <4>2. y.next \in Nat /\ now \in Nat
        BY <2>2, <4>1 DEF JobState
      <4> HIDE DEF y, z
      <4> QED
        BY <4>1, <4>2
    <3> QED
      BY <3>1, <3>2, <3>3
  <2> HIDE DEF z
  <2> QED
    BY <2>3, <2>5, <2>6
<1>2. \A j \in Jobs : Recompute(store)[j] \in JobState
                      /\ Recompute(store)[j].exists = store[j].exists
  BY <1>1 DEF Repaired
<1>3. Recompute(store) = [j \in Jobs |-> Recompute(store)[j]]
  BY DEF Recompute
<1> QED
  BY <1>1, <1>2, <1>3 DEF Store

\* What the result of a run does to its job.
LEMMA ResultIs ==
  ASSUME now \in 0 .. MaxTime, NEW store \in Store, NEW r \in Runs, run[r] \in RunState
  PROVE  LET j == run[r].job
             x == store[j]
             y == ApplyResult(store, r)[j]
         IN
         /\ ApplyResult(store, r) \in Store
         /\ \A i \in Jobs \ {j} : ApplyResult(store, r)[i] = store[i]
         /\ y.exists => x.exists
         /\ ~x.exists => y = x
         /\ y.enabled => x.enabled
         /\ x.exists => y.marker = None /\ y.lastRun = run[r].at
         /\ x.exists /\ y.enabled => y.next # None
         /\ x.exists /\ ~OneShot(j) => y.next = None \/ y.next > now
         /\ x.exists /\ OneShot(j) /\ run[r].result = "ok" =>
              y.last = "ok" /\ ~y.enabled /\ y.next = None
<1> DEFINE j == run[r].job
           x == store[j]
           ok == run[r].result = "ok"
           y == [x EXCEPT !.marker = None, !.lastRun = run[r].at,
                   !.last = IF ok THEN "ok" ELSE "error",
                   !.errors = IF ok THEN 0 ELSE x.errors + 1]
           kept == IF run[r].kind = "force" /\ KindOf[j] = "every"
                   THEN [y EXCEPT !.lastRun = x.lastRun] ELSE y
           retried == run[r].result = "transient" /\ y.errors <= MaxAttempts
           z1 == [y EXCEPT !.next = now + 1]
           z2 == [y EXCEPT !.enabled = FALSE, !.next = None,
                           !.exists = ~(ok /\ KindOf[j] = "once")]
           z3 == [y EXCEPT !.next = ComputeNext(j, kept)]
           z == CASE OneShot(j) /\ retried -> z1
                  [] OneShot(j) /\ ~retried -> z2
                  [] OTHER -> z3
<1>1. ApplyResult(store, r) = IF x.exists THEN [store EXCEPT ![j] = z] ELSE store
  BY Zenon DEF ApplyResult
<1>2. /\ j \in Jobs /\ x \in JobState /\ run[r].at \in Times
      /\ now \in Nat /\ None \notin Nat
  <2>1. j \in Jobs /\ run[r].at \in Times
    BY DEF RunState
  <2>2. x \in JobState
    BY <2>1 DEF Store
  <2> QED
    BY <2>1, <2>2, JobsAndRuns
<1>3. /\ y \in JobState /\ y.marker = None /\ y.lastRun = run[r].at
      /\ y.last = (IF ok THEN "ok" ELSE "error")
      /\ y.exists = x.exists /\ y.enabled = x.enabled
  <2> DEFINE a == run[r].at
             l == IF ok THEN "ok" ELSE "error"
             e == IF ok THEN 0 ELSE x.errors + 1
  <2>1. a \in Times /\ l \in {"none", "ok", "error"} /\ e \in Nat
    BY <1>2 DEF JobState
  <2> HIDE DEF x, a, l, e
  <2>2. LET w == [x EXCEPT !.marker = None, !.lastRun = a, !.last = l, !.errors = e] IN
        /\ w \in JobState /\ w.marker = None /\ w.lastRun = a /\ w.last = l
        /\ w.exists = x.exists /\ w.enabled = x.enabled
    BY <1>2, <2>1 DEF JobState
  <2> QED
    BY <2>2 DEF a, l, e
<1>4. kept \in JobState /\ kept.enabled = x.enabled
  <2> HIDE DEF x
  <2>1. x.lastRun \in Times \cup {None}
    BY <1>2 DEF JobState
  <2> DEFINE y2 == [y EXCEPT !.lastRun = x.lastRun]
  <2> HIDE DEF y
  <2>2. y2 \in JobState /\ y2.enabled = y.enabled
    BY <1>3, <2>1 DEF JobState
  <2> HIDE DEF y2
  <2>3. kept = (IF run[r].kind = "force" /\ KindOf[j] = "every" THEN y2 ELSE y)
    BY DEF y2
  <2> QED
    BY <1>3, <2>2, <2>3
<1> HIDE DEF kept
<1>5. ComputeNext(j, kept) \in Nat \cup {None}
      /\ (~OneShot(j) => IF x.enabled THEN ComputeNext(j, kept) \in Nat /\ ComputeNext(j, kept) > now
                         ELSE ComputeNext(j, kept) = None)
  BY <1>2, <1>4, NextIs
<1> HIDE DEF y
<1>6. /\ z1 \in JobState /\ z1.next = now + 1 /\ z1.exists = y.exists /\ z1.enabled = y.enabled
      /\ z1.marker = None /\ z1.lastRun = y.lastRun /\ z1.last = y.last
  BY <1>2, <1>3 DEF JobState
<1>7. /\ z2 \in JobState /\ z2.next = None /\ ~z2.enabled
      /\ z2.marker = None /\ z2.lastRun = y.lastRun /\ z2.last = y.last
  BY <1>2, <1>3 DEF JobState
<1>8. /\ z3 \in JobState /\ z3.next = ComputeNext(j, kept)
      /\ z3.exists = y.exists /\ z3.enabled = y.enabled
      /\ z3.marker = None /\ z3.lastRun = y.lastRun /\ z3.last = y.last
  <2> DEFINE n == ComputeNext(j, kept)
  <2>1. n \in Nat \cup {None}
    BY <1>5
  <2> HIDE DEF n
  <2>2. [y EXCEPT !.next = n] \in JobState /\ [y EXCEPT !.next = n].next = n
        /\ [y EXCEPT !.next = n].exists = y.exists /\ [y EXCEPT !.next = n].enabled = y.enabled
        /\ [y EXCEPT !.next = n].marker = y.marker
        /\ [y EXCEPT !.next = n].lastRun = y.lastRun /\ [y EXCEPT !.next = n].last = y.last
    BY <1>3, <2>1 DEF JobState
  <2> QED
    BY <1>3, <2>2 DEF n
<1>9. /\ z \in JobState /\ z.marker = None /\ z.lastRun = run[r].at
      /\ z.last = (IF ok THEN "ok" ELSE "error")
      /\ z.enabled => x.enabled
      /\ z.enabled => z.next # None
      /\ ~OneShot(j) => z.next = None \/ z.next > now
      /\ OneShot(j) /\ ok => ~z.enabled /\ z.next = None
  <2>1. CASE OneShot(j) /\ retried
    <3>1. z = z1 /\ ~ok
      BY <2>1
    <3> HIDE DEF z, z1, retried, x
    <3> QED
      BY <1>2, <1>3, <1>6, <2>1, <3>1
  <2>2. CASE OneShot(j) /\ ~retried
    <3>1. z = z2
      BY <2>2
    <3> HIDE DEF z, z2, retried, x
    <3> QED
      BY <1>2, <1>3, <1>7, <2>2, <3>1
  <2>3. CASE ~OneShot(j)
    <3>1. z = z3
      BY <2>3
    <3> HIDE DEF z, z3, retried, x
    <3> QED
      BY <1>2, <1>3, <1>5, <1>8, <2>3, <3>1
  <2> QED
    BY <2>1, <2>2, <2>3
<1> HIDE DEF z, z1, z2, z3, retried
<1>10. CASE x.exists
  <2>1. ApplyResult(store, r) = [store EXCEPT ![j] = z]
    BY <1>1, <1>10
  <2>2. ApplyResult(store, r)[j] = z
    BY <1>2, <2>1 DEF Store
  <2> QED
    BY <1>2, <1>9, <1>10, <2>1, <2>2 DEF Store
<1>11. CASE ~x.exists
  <2>1. ApplyResult(store, r) = store
    BY <1>1, <1>11
  <2> QED
    BY <1>2, <1>11, <2>1
<1> QED
  BY <1>10, <1>11

\* Several runs: every job is changed by one of its own at most.
LEMMA ApplyAllIs ==
  ASSUME TypeOK, NEW store \in Store, NEW rs \in SUBSET Runs
  PROVE  /\ ApplyAll(store, rs) \in Store
         /\ \A j \in Jobs :
              \/ /\ ~\E r \in rs : run[r].job = j
                 /\ ApplyAll(store, rs)[j] = store[j]
              \/ \E r \in rs : /\ run[r].job = j
                               /\ ApplyAll(store, rs)[j] = ApplyResult(store, r)[j]
<1>1. now \in 0 .. MaxTime /\ \A r \in Runs : run[r] \in RunState
  BY DEF TypeOK
<1>2. ASSUME NEW j \in Jobs
      PROVE  \/ /\ ~\E r \in rs : run[r].job = j
                /\ ApplyAll(store, rs)[j] = store[j]
             \/ \E r \in rs : /\ run[r].job = j
                              /\ ApplyAll(store, rs)[j] = ApplyResult(store, r)[j]
  <2>1. CASE \E r \in rs : run[r].job = j
    <3> DEFINE q == CHOOSE r \in rs : run[r].job = j
    <3>1. q \in rs /\ run[q].job = j
      BY <2>1
    <3>2. ApplyAll(store, rs)[j] = ApplyResult(store, q)[j]
      BY <2>1 DEF ApplyAll
    <3> HIDE DEF q
    <3> QED
      BY <3>1, <3>2
  <2>2. CASE ~\E r \in rs : run[r].job = j
    BY <2>2 DEF ApplyAll
  <2> QED
    BY <2>1, <2>2
<1>3. ASSUME NEW j \in Jobs PROVE ApplyAll(store, rs)[j] \in JobState
  <2>1. ASSUME NEW r \in rs, run[r].job = j PROVE ApplyResult(store, r)[j] \in JobState
    <3>1. ApplyResult(store, r) \in Store
      BY <1>1, ResultIs
    <3> QED
      BY <3>1 DEF Store
  <2> QED
    BY <1>2, <2>1 DEF Store
<1>4. ApplyAll(store, rs) = [j \in Jobs |-> ApplyAll(store, rs)[j]]
  BY DEF ApplyAll
<1> QED
  BY <1>2, <1>3, <1>4 DEF Store

---------------------------------------------------------------------------
(* Runs that begin, and runs that are done *)

LEMMA MarkedIs ==
  ASSUME TypeOK, NEW store \in Store, NEW js \in SUBSET Jobs, CanRun(js)
  PROVE  /\ Marked(store, js) \in Store
         /\ \A j \in Jobs :
              LET x == store[j]
                  y == Marked(store, js)[j]
              IN
              /\ y.exists = x.exists /\ y.enabled = x.enabled /\ y.last = x.last
              /\ y.lastRun = x.lastRun /\ y.next = x.next
              /\ j \notin js => y = x
              /\ j \in js => y.marker # None /\ y.marker.since = now
<1>1. ASSUME NEW j \in Jobs
      PROVE  LET x == store[j]
                 y == Marked(store, js)[j]
             IN
             /\ y \in JobState
             /\ y.exists = x.exists /\ y.enabled = x.enabled /\ y.last = x.last
             /\ y.lastRun = x.lastRun /\ y.next = x.next
             /\ j \notin js => y = x
             /\ j \in js => y.marker # None /\ y.marker.since = now
  <2> DEFINE x == store[j]
             w == [run |-> RunOf(j, js), since |-> now]
             y == [x EXCEPT !.marker = w]
  <2>1. x \in JobState
    BY DEF Store
  <2>2. CASE j \in js
    <3>1. w \in Markers
      <4>1. RunOf(j, js) \in Runs
        BY <2>2, RunOfIs
      <4>2. now \in Times
        BY JobsAndRuns DEF TypeOK, Times
      <4> HIDE DEF x
      <4> QED
        BY <4>1, <4>2 DEF Markers
    <3>2. w # None /\ w.since = now
      <4> HIDE DEF w
      <4>1. w # None
        BY <3>1, JobsAndRuns
      <4> QED
        BY <4>1 DEF w
    <3>3. Marked(store, js)[j] = y
      BY <2>2 DEF Marked
    <3> HIDE DEF w, x
    <3>4. y \in JobState /\ y.marker = w
          /\ y.exists = x.exists /\ y.enabled = x.enabled /\ y.last = x.last
          /\ y.lastRun = x.lastRun /\ y.next = x.next
      BY <2>1, <3>1 DEF JobState
    <3> QED
      BY <2>2, <3>2, <3>3, <3>4 DEF x
  <2>3. CASE j \notin js
    BY <2>1, <2>3 DEF Marked
  <2> QED
    BY <2>2, <2>3
<1>2. Marked(store, js) = [j \in Jobs |-> Marked(store, js)[j]]
  BY DEF Marked
<1> QED
  BY <1>1, <1>2 DEF Store

\* A run whose job object may have been replaced, but that is otherwise the same.
SameRun(a, b) ==
  /\ a.phase = b.phase /\ a.job = b.job /\ a.by = b.by /\ a.kind = b.kind
  /\ a.since = b.since /\ a.at = b.at /\ a.result = b.result

LEMMA BegunIs ==
  ASSUME TypeOK, NEW s \in Services, NEW js \in SUBSET Jobs, CanRun(js),
         NEW kind \in {"tick", "early", "catchup", "due", "force"},
         NEW how \in {"queued", "executing"}, NEW reloaded \in BOOLEAN
  PROVE  LET begun == Begun(s, js, kind, how, reloaded) IN
         /\ begun \in [Runs -> RunState]
         /\ \A r \in Runs :
              \/ \E j \in js :
                   /\ r = RunOf(j, js)
                   /\ begun[r].phase = how /\ begun[r].job = j /\ begun[r].by = s
                   /\ begun[r].kind = kind /\ begun[r].since = now /\ begun[r].at = now
                   /\ begun[r].result = "none"
              \/ (\A j \in js : r # RunOf(j, js)) /\ SameRun(begun[r], run[r])
<1> DEFINE begun == Begun(s, js, kind, how, reloaded)
<1>1. run \in [Runs -> RunState] /\ now \in Times
  BY JobsAndRuns DEF TypeOK, Times
<1>2. ASSUME NEW r \in Runs
      PROVE  /\ begun[r] \in RunState
             /\ \/ \E j \in js :
                     /\ r = RunOf(j, js)
                     /\ begun[r].phase = how /\ begun[r].job = j /\ begun[r].by = s
                     /\ begun[r].kind = kind /\ begun[r].since = now /\ begun[r].at = now
                     /\ begun[r].result = "none"
                \/ (\A j \in js : r # RunOf(j, js)) /\ SameRun(begun[r], run[r])
  <2>1. ASSUME NEW j \in js, r = RunOf(j, js)
        PROVE  /\ begun[r] \in RunState
               /\ begun[r].phase = how /\ begun[r].job = j /\ begun[r].by = s
               /\ begun[r].kind = kind /\ begun[r].since = now /\ begun[r].at = now
               /\ begun[r].result = "none"
    <3>1. (CHOOSE i \in js : r = RunOf(i, js)) = j
      <4>1. \A i \in js : r = RunOf(i, js) => i = j
        BY <2>1, RunOfIs
      <4> QED
        BY <2>1, <4>1
    <3>2. begun[r] = [phase |-> how, job |-> j, by |-> s, kind |-> kind, since |-> now,
                      at |-> now, result |-> "none", fresh |-> TRUE]
      BY <2>1, <3>1 DEF Begun
    <3> HIDE DEF begun
    <3> QED
      BY <1>1, <3>2 DEF RunState
  <2>2. ASSUME \A j \in js : r # RunOf(j, js)
        PROVE  begun[r] \in RunState /\ SameRun(begun[r], run[r])
    <3> DEFINE old == [run[r] EXCEPT !.fresh = FALSE]
    <3>1. begun[r] = IF reloaded /\ run[r].by = s THEN old ELSE run[r]
      BY <2>2 DEF Begun
    <3>2. old \in RunState /\ SameRun(old, run[r]) /\ run[r] \in RunState
      BY <1>1 DEF RunState, SameRun
    <3> HIDE DEF begun, old
    <3> QED
      BY <3>1, <3>2 DEF SameRun
  <2> HIDE DEF begun
  <2> QED
    BY <2>1, <2>2
<1>3. begun = [r \in Runs |-> begun[r]]
  BY DEF Begun
<1> QED
  BY <1>2, <1>3

LEMMA DoneIs ==
  ASSUME TypeOK, NEW s \in Services, NEW rs \in SUBSET Runs
  PROVE  LET done == Done(s, rs) IN
         /\ done \in [Runs -> RunState]
         /\ \A r \in rs : /\ done[r].phase = "done" /\ done[r].since = 0
                          /\ done[r].job = run[r].job /\ done[r].by = run[r].by
                          /\ done[r].kind = run[r].kind /\ done[r].at = run[r].at
                          /\ done[r].result = run[r].result
         /\ \A r \in Runs \ rs : SameRun(done[r], run[r])
<1> DEFINE done == Done(s, rs)
<1>1. run \in [Runs -> RunState] /\ 0 \in Times
  BY JobsAndRuns DEF TypeOK, Times
<1>2. ASSUME NEW r \in rs
      PROVE  /\ done[r] \in RunState /\ done[r].phase = "done" /\ done[r].since = 0
             /\ done[r].job = run[r].job /\ done[r].by = run[r].by
             /\ done[r].kind = run[r].kind /\ done[r].at = run[r].at
             /\ done[r].result = run[r].result
  <2>1. done[r] = [run[r] EXCEPT !.phase = "done", !.since = 0, !.fresh = FALSE]
    BY DEF Done
  <2> DEFINE old == run[r]
  <2>2. old \in RunState
    BY <1>1
  <2> HIDE DEF done, old
  <2>3. /\ [old EXCEPT !.phase = "done", !.since = 0, !.fresh = FALSE] \in RunState
        /\ done[r] = [old EXCEPT !.phase = "done", !.since = 0, !.fresh = FALSE]
    BY <1>1, <2>1, <2>2 DEF RunState, old
  <2> QED
    BY <2>2, <2>3 DEF RunState, old
<1>3. ASSUME NEW r \in Runs \ rs PROVE done[r] \in RunState /\ SameRun(done[r], run[r])
  <2> DEFINE old == [run[r] EXCEPT !.fresh = FALSE]
  <2>1. done[r] = IF run[r].by = s THEN old ELSE run[r]
    BY DEF Done
  <2>2. old \in RunState /\ SameRun(old, run[r]) /\ run[r] \in RunState
    BY <1>1 DEF RunState, SameRun
  <2> HIDE DEF done, old
  <2> QED
    BY <2>1, <2>2 DEF SameRun
<1>4. done = [r \in Runs |-> done[r]]
  BY DEF Done
<1> HIDE DEF done
<1>5. done \in [Runs -> RunState]
  BY <1>2, <1>3, <1>4
<1> QED
  BY <1>2, <1>3, <1>5 DEF done

---------------------------------------------------------------------------
(* Types *)

LEMMA InitType == Init => TypeOK
<1> SUFFICES ASSUME Init PROVE TypeOK
  OBVIOUS
<1>1. disk \in Store
  <2>1. \A j \in Jobs : (IF OneShot(j) THEN AtTime ELSE 1) \in Nat
    BY JobsAndRuns
  <2>2. \A j \in Jobs : disk[j] \in JobState
    BY <2>1 DEF Init, JobState
  <2> QED
    BY <2>2 DEF Init, Store
<1>2. run \in [Runs -> RunState]
  <2>1. 0 \in Times
    BY JobsAndRuns DEF Times
  <2> QED
    BY <2>1, JobsAndRuns DEF Init, RunState
<1>3. now \in 0 .. MaxTime /\ faults \in 0 .. MaxTroubles /\ edits \in 0 .. MaxTroubles
      /\ current \in Services
  BY JobsAndRuns DEF Init
<1>4. mem \in [Services -> Store] /\ skip \in [Services -> SUBSET Jobs]
      /\ timer \in [Services -> BOOLEAN] /\ tick \in [Services -> BOOLEAN]
      /\ phase \in [Services -> {"unbuilt", "off", "marked", "catchup", "caught", "on", "dead"}]
  BY <1>1 DEF Init
<1>5. \A r \in Runs : run[r].phase = "unused"
  BY DEF Init
<1>6. alive = {} /\ cut = {} /\ cutOff = {}
  BY DEF Init
<1> QED
  BY <1>1, <1>2, <1>3, <1>4, <1>5, <1>6 DEF TypeOK, Store

\* What the types say of the stores, the services and the bounds.
LEMMA TypeParts ==
  ASSUME TypeOK
  PROVE  /\ now \in 0 .. MaxTime /\ now \in Nat
         /\ disk \in Store /\ mem \in [Services -> Store]
         /\ run \in [Runs -> RunState] /\ current \in Services
         /\ timer \in [Services -> BOOLEAN] /\ tick \in [Services -> BOOLEAN]
         /\ skip \in [Services -> SUBSET Jobs]
         /\ phase \in [Services -> {"unbuilt", "off", "marked", "catchup", "caught", "on", "dead"}]
         /\ CanTrouble => faults + 1 \in 0 .. MaxTroubles /\ edits + 1 \in 0 .. MaxTroubles
         /\ Services \subseteq Nat
<1>1. current \in Nat \ {0} /\ Services \subseteq Nat
  BY CronTypes DEF TypeOK, Services
<1>2. now \in Nat
  BY JobsAndRuns DEF TypeOK
<1>3. CanTrouble => faults + 1 \in 0 .. MaxTroubles /\ edits + 1 \in 0 .. MaxTroubles
  BY <1>1, JobsAndRuns DEF TypeOK, CanTrouble
<1> QED
  BY <1>1, <1>2, <1>3 DEF TypeOK, Store

LEMMA SaveType ==
  ASSUME TypeOK, NEW s \in Services, NEW store \in Store, Save(s, store) \/ SaveFails(s, store)
  PROVE  /\ disk' \in Store /\ mem' \in [Services -> Store] /\ faults' \in 0 .. MaxTroubles
         /\ mem'[s] = store /\ \A t \in Services \ {s} : mem'[t] = mem[t]
         /\ Save(s, store) => disk' = store /\ UNCHANGED faults
         /\ ~Save(s, store) => disk' = disk /\ faults' = faults + 1
<1>1. mem' = [mem EXCEPT ![s] = store]
  BY DEF Save, SaveFails, Memory
<1>2. mem' \in [Services -> Store] /\ mem'[s] = store
      /\ \A t \in Services \ {s} : mem'[t] = mem[t]
  BY <1>1, TypeParts
<1>3. CASE Save(s, store)
  BY <1>2, <1>3 DEF Save, TypeOK
<1>4. CASE ~Save(s, store)
  BY <1>2, <1>4, TypeParts DEF SaveFails
<1> QED
  BY <1>3, <1>4

LEMMA ArmType ==
  ASSUME TypeOK, NEW s \in Services, NEW store, Arm(s, store)
  PROVE  timer' \in [Services -> BOOLEAN] /\ timer'[s] = Wanted(store)
BY DEF Arm, TypeOK, Wanted


LEMMA DoneTyped ==
  ASSUME TypeOK, NEW s \in Services, NEW rs \in SUBSET Runs
  PROVE  /\ Done(s, rs) \in [Runs -> RunState]
         /\ \A r \in Runs : Done(s, rs)[r].phase = "executing" => r \in alive
<1>1. \A r \in Runs : run[r].phase = "executing" => r \in alive
  BY DEF TypeOK
<1>2. /\ Done(s, rs) \in [Runs -> RunState]
      /\ \A r \in rs : Done(s, rs)[r].phase = "done"
      /\ \A r \in Runs \ rs : Done(s, rs)[r].phase = run[r].phase
  BY DoneIs DEF SameRun
<1> QED
  BY <1>1, <1>2

LEMMA BegunTyped ==
  ASSUME TypeOK, NEW s \in Services, NEW js \in SUBSET Jobs, CanRun(js),
         NEW kind \in {"tick", "early", "catchup", "due", "force"}, NEW reloaded \in BOOLEAN
  PROVE  /\ Begun(s, js, kind, "queued", reloaded) \in [Runs -> RunState]
         /\ \A r \in Runs :
              Begun(s, js, kind, "queued", reloaded)[r].phase = "executing" => r \in alive
<1>1. \A r \in Runs : run[r].phase = "executing" => r \in alive
  BY DEF TypeOK
<1>2. Begun(s, js, kind, "queued", reloaded) \in [Runs -> RunState]
  BY BegunIs
<1>3. \A r \in Runs : Begun(s, js, kind, "queued", reloaded)[r].phase \in {"queued", run[r].phase}
  BY BegunIs DEF SameRun
<1> QED
  BY <1>1, <1>2, <1>3

\* A run that starts to execute, and one that ends.
LEMMA RunBegins ==
  ASSUME TypeOK, NEW r \in Runs, run' = [run EXCEPT ![r].phase = "executing", ![r].at = now]
  PROVE  /\ run' \in [Runs -> RunState]
         /\ run'[r].phase = "executing" /\ run'[r].at = now
         /\ run'[r].job = run[r].job /\ run'[r].by = run[r].by /\ run'[r].kind = run[r].kind
         /\ run'[r].since = run[r].since /\ run'[r].result = run[r].result
         /\ \A q \in Runs \ {r} : run'[q] = run[q]
<1> DEFINE x == run[r]
           y == [x EXCEPT !.phase = "executing", !.at = now]
<1>1. run \in [Runs -> RunState] /\ now \in Times
  BY JobsAndRuns DEF TypeOK, Times
<1>2. x \in RunState
  BY <1>1
<1>3. run' = [run EXCEPT ![r] = y]
  OBVIOUS
<1> HIDE DEF x
<1>4. /\ y \in RunState /\ y.phase = "executing" /\ y.at = now
      /\ y.job = x.job /\ y.by = x.by /\ y.kind = x.kind
      /\ y.since = x.since /\ y.result = x.result
  BY <1>1, <1>2 DEF RunState
<1> HIDE DEF y
<1>5. run'[r] = y /\ \A q \in Runs \ {r} : run'[q] = run[q]
  BY <1>1, <1>3
<1>6. run' \in [Runs -> RunState]
  BY <1>1, <1>3, <1>4
<1> QED
  BY <1>4, <1>5, <1>6 DEF x

LEMMA RunEnds ==
  ASSUME TypeOK, NEW r \in Runs, NEW result \in {"ok", "transient", "permanent"},
         run' = [run EXCEPT ![r].phase = "ended", ![r].result = result]
  PROVE  /\ run' \in [Runs -> RunState]
         /\ run'[r].phase = "ended" /\ run'[r].result = result
         /\ run'[r].job = run[r].job /\ run'[r].by = run[r].by /\ run'[r].kind = run[r].kind
         /\ run'[r].since = run[r].since /\ run'[r].at = run[r].at
         /\ \A q \in Runs \ {r} : run'[q] = run[q]
<1> DEFINE x == run[r]
           y == [x EXCEPT !.phase = "ended", !.result = result]
<1>1. run \in [Runs -> RunState]
  BY DEF TypeOK
<1>2. x \in RunState
  BY <1>1
<1>3. run' = [run EXCEPT ![r] = y]
  OBVIOUS
<1> HIDE DEF x
<1>4. /\ y \in RunState /\ y.phase = "ended" /\ y.result = result
      /\ y.job = x.job /\ y.by = x.by /\ y.kind = x.kind
      /\ y.since = x.since /\ y.at = x.at
  BY <1>2 DEF RunState
<1> HIDE DEF y
<1>5. run'[r] = y /\ \A q \in Runs \ {r} : run'[q] = run[q]
  BY <1>1, <1>3
<1>6. run' \in [Runs -> RunState]
  BY <1>1, <1>3, <1>4
<1> QED
  BY <1>4, <1>5, <1>6 DEF x

LEMMA StepType == TypeOK /\ [Next]_vars => TypeOK'
<1> SUFFICES ASSUME TypeOK, [Next]_vars PROVE TypeOK'
  OBVIOUS
<1> USE DEF storeVars, serviceVars, runVars
<1>0. /\ now \in 0 .. MaxTime /\ disk \in Store /\ mem \in [Services -> Store]
      /\ run \in [Runs -> RunState] /\ current \in Services
      /\ alive \subseteq Runs /\ cut \subseteq Runs
      /\ \A r \in Runs : run[r].phase = "executing" => r \in alive
      /\ phase \in [Services -> {"unbuilt", "off", "marked", "catchup", "caught", "on", "dead"}]
      /\ skip \in [Services -> SUBSET Jobs] /\ tick \in [Services -> BOOLEAN]
      /\ timer \in [Services -> BOOLEAN] /\ cutOff \subseteq Jobs \X Times
      /\ faults \in 0 .. MaxTroubles /\ edits \in 0 .. MaxTroubles
  BY DEF TypeOK, Store
\* What has to be shown of the next state.
<1>1. ASSUME now' \in 0 .. MaxTime, disk' \in Store, mem' \in [Services -> Store],
             run' \in [Runs -> RunState], current' \in Services,
             alive' \subseteq Runs, cut' \subseteq Runs,
             \A r \in Runs : run'[r].phase = "executing" => r \in alive',
             phase' \in [Services -> {"unbuilt", "off", "marked", "catchup", "caught", "on", "dead"}],
             skip' \in [Services -> SUBSET Jobs], tick' \in [Services -> BOOLEAN],
             timer' \in [Services -> BOOLEAN], cutOff' \subseteq Jobs \X Times,
             faults' \in 0 .. MaxTroubles, edits' \in 0 .. MaxTroubles
      PROVE  TypeOK'
  BY <1>1 DEF TypeOK, Store
<1>2. CASE Tick
  <2>1. now' \in 0 .. MaxTime
    BY <1>0, <1>2, JobsAndRuns DEF Tick
  <2> QED
    BY <1>0, <1>1, <1>2, <2>1 DEF Tick
<1>3. CASE List
  <2> DEFINE store == Maintain(mem[current], FALSE)
  <2>1. store \in Store
    BY <1>0, MaintainIs
  <2>2. Save(current, store) \/ (Memory(current, store) /\ UNCHANGED <<disk, faults>>)
    BY <1>3 DEF List
  <2>3. disk' \in Store /\ mem' \in [Services -> Store] /\ faults' \in 0 .. MaxTroubles
    <3> HIDE DEF store
    <3> QED  BY <1>0, <2>1, <2>2, SaveType DEF Memory
  <2> QED
    BY <1>0, <1>1, <1>3, <2>3 DEF List
<1>4. CASE Reload
  <2>1. current + 1 \in Services
    BY <1>0, <1>4, CronTypes DEF Reload, Services
  <2> QED
    BY <1>0, <1>1, <1>4, <2>1 DEF Reload
<1>5. CASE Crash
  <2>0. current < MaxServices
    BY <1>5, Zenon DEF Crash
  <2>1. current + 1 \in Services
    BY <1>0, <2>0, CronTypes DEF Services
  <2>2. /\ run' \in [Runs -> RunState]
        /\ \A r \in Runs : run'[r].phase # "executing"
    <3>1. 0 \in Times
      BY JobsAndRuns DEF Times
    <3>2. ASSUME NEW r \in Runs PROVE run'[r] \in RunState /\ run'[r].phase # "executing"
      <4>1. run[r] \in RunState
        BY <1>0
      <4>2. run'[r] = IF run[r].phase \in {"unused", "done"} THEN run[r]
                      ELSE [run[r] EXCEPT !.phase = "dead", !.since = 0, !.fresh = FALSE]
        BY <1>5 DEF Crash
      <4> QED
        BY <3>1, <4>1, <4>2 DEF RunState
    <3>3. run' = [r \in Runs |-> run'[r]]
      BY <1>5 DEF Crash
    <3> QED
      BY <3>2, <3>3
  <2>3. cutOff' \subseteq Jobs \X Times
    <3>1. now \in Times
      BY <1>0, JobsAndRuns DEF Times
    <3>2. \A r \in alive : run[r].job \in Jobs
      BY <1>0 DEF RunState
    <3>3. cutOff' = {<<run[r].job, now>> : r \in {q \in alive : ~Exempt(q)}}
      BY <1>5, Zenon DEF Crash
    <3> QED
      BY <3>1, <3>2, <3>3
  <2>4. phase' \in [Services -> {"unbuilt", "off", "marked", "catchup", "caught", "on", "dead"}]
    BY <1>0, <1>5 DEF Crash
  <2> QED
    BY <1>0, <1>1, <1>5, <2>1, <2>2, <2>3, <2>4 DEF Crash
<1>6. ASSUME NEW s \in Services, Start(s) PROVE TypeOK'
  <2> DEFINE store == [j \in Jobs |-> [disk[j] EXCEPT !.marker = None]]
  <2>1. store \in Store
    BY <1>0 DEF Store, JobState
  <2>2. disk' \in Store /\ mem' \in [Services -> Store] /\ faults' \in 0 .. MaxTroubles
    <3>1. Save(s, store)
      BY <1>6 DEF Start
    <3> HIDE DEF store
    <3> QED  BY <2>1, <3>1, SaveType
  <2>3. skip' \in [Services -> SUBSET Jobs]
    BY <1>0, <1>6 DEF Start
  <2> QED
    BY <1>0, <1>1, <1>6, <2>2, <2>3 DEF Start
<1>7. ASSUME NEW s \in Services, PlanCatchup(s) PROVE TypeOK'
  <2> DEFINE missed == Missed(mem[s]) \ skip[s]
  <2>1. CASE missed = {}
    BY <1>0, <1>1, <1>7, <2>1 DEF PlanCatchup
  <2>2. CASE missed # {}
    <3>1. PICK first \in SUBSET missed :
            /\ CanRun(first)
            /\ phase' = [phase EXCEPT ![s] = "catchup"]
            /\ skip' = [skip EXCEPT ![s] = missed \ first]
            /\ run' = Begun(s, first, "catchup", "queued", FALSE)
            /\ Save(s, Marked(mem[s], first))
            /\ cut' = cut \cup (IF s = current THEN {}
                                ELSE {r \in Runs : run[r].phase # "unused"})
            /\ UNCHANGED alive
      BY <1>7, <2>2 DEF PlanCatchup
    <3>2. missed \subseteq Jobs
      BY DEF Missed
    <3> HIDE DEF missed
    <3>3. first \in SUBSET Jobs
      BY <3>2
    <3>4. Marked(mem[s], first) \in Store
      BY <1>0, <3>1, <3>3, MarkedIs
    <3>5. disk' \in Store /\ mem' \in [Services -> Store] /\ faults' \in 0 .. MaxTroubles
      BY <3>1, <3>4, SaveType
    <3>6. run' \in [Runs -> RunState] /\ \A r \in Runs : run'[r].phase = "executing" => r \in alive'
      BY <3>1, <3>3, BegunTyped
    <3>7. skip' \in [Services -> SUBSET Jobs] /\ cut' \subseteq Runs
      BY <1>0, <3>1, <3>2
    <3>8. UNCHANGED <<now, timer, tick, current, cutOff, edits>>
      BY <1>7 DEF PlanCatchup
    <3> QED
      BY <1>0, <1>1, <3>1, <3>5, <3>6, <3>7, <3>8
  <2> QED
    BY <2>1, <2>2
<1>8. ASSUME NEW s \in Services, ApplyCatchup(s) PROVE TypeOK'
  <2> DEFINE rs == Batch(s, {"catchup"})
             applied == ApplyAll(disk, rs)
             deferred == [j \in Jobs |->
               IF j \in skip[s] /\ applied[j].exists /\ applied[j].enabled
               THEN [applied[j] EXCEPT !.next = now + 1] ELSE applied[j]]
  <2>1. rs \in SUBSET Runs
    BY DEF Batch
  <2>2. applied \in Store
    <3> HIDE DEF rs
    <3> QED  BY <1>0, <2>1, ApplyAllIs
  <2>3. deferred \in Store
    <3> HIDE DEF applied
    <3>1. now + 1 \in Nat
      BY <1>0, JobsAndRuns
    <3> QED
      BY <2>2, <3>1 DEF Store, JobState
  <2>4. Maintain(deferred, FALSE) \in Store
    <3> HIDE DEF deferred
    <3> QED  BY <1>0, <2>3, MaintainIs
  <2>5. Save(s, Maintain(deferred, FALSE)) /\ run' = Done(s, rs)
        /\ phase' = [phase EXCEPT ![s] = "caught"]
        /\ UNCHANGED <<now, skip, timer, tick, current, alive, cutOff, edits>>
    BY <1>8 DEF ApplyCatchup
  <2>6. cut' \subseteq Runs
    BY <1>0, <1>8 DEF ApplyCatchup, Overrun, Beside
  <2> HIDE DEF deferred, rs
  <2>7. disk' \in Store /\ mem' \in [Services -> Store] /\ faults' \in 0 .. MaxTroubles
    BY <2>4, <2>5, SaveType
  <2>8. run' \in [Runs -> RunState] /\ \A r \in Runs : run'[r].phase = "executing" => r \in alive'
    BY <2>1, <2>5, DoneTyped
  <2> QED
    BY <1>0, <1>1, <2>5, <2>6, <2>7, <2>8
<1>9. ASSUME NEW s \in Services, Started(s) PROVE TypeOK'
  <2>1. Recompute(disk) \in Store
    BY <1>0, RecomputeIs
  <2>2. Save(s, Recompute(disk)) /\ Arm(s, Recompute(disk)) /\ run' = Done(s, {})
        /\ phase' = [phase EXCEPT ![s] = "on"] /\ skip' = [skip EXCEPT ![s] = {}]
        /\ UNCHANGED <<now, tick, current, alive, cut, cutOff, edits>>
    BY <1>9 DEF Started
  <2>3. disk' \in Store /\ mem' \in [Services -> Store] /\ faults' \in 0 .. MaxTroubles
        /\ timer' \in [Services -> BOOLEAN]
    BY <2>1, <2>2, SaveType, ArmType
  <2>4. run' \in [Runs -> RunState] /\ \A r \in Runs : run'[r].phase = "executing" => r \in alive'
    BY <2>2, DoneTyped
  <2> QED
    BY <1>0, <1>1, <2>2, <2>3, <2>4
<1>10. ASSUME NEW s \in Services, Fire(s) PROVE TypeOK'
  <2> DEFINE due == Runnable(disk)
             idle == Maintain(disk, TRUE)
             marked == Marked(disk, due)
             kind == IF phase[s] = "on" THEN "tick" ELSE "early"
  <2>1. due \in SUBSET Jobs /\ CanRun(due) /\ kind \in {"tick", "early", "catchup", "due", "force"}
        /\ UNCHANGED <<now, phase, skip, current, alive, cut, cutOff, edits>>
    BY <1>10 DEF Fire, Runnable
  <2>2. \/ Save(s, idle) /\ Arm(s, idle) /\ run' = Done(s, {}) /\ UNCHANGED tick
        \/ /\ Save(s, marked) /\ tick' = [tick EXCEPT ![s] = TRUE]
           /\ run' = Begun(s, due, kind, "queued", TRUE) /\ UNCHANGED timer
        \/ SaveFails(s, marked) /\ Arm(s, marked) /\ run' = Done(s, {}) /\ UNCHANGED tick
    BY <1>10 DEF Fire
  <2>3. idle \in Store
    BY <1>0, MaintainIs
  <2> HIDE DEF idle, due, kind
  <2>4. marked \in Store
    BY <1>0, <2>1, MarkedIs
  <2> HIDE DEF marked
  <2>5. disk' \in Store /\ mem' \in [Services -> Store] /\ faults' \in 0 .. MaxTroubles
    BY <2>2, <2>3, <2>4, SaveType
  <2>6. timer' \in [Services -> BOOLEAN] /\ tick' \in [Services -> BOOLEAN]
    BY <1>0, <2>2, ArmType
  <2>7. run' \in [Runs -> RunState] /\ \A r \in Runs : run'[r].phase = "executing" => r \in alive
    <3> DEFINE done == Done(s, {})
               begun == Begun(s, due, kind, "queued", TRUE)
    <3>1. done \in [Runs -> RunState] /\ \A r \in Runs : done[r].phase = "executing" => r \in alive
      BY DoneTyped
    <3>2. begun \in [Runs -> RunState]
          /\ \A r \in Runs : begun[r].phase = "executing" => r \in alive
      BY <2>1, BegunTyped
    <3>3. run' = done \/ run' = begun
      BY <2>2
    <3> HIDE DEF done, begun
    <3> QED
      BY <3>1, <3>2, <3>3
  <2> QED
    BY <1>0, <1>1, <2>1, <2>5, <2>6, <2>7
<1>11. ASSUME NEW s \in Services, ApplyTick(s) PROVE TypeOK'
  <2> DEFINE rs == Batch(s, Ticks)
             store == Maintain(ApplyAll(disk, rs), FALSE)
  <2>1. rs \in SUBSET Runs
    BY DEF Batch
  <2>2. /\ tick' = [tick EXCEPT ![s] = FALSE]
        /\ Save(s, store) \/ SaveFails(s, store)
        /\ Arm(s, store) /\ run' = Done(s, rs)
        /\ UNCHANGED <<now, phase, skip, current, alive, cutOff, edits>>
    BY <1>11 DEF ApplyTick
  <2>3. cut' \subseteq Runs
    BY <1>0, <1>11 DEF ApplyTick, Overrun, Beside
  <2> HIDE DEF rs
  <2>4. store \in Store
    BY <1>0, <2>1, ApplyAllIs, MaintainIs
  <2> HIDE DEF store
  <2>5. disk' \in Store /\ mem' \in [Services -> Store] /\ faults' \in 0 .. MaxTroubles
        /\ timer' \in [Services -> BOOLEAN]
    BY <2>2, <2>4, SaveType, ArmType
  <2>6. run' \in [Runs -> RunState] /\ \A r \in Runs : run'[r].phase = "executing" => r \in alive
    BY <2>1, <2>2, DoneTyped
  <2> QED
    BY <1>0, <1>1, <2>2, <2>3, <2>5, <2>6
<1>12. ASSUME NEW r \in Runs, Begin(r) PROVE TypeOK'
  <2> DEFINE s == run[r].by
             j == run[r].job
             w == [run |-> r, since |-> now]
  <2>1. s \in Services /\ j \in Jobs /\ w \in Markers /\ now \in Times
    <3>1. now \in Times
      BY <1>0, JobsAndRuns DEF Times
    <3> QED
      BY <1>0, <3>1 DEF RunState, Markers
  <2>2. /\ run' = [run EXCEPT ![r].phase = "executing", ![r].at = now]
        /\ alive' = alive \cup {r}
        /\ mem' = [mem EXCEPT ![s][j].marker = w] \/ mem' = mem
        /\ UNCHANGED <<now, disk, serviceVars, cut, cutOff, faults, edits>>
    BY <1>12 DEF Begin
  <2> HIDE DEF w, s, j
  <2>3. mem' \in [Services -> Store]
    <3>1. mem[s] \in Store /\ mem[s][j] \in JobState
      BY <1>0, <2>1 DEF Store
    <3>2. [mem[s][j] EXCEPT !.marker = w] \in JobState
      BY <2>1, <3>1 DEF JobState
    <3>3. [mem[s] EXCEPT ![j].marker = w] \in Store
      BY <2>1, <3>1, <3>2 DEF Store
    <3>4. [mem EXCEPT ![s][j].marker = w] = [mem EXCEPT ![s] = [mem[s] EXCEPT ![j].marker = w]]
      OBVIOUS
    <3> QED
      BY <1>0, <2>1, <2>2, <3>3, <3>4
  <2>4. run' \in [Runs -> RunState] /\ \A q \in Runs : run'[q].phase = "executing" => q \in alive'
    BY <1>0, <2>2, RunBegins
  <2> QED
    BY <1>0, <1>1, <2>2, <2>3, <2>4
<1>13. ASSUME NEW r \in Runs, TimesOut(r) PROVE TypeOK'
  <2>1. run' \in [Runs -> RunState] /\ \A q \in Runs : run'[q].phase = "executing" => q \in alive'
    BY <1>0, <1>13, RunEnds DEF TimesOut
  <2> QED
    BY <1>0, <1>1, <1>13, <2>1 DEF TimesOut
<1>14. ASSUME NEW r \in Runs, Aborted(r) PROVE TypeOK'
  BY <1>0, <1>1, <1>14 DEF Aborted
<1>15. ASSUME NEW r \in Runs, NEW result \in {"ok", "transient", "permanent"},
              Executed(r, result)
       PROVE  TypeOK'
  <2>1. run' \in [Runs -> RunState] /\ \A q \in Runs : run'[q].phase = "executing" => q \in alive'
    BY <1>0, <1>15, RunEnds DEF Executed
  <2> QED
    BY <1>0, <1>1, <1>15, <2>1 DEF Executed
<1>16. ASSUME NEW r \in Runs, FinishRunNow(r) PROVE TypeOK'
  <2> DEFINE s == run[r].by
             j == run[r].job
             applied == ApplyResult(mem[s], r)[j]
             merged == [disk EXCEPT ![j] = IF @.exists THEN applied ELSE @]
             store == Maintain(merged, TRUE)
  <2>1. s \in Services /\ j \in Jobs /\ run[r] \in RunState
    BY <1>0 DEF RunState
  <2>2. cut' \subseteq Runs
    BY <1>0, <1>16 DEF FinishRunNow, Overrun, Beside
  <2>3. /\ \/ Save(s, store) /\ Arm(s, store) /\ run' = Done(s, {r})
           \/ SaveFails(s, store) /\ run' = [Done(s, {r}) EXCEPT ![r].phase = "unsaved"]
              /\ UNCHANGED timer
           \/ run' = [run EXCEPT ![r].phase = "done"] /\ UNCHANGED <<storeVars, timer, faults>>
        /\ UNCHANGED <<now, phase, skip, tick, current, alive, cutOff, edits>>
    BY <1>16 DEF FinishRunNow
  <2> HIDE DEF s, j
  <2>4. applied \in JobState
    <3>1. mem[s] \in Store
      BY <1>0, <2>1
    <3>2. ApplyResult(mem[s], r) \in Store
      BY <1>0, <2>1, <3>1, ResultIs
    <3> QED
      BY <2>1, <3>2 DEF Store
  <2> HIDE DEF applied
  <2>5. merged \in Store
    BY <1>0, <2>1, <2>4 DEF Store
  <2> HIDE DEF merged
  <2>6. store \in Store
    BY <1>0, <2>5, MaintainIs
  <2> HIDE DEF store
  <2>7. disk' \in Store /\ mem' \in [Services -> Store] /\ faults' \in 0 .. MaxTroubles
        /\ timer' \in [Services -> BOOLEAN]
    BY <1>0, <2>1, <2>3, <2>6, SaveType, ArmType
  <2>8. run' \in [Runs -> RunState] /\ \A q \in Runs : run'[q].phase = "executing" => q \in alive
    <3> DEFINE dn == Done(s, {r})
    <3>1. dn \in [Runs -> RunState] /\ \A q \in Runs : dn[q].phase = "executing" => q \in alive
      BY <2>1, DoneTyped
    <3> HIDE DEF dn
    <3>2. run' \in {dn, [dn EXCEPT ![r].phase = "unsaved"], [run EXCEPT ![r].phase = "done"]}
      BY <2>3 DEF dn
    <3>3. CASE run' = dn
      BY <3>1, <3>3
    <3>4. CASE run' = [dn EXCEPT ![r].phase = "unsaved"]
      BY <3>1, <3>4 DEF RunState
    <3>5. CASE run' = [run EXCEPT ![r].phase = "done"]
      BY <1>0, <3>5 DEF RunState
    <3> QED
      BY <3>2, <3>3, <3>4, <3>5
  <2> QED
    BY <1>0, <1>1, <2>2, <2>3, <2>7, <2>8
<1>17. ASSUME NEW j \in Jobs, NEW kind \in {"due", "force"}, RunNow(j, kind) PROVE TypeOK'
  <2> DEFINE s == current
             store == Maintain(mem[s], FALSE)
             marked == Marked(store, {j})
             n == RunOf(j, {j})
  <2>1. store \in Store /\ {j} \in SUBSET Jobs /\ CanRun({j})
    BY <1>0, <1>17, MaintainIs DEF RunNow
  <2>2. marked \in Store
    <3> HIDE DEF store
    <3> QED  BY <2>1, MarkedIs
  <2>3. n \in Runs
    BY <2>1, RunOfIs
  <2>4. /\ \/ /\ Save(s, marked)
              /\ run' = Begun(s, {j}, kind, "executing", FALSE)
              /\ alive' = alive \cup {n}
              /\ cut' = cut \cup (IF store[j].enabled THEN {} ELSE {n})
           \/ SaveFails(s, marked) /\ UNCHANGED runVars
        /\ UNCHANGED <<now, serviceVars, cutOff, edits>>
    BY <1>17 DEF RunNow
  <2>5. disk' \in Store /\ mem' \in [Services -> Store] /\ faults' \in 0 .. MaxTroubles
    <3> HIDE DEF marked
    <3> QED  BY <1>0, <2>2, <2>4, SaveType
  <2>6. run' \in [Runs -> RunState] /\ (\A q \in Runs : run'[q].phase = "executing" => q \in alive')
        /\ cut' \subseteq Runs /\ alive' \subseteq Runs
    <3>1. CASE UNCHANGED runVars
      BY <1>0, <3>1
    <3>2. CASE /\ run' = Begun(s, {j}, kind, "executing", FALSE)
               /\ alive' = alive \cup {n}
               /\ cut' = cut \cup (IF store[j].enabled THEN {} ELSE {n})
      <4> DEFINE b == Begun(s, {j}, kind, "executing", FALSE)
      <4>1. /\ b \in [Runs -> RunState]
            /\ \A q \in Runs : q = n \/ b[q].phase = run[q].phase
        <5> DEFINE js == {j}
                   how == "executing"
                   reloaded == FALSE
        <5>1. js \in SUBSET Jobs /\ CanRun(js) /\ s \in Services
              /\ kind \in {"tick", "early", "catchup", "due", "force"}
              /\ how \in {"queued", "executing"} /\ reloaded \in BOOLEAN
          BY <1>0, <2>1
        <5>2. b = Begun(s, js, kind, how, reloaded) /\ n = RunOf(j, js) /\ \A i \in js : i = j
          OBVIOUS
        <5> HIDE DEF js, b, n, s, how, reloaded
        <5>3. b \in [Runs -> RunState]
          BY <5>1, <5>2, BegunIs
        <5>4. ASSUME NEW q \in Runs PROVE q = n \/ b[q].phase = run[q].phase
          <6>1. \/ \E i \in js : q = RunOf(i, js)
                \/ SameRun(b[q], run[q])
            <7>1. \A r \in Runs :
                    \/ \E i \in js : r = RunOf(i, js)
                    \/ SameRun(Begun(s, js, kind, how, reloaded)[r], run[r])
              BY <5>1, BegunIs
            <7> QED
              BY <5>2, <7>1
          <6> QED
            BY <5>2, <6>1 DEF SameRun
        <5> QED
          BY <5>3, <5>4
      <4> HIDE DEF b, n, store
      <4>2. run' = b
        BY <3>2 DEF b, n, store
      <4> QED
        BY <1>0, <2>3, <3>2, <4>1, <4>2
    <3> QED
      BY <2>4, <3>1, <3>2
  <2> QED
    BY <1>0, <1>1, <2>4, <2>5, <2>6
<1>18. ASSUME NEW j \in Jobs, NEW what \in {"enable", "disable", "remove"}, Edit(j, what)
       PROVE  TypeOK'
  <2> DEFINE s == current
             x == mem[s][j]
             on == [x EXCEPT !.enabled = TRUE]
             y == CASE what = "enable" -> [x EXCEPT !.enabled = TRUE, !.next = ComputeNext(j, on)]
                    [] what = "disable" ->
                         [x EXCEPT !.enabled = FALSE, !.next = None, !.marker = None]
                    [] what = "remove" ->
                         [x EXCEPT !.exists = FALSE, !.enabled = FALSE, !.next = None,
                                   !.marker = None]
             store == [mem[s] EXCEPT ![j] = y]
  <2>1. /\ edits' = edits \/ (CanTrouble /\ edits' = edits + 1)
        /\ Save(s, store) /\ Arm(s, store)
        /\ UNCHANGED <<now, phase, skip, tick, current, run, alive, cutOff>>
    BY <1>18, Zenon DEF Edit
  <2>2. cut' \subseteq Runs
    BY <1>0, <1>18 DEF Edit, Beside
  <2>3. y \in JobState
    <3>1. x \in JobState
      BY <1>0 DEF Store
    <3> HIDE DEF x
    <3>2. on \in JobState
      BY <3>1 DEF JobState
    <3> HIDE DEF on
    <3>3. ComputeNext(j, on) \in Nat \cup {None}
      BY <1>0, <3>2, NextIs
    <3> DEFINE n == ComputeNext(j, on)
    <3> HIDE DEF n
    <3>4. /\ [x EXCEPT !.enabled = TRUE, !.next = n] \in JobState
          /\ [x EXCEPT !.enabled = FALSE, !.next = None, !.marker = None] \in JobState
          /\ [x EXCEPT !.exists = FALSE, !.enabled = FALSE, !.next = None, !.marker = None]
               \in JobState
      BY <3>1, <3>3 DEF JobState, n
    <3>5. CASE what = "enable"
      BY <3>4, <3>5 DEF n
    <3>6. CASE what = "disable"
      BY <3>4, <3>6
    <3>7. CASE what = "remove"
      BY <3>4, <3>7
    <3> QED
      BY <3>5, <3>6, <3>7
  <2> HIDE DEF y
  <2>4. store \in Store
    BY <1>0, <2>3 DEF Store
  <2> HIDE DEF store
  <2>5. disk' \in Store /\ mem' \in [Services -> Store] /\ faults' \in 0 .. MaxTroubles
        /\ timer' \in [Services -> BOOLEAN] /\ edits' \in 0 .. MaxTroubles
    BY <1>0, <2>1, <2>4, SaveType, ArmType, TypeParts
  <2> QED
    BY <1>0, <1>1, <2>1, <2>2, <2>5
<1>19. CASE UNCHANGED vars
  BY <1>0, <1>1, <1>19 DEF vars
<1> QED
  BY <1>2, <1>3, <1>4, <1>5, <1>6, <1>7, <1>8, <1>9, <1>10, <1>11, <1>12, <1>13, <1>14,
     <1>15, <1>16, <1>17, <1>18, <1>19 DEF Next

\* The jobs, the runs and the state of the services keep their types, and a run
\* that has not ended is executing its job (onTimer, run, update, start).
THEOREM CronTypesHold == Spec => []TypeOK
BY InitType, StepType, PTL DEF Spec

---------------------------------------------------------------------------
(* What a step does to a run *)

\* The runs are taken in their order, so that none is used twice.
UsedFirst == \A r \in UsedRuns : r <= Used

LEMMA BegunUsed ==
  ASSUME TypeOK, UsedFirst, NEW s \in Services, NEW js \in SUBSET Jobs, CanRun(js),
         NEW kind \in {"tick", "early", "catchup", "due", "force"},
         NEW how \in {"queued", "executing"}, NEW reloaded \in BOOLEAN,
         run' = Begun(s, js, kind, how, reloaded)
  PROVE  /\ UsedFirst'
         /\ \A r \in Runs :
              \/ \E j \in js :
                   /\ r = RunOf(j, js) /\ run[r].phase = "unused"
                   /\ run'[r].phase = how /\ run'[r].job = j /\ run'[r].by = s
                   /\ run'[r].kind = kind /\ run'[r].since = now /\ run'[r].at = now
                   /\ run'[r].result = "none"
              \/ (\A j \in js : r # RunOf(j, js)) /\ SameRun(run'[r], run[r])
<1> DEFINE new == {RunOf(j, js) : j \in js}
           f == [j \in js |-> RunOf(j, js)]
<1>1. /\ Used \in Nat /\ IsFiniteSet(UsedRuns) /\ Used = Cardinality(UsedRuns)
      /\ IsFiniteSet(js) /\ Cardinality(js) \in Nat
  BY UsedIs, RankIs
<1>2. /\ \A j \in js : RunOf(j, js) \in Runs /\ RunOf(j, js) > Used
                       /\ RunOf(j, js) <= Used + Cardinality(js)
      /\ \A i, j \in js : RunOf(i, js) = RunOf(j, js) => i = j
  BY RunOfIs
<1>3. \A j \in js : RunOf(j, js) \in Nat /\ RunOf(j, js) \notin UsedRuns
  <2>1. \A r \in Runs : r \in Nat
    BY JobsAndRuns
  <2> QED
    BY <1>1, <1>2, <2>1 DEF UsedFirst
<1>4. \A r \in Runs :
        \/ \E j \in js :
             /\ r = RunOf(j, js)
             /\ run'[r].phase = how /\ run'[r].job = j /\ run'[r].by = s
             /\ run'[r].kind = kind /\ run'[r].since = now /\ run'[r].at = now
             /\ run'[r].result = "none"
        \/ (\A j \in js : r # RunOf(j, js)) /\ SameRun(run'[r], run[r])
  BY BegunIs
<1>5. UsedRuns' = UsedRuns \cup new
  <2>1. ASSUME NEW r \in Runs PROVE run'[r].phase # "unused" <=> r \in UsedRuns \cup new
    <3>1. CASE \E j \in js : r = RunOf(j, js)
      BY <1>4, <3>1
    <3>2. CASE \A j \in js : r # RunOf(j, js)
      BY <1>4, <3>2 DEF SameRun, UsedRuns
    <3> QED
      BY <3>1, <3>2
  <2>2. new \subseteq Runs
    BY <1>2
  <2> HIDE DEF new
  <2> QED
    BY <2>1, <2>2 DEF UsedRuns
<1>6. IsFiniteSet(new) /\ Cardinality(new) = Cardinality(js)
  <2>1. f \in Surjection(js, new) /\ f \in Injection(js, new)
    <3>1. f \in [js -> new] /\ \A j \in js : f[j] = RunOf(j, js)
      OBVIOUS
    <3>2. \A r \in new : \E j \in js : f[j] = r
      OBVIOUS
    <3>3. \A i, j \in js : f[i] = f[j] => i = j
      <4> HIDE DEF f
      <4> QED  BY <1>2, <3>1
    <3> HIDE DEF f, new
    <3> QED
      BY <3>1, <3>2, <3>3 DEF Surjection, Injection, IsInjective
  <2> HIDE DEF f, new
  <2> QED
    BY <1>1, <2>1, FS_Surjection
<1>7. UsedRuns \cap new = {}
  BY <1>3
<1>8. Cardinality(UsedRuns \cup new) = Used + Cardinality(js)
  <2> HIDE DEF new
  <2>1. Cardinality(UsedRuns \cap new) = 0
    BY <1>7, FS_EmptySet
  <2>2. Cardinality(UsedRuns \cup new)
            = Cardinality(UsedRuns) + Cardinality(new) - Cardinality(UsedRuns \cap new)
      BY <1>1, <1>6, FS_Union
  <2> QED
      BY <1>1, <1>6, <2>1, <2>2
<1>9. Used' = Used + Cardinality(js)
  BY <1>5, <1>8 DEF Used, UsedRuns
<1>10. UsedFirst'
  <2>1. ASSUME NEW r \in UsedRuns' PROVE r <= Used'
    <3>1. CASE r \in UsedRuns
      <4>1. r \in Nat /\ r <= Used
        BY <3>1, JobsAndRuns DEF UsedRuns, UsedFirst
      <4> QED
        BY <1>1, <1>9, <4>1
    <3>2. CASE r \in new
      BY <1>1, <1>2, <1>3, <1>9, <3>2
    <3> QED
      BY <1>5, <2>1, <3>1, <3>2
  <2> QED
    BY <2>1 DEF UsedFirst
<1>11. \A j \in js : run[RunOf(j, js)].phase = "unused"
  BY <1>2, <1>3 DEF UsedRuns
<1> QED
  BY <1>4, <1>10, <1>11

LEMMA UsedSame ==
  ASSUME UsedFirst, \A r \in Runs : run'[r].phase = "unused" <=> run[r].phase = "unused"
  PROVE  UsedFirst'
<1>1. UsedRuns' = UsedRuns
  BY DEF UsedRuns
<1>2. Used' = Used
  BY <1>1 DEF Used, UsedRuns
<1> QED
  BY <1>1, <1>2 DEF UsedFirst

SameRole(r) ==
  run'[r].job = run[r].job /\ run'[r].by = run[r].by /\ run'[r].kind = run[r].kind

Opens(r) ==
  /\ run[r].phase = "unused" /\ run'[r].phase \in {"queued", "executing"}
  /\ run'[r].since = now /\ run'[r].at = now /\ IsUp(run'[r].by)
Advances(r) ==
  /\ SameRole(r) /\ run'[r].since = run[r].since
  /\ \/ run[r].phase = "queued" /\ run'[r].phase = "executing" /\ run'[r].at = now
     \/ run[r].phase = "executing" /\ run'[r].phase = "ended" /\ run'[r].at = run[r].at
Closes(r) ==
  /\ SameRole(r) /\ run'[r].since \in {0, run[r].since}
  /\ run'[r].at = run[r].at /\ run'[r].result = run[r].result
  /\ run[r].phase = "ended" /\ run'[r].phase \in {"done", "unsaved"}
Dies(r) ==
  /\ SameRole(r) /\ run'[r].since = 0
  /\ run'[r].at = run[r].at /\ run'[r].result = run[r].result
  /\ run[r].phase \notin {"unused", "done"} /\ run'[r].phase = "dead"

Beginning ==
  \/ \E s \in Services : PlanCatchup(s) \/ Fire(s)
  \/ \E j \in Jobs, kind \in {"due", "force"} : RunNow(j, kind)

Ending(r) == FinishRunNow(r) \/ \E s \in Services : ApplyCatchup(s) \/ ApplyTick(s)

\* A run begins, advances and ends, or dies in a crash.
LEMMA RunsChange ==
  ASSUME TypeOK, UsedFirst, [Next]_vars
  PROVE  /\ UsedFirst'
         /\ \A r \in Runs : SameRun(run'[r], run[r]) \/ (Beginning /\ Opens(r))
                            \/ Advances(r) \/ (Ending(r) /\ Closes(r)) \/ (Crash /\ Dies(r))
<1> USE DEF storeVars, serviceVars, runVars
<1> DEFINE Change(r) == \/ SameRun(run'[r], run[r]) \/ (Beginning /\ Opens(r))
                        \/ Advances(r) \/ (Ending(r) /\ Closes(r)) \/ (Crash /\ Dies(r))
           Goal == UsedFirst' /\ \A r \in Runs : Change(r)
<1>0. /\ run \in [Runs -> RunState] /\ current \in Services
      /\ \A r \in Runs : run[r].by \in Services /\ run[r].job \in Jobs
  <2>1. run \in [Runs -> RunState] /\ current \in Services
    BY DEF TypeOK
  <2> QED
    BY <2>1 DEF RunState
<1>1. ASSUME run' = run PROVE Goal
  <2>1. \A r \in Runs : SameRun(run'[r], run[r])
    BY <1>1 DEF SameRun
  <2> QED
    BY <1>1, <2>1, UsedSame
\* Without a new run.
<1>2. ASSUME \A r \in Runs : \/ SameRun(run'[r], run[r]) \/ Advances(r)
                             \/ (Ending(r) /\ Closes(r)) \/ (Crash /\ Dies(r))
      PROVE  Goal
  <2>1. ASSUME NEW r \in Runs PROVE run'[r].phase = "unused" <=> run[r].phase = "unused"
    BY <1>2 DEF SameRun, Advances, Closes, Dies
  <2>2. UsedFirst'
    BY <2>1, UsedSame
  <2> QED
    BY <1>2, <2>2
\* Runs that begin.
<1>3. ASSUME NEW s \in Services, NEW js \in SUBSET Jobs, CanRun(js), IsUp(s), Beginning,
             NEW kind \in {"tick", "early", "catchup", "due", "force"},
             NEW how \in {"queued", "executing"}, NEW reloaded \in BOOLEAN,
             run' = Begun(s, js, kind, how, reloaded)
      PROVE  Goal
  <2>1. UsedFirst' /\ \A r \in Runs :
              \/ \E j \in js :
                   /\ r = RunOf(j, js) /\ run[r].phase = "unused"
                   /\ run'[r].phase = how /\ run'[r].job = j /\ run'[r].by = s
                   /\ run'[r].kind = kind /\ run'[r].since = now /\ run'[r].at = now
                   /\ run'[r].result = "none"
              \/ (\A j \in js : r # RunOf(j, js)) /\ SameRun(run'[r], run[r])
    BY <1>3, BegunUsed
  <2>2. ASSUME NEW r \in Runs PROVE SameRun(run'[r], run[r]) \/ Opens(r)
    BY <1>3, <2>1 DEF Opens
  <2> QED
    BY <1>3, <2>1, <2>2
\* Runs that are done.
<1>4. ASSUME NEW s \in Services, NEW rs \in SUBSET Runs,
             \A r \in rs : run[r].phase = "ended" /\ Ending(r), run' = Done(s, rs)
      PROVE  Goal
  <2>1. /\ \A r \in rs : /\ run'[r].phase = "done" /\ run'[r].since = 0
                         /\ run'[r].job = run[r].job /\ run'[r].by = run[r].by
                         /\ run'[r].kind = run[r].kind /\ run'[r].at = run[r].at
                         /\ run'[r].result = run[r].result
        /\ \A r \in Runs \ rs : SameRun(run'[r], run[r])
    BY <1>4, DoneIs
  <2>2. ASSUME NEW r \in Runs PROVE SameRun(run'[r], run[r]) \/ (Ending(r) /\ Closes(r))
    BY <1>4, <2>1 DEF Closes, SameRole
  <2> QED
    BY <1>2, <2>2
<1> HIDE DEF Goal
<1>5. ASSUME Tick \/ List \/ Reload \/ UNCHANGED vars PROVE Goal
  <2>1. run' = run
    BY <1>5 DEF Tick, List, Reload, vars
  <2> QED
    BY <1>1, <2>1
<1>6. ASSUME Crash PROVE Goal
  <2>1. ASSUME NEW r \in Runs
        PROVE  SameRun(run'[r], run[r]) \/ Advances(r) \/ (Ending(r) /\ Closes(r)) \/ (Crash /\ Dies(r))
    <3>1. run'[r] = IF run[r].phase \in {"unused", "done"} THEN run[r]
                    ELSE [run[r] EXCEPT !.phase = "dead", !.since = 0, !.fresh = FALSE]
      BY <1>6 DEF Crash
    <3>2. run[r] \in RunState
      BY <1>0
    <3> QED
      BY <1>6, <3>1, <3>2 DEF SameRun, Dies, SameRole, RunState
  <2> QED
    BY <1>2, <2>1
<1>7. ASSUME NEW s \in Services, Start(s) PROVE Goal
  BY <1>1, <1>7 DEF Start
<1>8. ASSUME NEW s \in Services, PlanCatchup(s) PROVE Goal
  <2> DEFINE missed == Missed(mem[s]) \ skip[s]
  <2>1. CASE missed = {}
    BY <1>1, <1>8, <2>1 DEF PlanCatchup
  <2>2. CASE missed # {}
    <3>1. PICK first \in SUBSET missed :
            CanRun(first) /\ run' = Begun(s, first, "catchup", "queued", FALSE)
      BY <1>8, <2>2 DEF PlanCatchup
    <3>2. first \in SUBSET Jobs
      BY DEF Missed
    <3>3. IsUp(s)
      BY <1>8 DEF PlanCatchup, IsUp
    <3> QED
      BY <1>3, <1>8, <3>1, <3>2, <3>3 DEF Beginning
  <2> QED
    BY <2>1, <2>2
<1>9. ASSUME NEW s \in Services, ApplyCatchup(s) PROVE Goal
  <2>1. /\ Batch(s, {"catchup"}) \in SUBSET Runs /\ run' = Done(s, Batch(s, {"catchup"}))
        /\ \A r \in Batch(s, {"catchup"}) : run[r].phase = "ended"
    BY <1>9 DEF ApplyCatchup, Batch
  <2> QED
    BY <1>4, <1>9, <2>1 DEF Ending
<1>10. ASSUME NEW s \in Services, Started(s) PROVE Goal
  BY <1>4, <1>10 DEF Started
<1>11. ASSUME NEW s \in Services, Fire(s) PROVE Goal
  <2> DEFINE due == Runnable(disk)
             kind == IF phase[s] = "on" THEN "tick" ELSE "early"
             how == "queued"
             reloaded == TRUE
  <2>1. due \in SUBSET Jobs /\ CanRun(due) /\ IsUp(s)
        /\ kind \in {"tick", "early", "catchup", "due", "force"}
        /\ how \in {"queued", "executing"} /\ reloaded \in BOOLEAN
        /\ (run' = Done(s, {}) \/ run' = Begun(s, due, kind, how, reloaded))
    BY <1>11 DEF Fire, Runnable
  <2> HIDE DEF due, kind, how, reloaded
  <2> QED
    BY <1>3, <1>4, <1>11, <2>1 DEF Beginning
<1>12. ASSUME NEW s \in Services, ApplyTick(s) PROVE Goal
  <2>1. /\ Batch(s, Ticks) \in SUBSET Runs /\ run' = Done(s, Batch(s, Ticks))
        /\ \A r \in Batch(s, Ticks) : run[r].phase = "ended"
    BY <1>12 DEF ApplyTick, Batch
  <2> QED
    BY <1>4, <1>12, <2>1 DEF Ending
<1>13. ASSUME NEW r \in Runs, Begin(r) PROVE Goal
  <2>1. run' = [run EXCEPT ![r].phase = "executing", ![r].at = now] /\ run[r].phase = "queued"
    BY <1>13 DEF Begin
  <2>2. Advances(r) /\ \A q \in Runs \ {r} : run'[q] = run[q]
    BY <2>1, RunBegins DEF Advances, SameRole
  <2> QED
    BY <1>2, <2>2 DEF SameRun
<1>14. ASSUME NEW r \in Runs, NEW result \in {"ok", "transient", "permanent"},
              run' = [run EXCEPT ![r].phase = "ended", ![r].result = result],
              run[r].phase = "executing"
       PROVE  Goal
  <2>1. Advances(r) /\ \A q \in Runs \ {r} : run'[q] = run[q]
    BY <1>14, RunEnds DEF Advances, SameRole
  <2> QED
    BY <1>2, <2>1 DEF SameRun
<1>15. ASSUME NEW r \in Runs, TimesOut(r) PROVE Goal
  BY <1>14, <1>15 DEF TimesOut
<1>16. ASSUME NEW r \in Runs, Aborted(r) PROVE Goal
  BY <1>1, <1>16 DEF Aborted
<1>17. ASSUME NEW r \in Runs, NEW result \in {"ok", "transient", "permanent"},
              Executed(r, result)
       PROVE  Goal
  BY <1>14, <1>17 DEF Executed
<1>18. ASSUME NEW r \in Runs, FinishRunNow(r) PROVE Goal
  <2> DEFINE s == run[r].by
             dn == Done(s, {r})
  <2>1. s \in Services /\ {r} \in SUBSET Runs /\ run[r].phase = "ended"
    BY <1>0, <1>18 DEF FinishRunNow
  <2>2. run' \in {dn, [dn EXCEPT ![r].phase = "unsaved"], [run EXCEPT ![r].phase = "done"]}
    BY <1>18 DEF FinishRunNow
  <2>3. /\ dn \in [Runs -> RunState]
        /\ dn[r].since = 0 /\ dn[r].job = run[r].job /\ dn[r].by = run[r].by
        /\ dn[r].kind = run[r].kind /\ dn[r].at = run[r].at /\ dn[r].result = run[r].result
        /\ \A q \in Runs \ {r} : SameRun(dn[q], run[q])
    BY <2>1, DoneIs
  <2>4. CASE run' = dn
    BY <1>4, <1>18, <2>1, <2>4 DEF Ending
  <2> HIDE DEF dn
  <2>5. CASE run' = [dn EXCEPT ![r].phase = "unsaved"]
    <3>1. dn[r] \in RunState
      BY <2>3
    <3>2. run'[r] = [dn[r] EXCEPT !.phase = "unsaved"] /\ \A q \in Runs \ {r} : run'[q] = dn[q]
      BY <2>3, <2>5
    <3>3. Closes(r)
      BY <2>1, <2>3, <3>1, <3>2 DEF Closes, SameRole, RunState
    <3> QED
      BY <1>2, <1>18, <2>3, <3>2, <3>3 DEF Ending
  <2>6. CASE run' = [run EXCEPT ![r].phase = "done"]
    <3>1. run[r] \in RunState
      BY <1>0
    <3>2. run'[r] = [run[r] EXCEPT !.phase = "done"] /\ \A q \in Runs \ {r} : run'[q] = run[q]
      BY <1>0, <2>6
    <3>3. Closes(r)
      BY <2>1, <3>1, <3>2 DEF Closes, SameRole, RunState
    <3> QED
      BY <1>2, <1>18, <3>2, <3>3 DEF SameRun, Ending
  <2> QED
    BY <2>2, <2>4, <2>5, <2>6
<1>19. ASSUME NEW j \in Jobs, NEW kind \in {"due", "force"}, RunNow(j, kind) PROVE Goal
  <2> DEFINE js == {j}
             how == "executing"
             reloaded == FALSE
  <2>1. /\ js \in SUBSET Jobs /\ CanRun(js) /\ IsUp(current)
        /\ kind \in {"tick", "early", "catchup", "due", "force"}
        /\ how \in {"queued", "executing"} /\ reloaded \in BOOLEAN
        /\ run' = run \/ run' = Begun(current, js, kind, how, reloaded)
    BY <1>19 DEF RunNow
  <2> HIDE DEF js, how, reloaded
  <2> QED
    BY <1>0, <1>1, <1>3, <1>19, <2>1 DEF Beginning
<1>20. ASSUME NEW j \in Jobs, NEW what \in {"enable", "disable", "remove"}, Edit(j, what)
       PROVE  Goal
  BY <1>1, <1>20 DEF Edit
<1>21. Next => Goal
  BY <1>5, <1>6, <1>7, <1>8, <1>9, <1>10, <1>11, <1>12, <1>13, <1>15, <1>16, <1>17,
     <1>18, <1>19, <1>20 DEF Next
<1> QED
  BY <1>5, <1>21 DEF Goal

---------------------------------------------------------------------------
(* What a step does to a job *)

\* A job that is looked after: it may be repaired, and get a marker of now.
Tended(j, x, y) ==
  /\ y.exists = x.exists /\ y.enabled = x.enabled
  /\ y.last = x.last /\ y.lastRun = x.lastRun
  /\ x.enabled /\ x.marker # None /\ now - x.marker.since <= StuckAfter =>
       y.marker # None /\ y.marker.since \in {x.marker.since, now}
  /\ ~x.enabled => y.next \in {x.next, None}
  /\ x.enabled => y.next \in {x.next, ComputeNext(j, x)}

\* The job is kept from others since time t.
Held(x, t) == x.exists /\ x.enabled /\ x.marker # None /\ x.marker.since >= t

\* A one-shot job that is over, or not there any more.
Served(x) ==
  x.exists => x.last = "ok" /\ x.lastRun # None /\ AtTime <= x.lastRun /\ x.next = None

\* Enabled jobs have a next time, except for one-shot jobs that have run.
PlannedJob(j, x) ==
  x.enabled => \/ x.next # None
               \/ (OneShot(j) /\ x.last = "ok" /\ AtTime <= x.lastRun)

\* The next slot of a job that repeats is after time t.
After(j, x, t) == OneShot(j) \/ ~x.exists \/ x.next = None \/ x.next > t

LEMMA RepairedTended ==
  ASSUME NEW j, NEW x, NEW y, Repaired(j, x, y)
  PROVE  Tended(j, x, y)
BY DEF Repaired, Tended

LEMMA SameTended ==
  ASSUME NEW j, NEW x
  PROVE  Tended(j, x, x)
BY DEF Tended

\* Another marker, which is one of now, does no harm.
LEMMA MarkerTended ==
  ASSUME NEW j, NEW x, NEW y, NEW z, Tended(j, x, y),
         z.exists = y.exists, z.enabled = y.enabled, z.last = y.last, z.lastRun = y.lastRun,
         z.next = y.next, z.marker = y.marker \/ (z.marker # None /\ z.marker.since = now)
  PROVE  Tended(j, x, z)
BY DEF Tended

LEMMA TendedHeld ==
  ASSUME now \in 0 .. MaxTime, NEW j \in Jobs, NEW x \in JobState, NEW y \in JobState,
         Tended(j, x, y), NEW t \in Nat, t <= now, now - t <= StuckAfter, Held(x, t)
  PROVE  Held(y, t)
<1>1. x.exists /\ x.enabled /\ x.marker # None /\ x.marker.since >= t
  BY DEF Held
<1>2. x.marker.since \in Nat /\ now \in Nat /\ StuckAfter \in Nat
  BY <1>1, JobsAndRuns DEF JobState, Markers, Times
<1>3. now - x.marker.since <= StuckAfter
  BY <1>1, <1>2
<1>4. y.marker # None /\ y.marker.since \in {x.marker.since, now}
      /\ y.exists = x.exists /\ y.enabled = x.enabled
  BY <1>1, <1>3 DEF Tended
<1>5. y.marker.since >= t
  BY <1>1, <1>2, <1>4
<1> QED
  BY <1>1, <1>4, <1>5 DEF Held

LEMMA TendedServed ==
  ASSUME now \in 0 .. MaxTime, NEW j \in Jobs, NEW x \in JobState, NEW y,
         Tended(j, x, y), OneShot(j), Served(x)
  PROVE  Served(y)
<1>1. x.enabled => ComputeNext(j, x) = IF x.last = "ok" /\ AtTime <= x.lastRun THEN None ELSE AtTime
  BY NextIs
<1> QED
  BY <1>1 DEF Served, Tended

LEMMA TendedPlanned ==
  ASSUME now \in 0 .. MaxTime, NEW j \in Jobs, NEW x \in JobState, NEW y,
         Tended(j, x, y), PlannedJob(j, x)
  PROVE  PlannedJob(j, y) /\ (y.enabled /\ y.next # None => x.next # None)
<1>1. /\ ~OneShot(j) /\ x.enabled => ComputeNext(j, x) \in Nat /\ ComputeNext(j, x) > now
      /\ OneShot(j) /\ x.enabled =>
           ComputeNext(j, x) = IF x.last = "ok" /\ AtTime <= x.lastRun THEN None ELSE AtTime
  BY NextIs
<1>2. None \notin Nat /\ AtTime \in Nat
  BY JobsAndRuns
<1>3. x.enabled =>
        \/ ComputeNext(j, x) # None
        \/ (OneShot(j) /\ x.last = "ok" /\ AtTime <= x.lastRun)
  <2> DEFINE n == ComputeNext(j, x)
             over == x.last = "ok" /\ AtTime <= x.lastRun
  <2>1. x.enabled /\ ~OneShot(j) => n # None
    <3> HIDE DEF n
    <3> QED  BY <1>1, <1>2 DEF n
  <2>2. x.enabled /\ OneShot(j) /\ ~over => n # None
    <3>1. x.enabled /\ OneShot(j) /\ ~over => n = AtTime
      BY <1>1
    <3> HIDE DEF n, over
    <3> QED
      BY <1>2, <3>1
  <2> QED
    BY <2>1, <2>2
<1>4. y.enabled = x.enabled /\ y.last = x.last /\ y.lastRun = x.lastRun
      /\ (x.enabled => y.next \in {x.next, ComputeNext(j, x)})
  BY DEF Tended
<1>5. PlannedJob(j, y)
  BY <1>3, <1>4 DEF PlannedJob
<1>6. ASSUME y.enabled, y.next # None PROVE x.next # None
  <2>1. CASE x.next = None
    <3>1. OneShot(j) /\ x.last = "ok" /\ AtTime <= x.lastRun
      BY <1>4, <1>6, <2>1 DEF PlannedJob
    <3>2. ComputeNext(j, x) = None
      BY <1>1, <1>4, <1>6, <3>1
    <3> QED
      BY <1>4, <1>6, <2>1, <3>2
  <2> QED
    BY <2>1
<1> QED
  BY <1>5, <1>6

LEMMA TendedAfter ==
  ASSUME now \in 0 .. MaxTime, NEW j \in Jobs, NEW x \in JobState, NEW y,
         Tended(j, x, y), NEW t \in Nat, t <= now, After(j, x, t)
  PROVE  After(j, y, t)
<1>1. ~OneShot(j) /\ x.enabled => ComputeNext(j, x) \in Nat /\ ComputeNext(j, x) > now
  BY NextIs
<1>2. now \in Nat
  BY JobsAndRuns
<1>3. ~OneShot(j) /\ x.enabled => ComputeNext(j, x) > t
  BY <1>1, <1>2
<1> QED
  BY <1>3 DEF After, Tended

---------------------------------------------------------------------------
(* The services *)

Active(r) == run[r].phase \in {"queued", "executing", "ended"}

\* Services are built one after the other; those before the current one were
\* replaced and what they have under way goes on, or they are dead.
Phases ==
  /\ \A s \in Services : s > current <=> phase[s] = "unbuilt"
  /\ \A s \in Services : phase[s] = "off" => s = current
  /\ \A s \in Services : tick[s] => IsUp(s)
  /\ \A r \in Runs : run[r].by <= current
  /\ \A r \in Runs : Active(r) => IsUp(run[r].by)

\* What a job is made of in a step: what is on disk or in the memory in use;
Live(j, x) == x = disk[j] \/ (IsUp(current) /\ x = mem[current][j])
\* the memory of a service that was replaced;
Stale(j, x) ==
  UsedRuns \subseteq cut' /\ \E s \in Services : s # current /\ IsUp(s) /\ x = mem[s][j]
\* the result of a run;
Result(j, x) ==
  \E p \in Runs :
    /\ run[p].phase = "ended" /\ run'[p].phase \in {"done", "unsaved"} /\ run[p].job = j
    /\ Exempt(p) => Beside(j) \subseteq cut'
    /\ \/ disk[j].exists /\ x = ApplyResult(disk, p)[j]
       \/ mem[run[p].by][j].exists /\ x = ApplyResult(mem[run[p].by], p)[j]
\* a job that was interrupted, at a start;
Unmarked(j, x) == phase[current] = "off" /\ x = [disk[j] EXCEPT !.marker = None]
\* an edit;
Edited(j, x) ==
  LET m == mem[current][j] IN
  /\ IsUp(current)
  /\ m.exists /\ x.last = m.last /\ x.lastRun = m.lastRun
  /\ \/ /\ x.exists /\ x.enabled /\ x.marker = m.marker
        /\ x.next = ComputeNext(j, [m EXCEPT !.enabled = TRUE])
     \/ Beside(j) \subseteq cut' /\ ~x.enabled /\ x.next = None
\* a job that the catch-up leaves for later.
Deferred(j, x) ==
  \E z \in JobState :
    /\ Live(j, z) \/ Result(j, z)
    /\ x = [z EXCEPT !.next = now + 1] /\ z.enabled
    /\ \E s \in Services : phase[s] = "catchup" /\ j \in skip[s]
    /\ {r \in Runs : run[r].phase = "done" /\ run[r].job = j} \subseteq cut'

Source(j, x) ==
  Live(j, x) \/ Stale(j, x) \/ Result(j, x) \/ Unmarked(j, x) \/ Edited(j, x) \/ Deferred(j, x)
Written(j, y) == \E x \in JobState : Source(j, x) /\ Tended(j, x, y)

LEMMA LiveWritten ==
  ASSUME NEW j, NEW x \in JobState, Live(j, x), NEW y, Tended(j, x, y)
  PROVE  Written(j, y)
BY DEF Written, Source

LEMMA Unwritten ==
  ASSUME TypeOK, NEW j \in Jobs
  PROVE  Written(j, disk[j]) /\ \A s \in Services : Tended(j, mem[s][j], mem[s][j])
<1>1. disk[j] \in JobState
  BY DEF TypeOK
<1> QED
  BY <1>1, SameTended, LiveWritten DEF Live

LEMMA SaveWritten ==
  ASSUME TypeOK, NEW s \in Services, NEW store \in Store, Save(s, store) \/ SaveFails(s, store),
         \A j \in Jobs : Written(j, store[j])
  PROVE  \A j \in Jobs :
           /\ Written(j, disk'[j])
           /\ \A t \in Services : Written(j, mem'[t][j]) \/ Tended(j, mem[t][j], mem'[t][j])
<1>1. disk' = store \/ disk' = disk
  BY SaveType
<1>2. mem'[s] = store /\ \A t \in Services \ {s} : mem'[t] = mem[t]
  BY SaveType
<1>3. ASSUME NEW j \in Jobs
      PROVE  /\ Written(j, disk'[j])
             /\ \A t \in Services : Written(j, mem'[t][j]) \/ Tended(j, mem[t][j], mem'[t][j])
  <2>1. Written(j, disk'[j])
    BY <1>1, Unwritten
  <2>2. ASSUME NEW t \in Services
        PROVE  Written(j, mem'[t][j]) \/ Tended(j, mem[t][j], mem'[t][j])
    <3>1. CASE t = s
      BY <1>2, <3>1
    <3>2. CASE t # s
      BY <1>2, <3>2, Unwritten
    <3> QED
      BY <3>1, <3>2
  <2> QED
    BY <2>1, <2>2
<1> QED
  BY <1>3

\* The jobs after the results of some runs.
LEMMA ApplyAllWritten ==
  ASSUME TypeOK, NEW rs \in SUBSET Runs,
         \A r \in rs : run[r].phase = "ended" /\ run'[r].phase = "done",
         Overrun(rs) \subseteq cut', NEW j \in Jobs
  PROVE  /\ ApplyAll(disk, rs)[j] \in JobState
         /\ Live(j, ApplyAll(disk, rs)[j]) \/ Result(j, ApplyAll(disk, rs)[j])
<1>1. disk \in Store /\ now \in 0 .. MaxTime /\ \A r \in Runs : run[r] \in RunState
  BY DEF TypeOK, Store
<1>2. ApplyAll(disk, rs)[j] \in JobState
  <2>1. ApplyAll(disk, rs) \in Store
    BY <1>1, ApplyAllIs
  <2> QED
    BY <2>1 DEF Store
<1>3. \/ ApplyAll(disk, rs)[j] = disk[j]
      \/ \E r \in rs : run[r].job = j /\ ApplyAll(disk, rs)[j] = ApplyResult(disk, r)[j]
  BY <1>1, ApplyAllIs
<1>4. ASSUME NEW r \in rs, run[r].job = j, ApplyAll(disk, rs)[j] = ApplyResult(disk, r)[j]
      PROVE  Live(j, ApplyAll(disk, rs)[j]) \/ Result(j, ApplyAll(disk, rs)[j])
  <2>1. CASE ~disk[j].exists
    <3>1. ApplyResult(disk, r)[j] = disk[j]
      BY <1>1, <1>4, <2>1, ResultIs
    <3> QED
      BY <1>4, <3>1 DEF Live
  <2>2. CASE disk[j].exists
    <3>1. Exempt(r) => Beside(j) \subseteq cut'
      BY <1>4 DEF Overrun
    <3> QED
      BY <1>4, <2>2, <3>1 DEF Result
  <2> QED
    BY <2>1, <2>2
<1> QED
  BY <1>2, <1>3, <1>4 DEF Live

LEMMA MaintainWritten ==
  ASSUME TypeOK, NEW store \in Store, NEW expired \in BOOLEAN,
         \A j \in Jobs : Source(j, store[j])
  PROVE  /\ Maintain(store, expired) \in Store
         /\ \A j \in Jobs : Written(j, Maintain(store, expired)[j])
<1>1. now \in 0 .. MaxTime
  BY DEF TypeOK
<1>2. Maintain(store, expired) \in Store
      /\ \A j \in Jobs : Repaired(j, store[j], Maintain(store, expired)[j])
  BY <1>1, MaintainIs
<1>3. \A j \in Jobs : store[j] \in JobState
  BY DEF Store
<1> QED
  BY <1>2, <1>3, RepairedTended DEF Written

LEMMA MarkedWritten ==
  ASSUME TypeOK, NEW store \in Store, NEW js \in SUBSET Jobs, CanRun(js),
         \A j \in Jobs : Source(j, store[j])
  PROVE  /\ Marked(store, js) \in Store
         /\ \A j \in Jobs : Tended(j, store[j], Marked(store, js)[j])
         /\ \A j \in Jobs : Written(j, Marked(store, js)[j])
<1>1. Marked(store, js) \in Store
  BY MarkedIs
<1>2. ASSUME NEW j \in Jobs PROVE Tended(j, store[j], Marked(store, js)[j])
  <2> DEFINE x == store[j]
             y == Marked(store, js)[j]
  <2>1. /\ y.exists = x.exists /\ y.enabled = x.enabled /\ y.last = x.last
        /\ y.lastRun = x.lastRun /\ y.next = x.next
        /\ j \notin js => y = x
        /\ j \in js => y.marker # None /\ y.marker.since = now
    BY MarkedIs
  <2> HIDE DEF x, y
  <2>2. y.marker = x.marker \/ (y.marker # None /\ y.marker.since = now)
    BY <2>1
  <2>3. Tended(j, x, x)
    BY SameTended
  <2>4. Tended(j, x, y)
    BY <2>1, <2>2, <2>3, MarkerTended
  <2> QED
    BY <2>4 DEF x, y
<1>3. \A j \in Jobs : store[j] \in JobState
  BY DEF Store
<1> QED
  BY <1>1, <1>2, <1>3 DEF Written

\* Whatever a step writes has one of these sources.
LEMMA StoresChange ==
  ASSUME TypeOK, Phases, [Next]_vars, ~Crash
  PROVE  \A j \in Jobs :
           /\ Written(j, disk'[j])
           /\ \A t \in Services : Written(j, mem'[t][j]) \/ Tended(j, mem[t][j], mem'[t][j])
<1> USE DEF storeVars, serviceVars, runVars
<1> DEFINE Goal ==
      \A j \in Jobs :
        /\ Written(j, disk'[j])
        /\ \A t \in Services : Written(j, mem'[t][j]) \/ Tended(j, mem[t][j], mem'[t][j])
<1>0. /\ now \in 0 .. MaxTime /\ disk \in Store /\ mem \in [Services -> Store]
      /\ run \in [Runs -> RunState] /\ current \in Services
      /\ \A r \in Runs : run[r].by \in Services /\ run[r].job \in Jobs
      /\ \A s \in Services, j \in Jobs : mem[s][j] \in JobState
      /\ \A j \in Jobs : disk[j] \in JobState
  <2>1. /\ now \in 0 .. MaxTime /\ disk \in Store /\ mem \in [Services -> Store]
        /\ run \in [Runs -> RunState] /\ current \in Services
    BY TypeParts
  <2> QED
    BY <2>1 DEF RunState, Store
<1>1. ASSUME UNCHANGED <<disk, mem>> PROVE Goal
  BY <1>1, Unwritten
<1>2. ASSUME NEW s \in Services, NEW store \in Store, Save(s, store) \/ SaveFails(s, store),
             \A j \in Jobs : Written(j, store[j])
      PROVE  Goal
  BY <1>2, SaveWritten
<1> HIDE DEF Goal
<1>3. /\ \A j \in Jobs : Source(j, disk[j])
      /\ IsUp(current) => \A j \in Jobs : Source(j, mem[current][j])
  BY DEF Source, Live
<1>4. ASSUME Tick \/ Reload \/ UNCHANGED vars PROVE Goal
  <2>1. UNCHANGED <<disk, mem>>
    BY <1>4 DEF Tick, Reload, vars
  <2> QED
    BY <1>1, <2>1
<1>5. ASSUME List PROVE Goal
  <2> DEFINE store == Maintain(mem[current], FALSE)
  <2>1. IsUp(current)
        /\ (Save(current, store) \/ (Memory(current, store) /\ UNCHANGED <<disk, faults>>))
    BY <1>5 DEF List
  <2>2. mem[current] \in Store
    BY <1>0
  <2>3. store \in Store /\ \A j \in Jobs : Written(j, store[j])
    BY <1>3, <2>1, <2>2, MaintainWritten
  <2> HIDE DEF store
  <2>4. CASE Save(current, store)
    BY <1>0, <1>2, <2>3, <2>4
  <2>5. CASE Memory(current, store) /\ UNCHANGED <<disk, faults>>
    <3>1. mem'[current] = store /\ \A t \in Services \ {current} : mem'[t] = mem[t]
      BY <1>0, <2>5 DEF Memory
    <3>2. ASSUME NEW j \in Jobs, NEW t \in Services
          PROVE  Written(j, mem'[t][j]) \/ Tended(j, mem[t][j], mem'[t][j])
      <4>1. CASE t = current
        BY <2>3, <3>1, <4>1
      <4>2. CASE t # current
        BY <3>1, <4>2, Unwritten
      <4> QED
        BY <4>1, <4>2
    <3>3. \A j \in Jobs : Written(j, disk'[j])
      BY <2>5, Unwritten
    <3> QED
      BY <3>2, <3>3 DEF Goal
  <2> QED
    BY <2>1, <2>4, <2>5
<1>6. ASSUME NEW s \in Services, Start(s) PROVE Goal
  <2> DEFINE store == [j \in Jobs |-> [disk[j] EXCEPT !.marker = None]]
  <2>1. Save(s, store) /\ phase[current] = "off"
    BY <1>6 DEF Start, Phases
  <2>2. ASSUME NEW j \in Jobs PROVE store[j] \in JobState /\ Written(j, store[j])
    <3>1. store[j] = [disk[j] EXCEPT !.marker = None]
      OBVIOUS
    <3>2. store[j] \in JobState
      BY <1>0, <3>1 DEF JobState
    <3> HIDE DEF store
    <3> QED
      BY <2>1, <3>1, <3>2, SameTended DEF Written, Source, Unmarked
  <2>3. store \in Store
    <3> DEFINE f == [j \in Jobs |-> store[j]]
    <3> QED
      BY <2>2 DEF Store
  <2> HIDE DEF store
  <2> QED
    BY <1>2, <2>1, <2>2, <2>3
<1>7. ASSUME NEW s \in Services, PlanCatchup(s) PROVE Goal
  <2> DEFINE missed == Missed(mem[s]) \ skip[s]
  <2>1. CASE missed = {}
    BY <1>1, <1>7, <2>1 DEF PlanCatchup
  <2>2. CASE missed # {}
    <3>1. PICK first \in SUBSET missed :
            /\ CanRun(first)
            /\ Save(s, Marked(mem[s], first))
            /\ cut' = cut \cup (IF s = current THEN {}
                                ELSE {r \in Runs : run[r].phase # "unused"})
      BY <1>7, <2>2 DEF PlanCatchup
    <3>2. first \in SUBSET Jobs
      BY DEF Missed
    <3>3. \A j \in Jobs : Source(j, mem[s][j])
      <4>1. CASE s = current
        <5>1. IsUp(current)
          BY <1>7, <4>1 DEF PlanCatchup, IsUp
        <5> QED
          BY <1>3, <4>1, <5>1
      <4>2. CASE s # current
        <5>1. UsedRuns \subseteq cut'
          BY <3>1, <4>2 DEF UsedRuns
        <5>2. IsUp(s)
          BY <1>7 DEF PlanCatchup, IsUp
        <5> QED
          BY <4>2, <5>1, <5>2 DEF Source, Stale
      <4> QED
        BY <4>1, <4>2
    <3>4. mem[s] \in Store
      BY <1>0
    <3>5. Marked(mem[s], first) \in Store /\ \A j \in Jobs : Written(j, Marked(mem[s], first)[j])
      BY <3>1, <3>2, <3>3, <3>4, MarkedWritten
    <3> QED
      BY <1>2, <3>1, <3>5
  <2> QED
    BY <2>1, <2>2
<1>8. ASSUME NEW s \in Services, ApplyCatchup(s) PROVE Goal
  <2> DEFINE rs == Batch(s, {"catchup"})
             applied == ApplyAll(disk, rs)
             deferred == [j \in Jobs |->
               IF j \in skip[s] /\ applied[j].exists /\ applied[j].enabled
               THEN [applied[j] EXCEPT !.next = now + 1] ELSE applied[j]]
             skipped == {r \in Runs : run[r].phase = "done" /\ run[r].job \in skip[s]}
  <2>1. /\ rs \in SUBSET Runs /\ \A r \in rs : run[r].phase = "ended"
        /\ run' = Done(s, rs) /\ phase[s] = "catchup"
        /\ Save(s, Maintain(deferred, FALSE))
        /\ cut' = cut \cup Overrun(rs) \cup skipped
    BY <1>8 DEF ApplyCatchup, Batch
  <2> HIDE DEF rs
  <2>2. \A r \in rs : run'[r].phase = "done"
    BY <2>1, DoneIs
  <2>3. Overrun(rs) \subseteq cut' /\ skipped \subseteq cut'
    BY <2>1
  <2>4. \A j \in Jobs : applied[j] \in JobState /\ (Live(j, applied[j]) \/ Result(j, applied[j]))
    BY <2>1, <2>2, <2>3, ApplyAllWritten
  <2> HIDE DEF applied
  <2>5. ASSUME NEW j \in Jobs PROVE deferred[j] \in JobState /\ Source(j, deferred[j])
    <3>1. CASE j \in skip[s] /\ applied[j].exists /\ applied[j].enabled
      <4>1. deferred[j] = [applied[j] EXCEPT !.next = now + 1]
        BY <3>1
      <4>2. deferred[j] \in JobState
        <5>1. now + 1 \in Nat
          BY <1>0, JobsAndRuns
        <5> HIDE DEF deferred
        <5> QED
          BY <2>4, <4>1, <5>1 DEF JobState
      <4>3. {r \in Runs : run[r].phase = "done" /\ run[r].job = j} \subseteq cut'
        BY <2>3, <3>1
      <4> HIDE DEF deferred
      <4>4. Deferred(j, deferred[j])
        BY <2>1, <2>4, <3>1, <4>1, <4>3 DEF Deferred
      <4> QED
        BY <4>2, <4>4 DEF Source
    <3>2. CASE ~(j \in skip[s] /\ applied[j].exists /\ applied[j].enabled)
      <4>1. deferred[j] = applied[j]
        BY <3>2
      <4> HIDE DEF deferred
      <4> QED
        BY <2>4, <4>1 DEF Source
    <3> QED
      BY <3>1, <3>2
  <2>6. deferred = [j \in Jobs |-> deferred[j]]
    OBVIOUS
  <2> HIDE DEF deferred
  <2>7. deferred \in Store
    BY <2>5, <2>6 DEF Store
  <2>8. Maintain(deferred, FALSE) \in Store
        /\ \A j \in Jobs : Written(j, Maintain(deferred, FALSE)[j])
    BY <2>5, <2>7, MaintainWritten
  <2> QED
    BY <1>2, <2>1, <2>8
<1>9. ASSUME NEW s \in Services, Started(s) PROVE Goal
  <2>1. Recompute(disk) \in Store
        /\ \A j \in Jobs : Repaired(j, disk[j], Recompute(disk)[j])
    BY <1>0, RecomputeIs
  <2>2. \A j \in Jobs : Written(j, Recompute(disk)[j])
    BY <1>0, <1>3, <2>1, RepairedTended DEF Written
  <2>3. Save(s, Recompute(disk))
    BY <1>9 DEF Started
  <2> QED
    BY <1>2, <2>1, <2>2, <2>3
<1>10. ASSUME NEW s \in Services, Fire(s) PROVE Goal
  <2> DEFINE due == Runnable(disk)
             idle == Maintain(disk, TRUE)
             marked == Marked(disk, due)
  <2>1. due \in SUBSET Jobs /\ CanRun(due)
        /\ (Save(s, idle) \/ Save(s, marked) \/ SaveFails(s, marked))
    BY <1>10 DEF Fire, Runnable
  <2>2. idle \in Store /\ \A j \in Jobs : Written(j, idle[j])
    BY <1>0, <1>3, MaintainWritten
  <2> HIDE DEF idle, due
  <2>3. marked \in Store /\ \A j \in Jobs : Written(j, marked[j])
    BY <1>0, <1>3, <2>1, MarkedWritten
  <2> HIDE DEF marked
  <2> QED
    BY <1>2, <2>1, <2>2, <2>3
<1>11. ASSUME NEW s \in Services, ApplyTick(s) PROVE Goal
  <2> DEFINE rs == Batch(s, Ticks)
             applied == ApplyAll(disk, rs)
             store == Maintain(applied, FALSE)
  <2>1. /\ rs \in SUBSET Runs /\ \A r \in rs : run[r].phase = "ended"
        /\ run' = Done(s, rs)
        /\ Save(s, store) \/ SaveFails(s, store)
        /\ cut' = cut \cup Overrun(rs)
    BY <1>11 DEF ApplyTick, Batch
  <2> HIDE DEF rs
  <2>2. \A r \in rs : run'[r].phase = "done"
    BY <2>1, DoneIs
  <2>3. Overrun(rs) \subseteq cut'
    BY <2>1
  <2>4. \A j \in Jobs : applied[j] \in JobState /\ (Live(j, applied[j]) \/ Result(j, applied[j]))
    BY <2>1, <2>2, <2>3, ApplyAllWritten
  <2>5. applied \in Store
    BY <1>0, <2>1, ApplyAllIs
  <2> HIDE DEF applied
  <2>6. \A j \in Jobs : Source(j, applied[j])
    BY <2>4 DEF Source
  <2>7. store \in Store /\ \A j \in Jobs : Written(j, store[j])
    BY <2>5, <2>6, MaintainWritten
  <2> HIDE DEF store
  <2> QED
    BY <1>2, <2>1, <2>7
<1>12. ASSUME NEW r \in Runs, Begin(r) PROVE Goal
  <2> DEFINE s == run[r].by
             i == run[r].job
             w == [run |-> r, since |-> now]
  <2>1. s \in Services /\ i \in Jobs /\ w \in Markers
    <3>1. now \in Times
      BY <1>0, JobsAndRuns DEF Times
    <3> QED
      BY <1>0, <3>1 DEF Markers
  <2>2. w # None /\ w.since = now
    <3>1. w # None
      BY <2>1, JobsAndRuns
    <3> QED
      BY <3>1
  <2>3. disk' = disk /\ (mem' = [mem EXCEPT ![s][i].marker = w] \/ mem' = mem)
    BY <1>12 DEF Begin
  <2> HIDE DEF w, s, i
  <2>4. CASE mem' = mem
    BY <1>1, <2>3, <2>4
  <2>5. CASE mem' = [mem EXCEPT ![s][i].marker = w]
    <3> DEFINE old == mem[s][i]
               new == [old EXCEPT !.marker = w]
    <3>1. mem' = [mem EXCEPT ![s] = [mem[s] EXCEPT ![i] = new]]
      BY <2>5
    <3>2. old \in JobState
      BY <1>0, <2>1
    <3> HIDE DEF old
    <3>3. Tended(i, old, new)
      <4>1. /\ new.exists = old.exists /\ new.enabled = old.enabled /\ new.last = old.last
            /\ new.lastRun = old.lastRun /\ new.next = old.next /\ new.marker = w
        BY <3>2 DEF JobState
      <4> HIDE DEF new
      <4> QED
        BY <2>2, <4>1, SameTended, MarkerTended
    <3> HIDE DEF new
    <3>4. ASSUME NEW j \in Jobs, NEW t \in Services PROVE Tended(j, mem[t][j], mem'[t][j])
      <4>1. CASE t = s /\ j = i
        <5>1. mem'[t][j] = new
          BY <1>0, <2>1, <3>1, <4>1 DEF Store
        <5> QED
          BY <3>3, <4>1, <5>1 DEF old
      <4>2. CASE ~(t = s /\ j = i)
        <5>1. mem'[t][j] = mem[t][j]
          BY <1>0, <2>1, <3>1, <4>2 DEF Store
        <5> QED
          BY <5>1, SameTended
      <4> QED
        BY <4>1, <4>2
    <3> QED
      BY <2>3, <3>4, Unwritten DEF Goal
  <2> QED
    BY <2>3, <2>4, <2>5
<1>13. ASSUME NEW r \in Runs, TimesOut(r) \/ Aborted(r) PROVE Goal
  <2>1. UNCHANGED <<disk, mem>>
    BY <1>13 DEF TimesOut, Aborted
  <2> QED
    BY <1>1, <2>1
<1>14. ASSUME NEW r \in Runs, NEW result \in {"ok", "transient", "permanent"},
              Executed(r, result)
       PROVE  Goal
  <2>1. UNCHANGED <<disk, mem>>
    BY <1>14 DEF Executed
  <2> QED
    BY <1>1, <2>1
<1>15. ASSUME NEW r \in Runs, FinishRunNow(r) PROVE Goal
  <2> DEFINE s == run[r].by
             i == run[r].job
             applied == ApplyResult(mem[s], r)[i]
             merged == [disk EXCEPT ![i] = IF @.exists THEN applied ELSE @]
             store == Maintain(merged, TRUE)
  <2>1. CASE ~mem[s][i].exists
    <3>1. UNCHANGED <<disk, mem>>
      BY <1>15, <2>1 DEF FinishRunNow
    <3> QED
      BY <1>1, <3>1
  <2>2. CASE mem[s][i].exists
    <3>1. s \in Services /\ i \in Jobs /\ run[r].phase = "ended" /\ {r} \in SUBSET Runs
      BY <1>0, <1>15 DEF FinishRunNow
    <3>2. /\ \/ Save(s, store) /\ run' = Done(s, {r})
             \/ SaveFails(s, store) /\ run' = [Done(s, {r}) EXCEPT ![r].phase = "unsaved"]
          /\ cut' = cut \cup Overrun({r})
      BY <1>15, <2>2 DEF FinishRunNow
    <3>3. Exempt(r) => Beside(i) \subseteq cut'
      BY <3>2 DEF Overrun
    <3>4. run'[r].phase \in {"done", "unsaved"}
      <4> DEFINE dn == Done(s, {r})
      <4>1. dn \in [Runs -> RunState] /\ dn[r].phase = "done"
        BY <3>1, DoneIs
      <4>2. run' = dn \/ run' = [dn EXCEPT ![r].phase = "unsaved"]
        BY <3>2
      <4> HIDE DEF dn
      <4>3. run' = [dn EXCEPT ![r].phase = "unsaved"] => run'[r].phase = "unsaved"
        <5>1. dn[r] \in RunState
          BY <4>1
        <5>2. [dn[r] EXCEPT !.phase = "unsaved"].phase = "unsaved"
          BY <5>1 DEF RunState
        <5> QED
          BY <4>1, <5>2
      <4> QED
        BY <4>1, <4>2, <4>3
    <3>5. applied \in JobState
      <4>1. mem[s] \in Store
        BY <1>0, <3>1
      <4>2. ApplyResult(mem[s], r) \in Store
        BY <1>0, <4>1, ResultIs
      <4> QED
        BY <3>1, <4>2 DEF Store
    <3>6. Result(i, applied)
      BY <2>2, <3>1, <3>3, <3>4 DEF Result
    <3> HIDE DEF applied, s, i
    <3>7. merged \in Store
      BY <1>0, <3>1, <3>5 DEF Store
    <3>8. \A j \in Jobs : merged[j] = disk[j] \/ (j = i /\ merged[j] = applied)
      BY <1>0, <3>1 DEF Store
    <3> HIDE DEF merged
    <3>9. \A j \in Jobs : Source(j, merged[j])
      BY <1>3, <3>6, <3>8 DEF Source
    <3>10. store \in Store /\ \A j \in Jobs : Written(j, store[j])
      BY <3>7, <3>9, MaintainWritten
    <3> HIDE DEF store
    <3> QED
      BY <1>2, <3>1, <3>2, <3>10
  <2> QED
    BY <2>1, <2>2
<1>16. ASSUME NEW i \in Jobs, NEW kind \in {"due", "force"}, RunNow(i, kind) PROVE Goal
  <2> DEFINE s == current
             store == Maintain(mem[s], FALSE)
             marked == Marked(store, {i})
  <2>1. CanRun({i}) /\ IsUp(s) /\ {i} \in SUBSET Jobs
        /\ (Save(s, marked) \/ SaveFails(s, marked))
    BY <1>16 DEF RunNow
  <2>2. mem[s] \in Store
    BY <1>0
  <2>3. store \in Store /\ \A j \in Jobs : Repaired(j, mem[s][j], store[j])
    BY <1>0, <2>2, MaintainIs
  <2> HIDE DEF store
  <2>4. marked \in Store
    BY <2>1, <2>3, MarkedIs
  <2>5. ASSUME NEW j \in Jobs PROVE Written(j, marked[j])
    <3> DEFINE x == mem[s][j]
               y == store[j]
               z == marked[j]
    <3>1. /\ z.exists = y.exists /\ z.enabled = y.enabled /\ z.last = y.last
          /\ z.lastRun = y.lastRun /\ z.next = y.next
          /\ j \notin {i} => z = y
          /\ j \in {i} => z.marker # None /\ z.marker.since = now
      BY <2>1, <2>3, MarkedIs
    <3>2. Tended(j, x, y)
      BY <2>3, RepairedTended
    <3>3. Live(j, x) /\ x \in JobState
      BY <1>0, <2>1 DEF Live
    <3> HIDE DEF x, y, z
    <3>4. z.marker = y.marker \/ (z.marker # None /\ z.marker.since = now)
      BY <3>1
    <3>5. Tended(j, x, z)
      BY <3>1, <3>2, <3>4, MarkerTended
    <3>6. Written(j, z)
      BY <3>3, <3>5, LiveWritten
    <3> QED
      BY <3>6 DEF z
  <2> HIDE DEF marked
  <2> QED
    BY <1>0, <1>2, <2>1, <2>4, <2>5
<1>17. ASSUME NEW i \in Jobs, NEW what \in {"enable", "disable", "remove"}, Edit(i, what)
       PROVE  Goal
  <2> DEFINE s == current
             m == mem[s][i]
             on == [m EXCEPT !.enabled = TRUE]
             n == ComputeNext(i, on)
             y1 == [m EXCEPT !.enabled = TRUE, !.next = n]
             y2 == [m EXCEPT !.enabled = FALSE, !.next = None, !.marker = None]
             y3 == [m EXCEPT !.exists = FALSE, !.enabled = FALSE, !.next = None, !.marker = None]
             y == CASE what = "enable" -> y1 [] what = "disable" -> y2 [] what = "remove" -> y3
             store == [mem[s] EXCEPT ![i] = y]
  <2>1. IsUp(s) /\ m.exists
    BY <1>17, Zenon DEF Edit
  <2>2. Save(s, store)
    BY <1>17, Zenon DEF Edit
  <2>3. cut' = cut \cup (IF what = "enable" THEN {} ELSE Beside(i))
    BY <1>17, Zenon DEF Edit
  <2>4. m \in JobState
    BY <1>0
  <2>5. on \in JobState
    <3> HIDE DEF m
    <3> QED  BY <2>4 DEF JobState
  <2>6. n \in Nat \cup {None}
    <3> HIDE DEF on
    <3> QED  BY <1>0, <2>5, NextIs
  <2>7. y \in JobState /\ Edited(i, y)
    <3>1. CASE what = "enable"
      <4>1. y = y1
        BY <3>1
      <4>2. y1 \in JobState /\ y1.exists = m.exists /\ y1.last = m.last /\ y1.lastRun = m.lastRun
            /\ y1.enabled /\ y1.marker = m.marker /\ y1.next = n
        <5> HIDE DEF m, n
        <5> QED  BY <2>4, <2>6 DEF JobState
      <4> HIDE DEF y, y1, on
      <4> QED
        BY <2>1, <4>1, <4>2 DEF Edited, on
    <3>2. CASE what = "disable"
      <4>1. y = y2 /\ Beside(i) \subseteq cut'
        BY <2>3, <3>2
      <4>2. y2 \in JobState /\ y2.last = m.last /\ y2.lastRun = m.lastRun
            /\ ~y2.enabled /\ y2.next = None
        <5> HIDE DEF m
        <5> QED  BY <2>4 DEF JobState
      <4> HIDE DEF y, y2, n
      <4> QED
        BY <2>1, <4>1, <4>2 DEF Edited
    <3>3. CASE what = "remove"
      <4>1. y = y3 /\ Beside(i) \subseteq cut'
        BY <2>3, <3>3
      <4>2. y3 \in JobState /\ y3.last = m.last /\ y3.lastRun = m.lastRun
            /\ ~y3.enabled /\ y3.next = None
        <5> HIDE DEF m
        <5> QED  BY <2>4 DEF JobState
      <4> HIDE DEF y, y3, n
      <4> QED
        BY <2>1, <4>1, <4>2 DEF Edited
    <3> QED
      BY <3>1, <3>2, <3>3
  <2> HIDE DEF y
  <2>8. store \in Store /\ \A j \in Jobs : store[j] = mem[s][j] \/ (j = i /\ store[j] = y)
    <3>1. mem[s] \in Store
      BY <1>0
    <3> QED
      BY <2>7, <3>1 DEF Store
  <2> HIDE DEF store
  <2>9. ASSUME NEW j \in Jobs PROVE Written(j, store[j])
    <3>1. CASE store[j] = mem[s][j]
      BY <1>0, <2>1, <3>1, LiveWritten, SameTended DEF Live
    <3>2. CASE j = i /\ store[j] = y
      BY <2>7, <3>2, SameTended DEF Written, Source
    <3> QED
      BY <2>8, <3>1, <3>2
  <2> QED
    BY <1>0, <1>2, <2>2, <2>8, <2>9
<1>18. Next => Goal
  BY <1>4, <1>5, <1>6, <1>7, <1>8, <1>9, <1>10, <1>11, <1>12, <1>13, <1>14, <1>15,
     <1>16, <1>17 DEF Next
<1> QED
  BY <1>4, <1>18 DEF Goal

---------------------------------------------------------------------------
(* The services follow one another *)

Later == {"marked", "catchup", "caught", "on"}

\* The service in use and the phases, the clock and the history, in a step.
LEMMA ServicesChange ==
  ASSUME TypeOK, [Next]_vars
  PROVE  /\ now' = now \/ now' = now + 1
         /\ cut \subseteq cut'
         /\ Reload \/ Crash \/ current' = current
         /\ \/ Reload \/ Crash \/ phase' = phase
            \/ \E s \in Services, p \in Later :
                 phase[s] \notin {"unbuilt", "dead"} /\ phase' = [phase EXCEPT ![s] = p]
         /\ Crash \/ \A s \in Services : tick'[s] => tick[s] \/ IsUp(s)
<1> USE DEF storeVars, serviceVars, runVars
<1> DEFINE Goal ==
      /\ now' = now \/ now' = now + 1
      /\ cut \subseteq cut'
      /\ Reload \/ Crash \/ current' = current
      /\ \/ Reload \/ Crash \/ phase' = phase
         \/ \E s \in Services, p \in Later :
              phase[s] \notin {"unbuilt", "dead"} /\ phase' = [phase EXCEPT ![s] = p]
      /\ Crash \/ \A s \in Services : tick'[s] => tick[s] \/ IsUp(s)
<1>0. tick \in [Services -> BOOLEAN]
  BY DEF TypeOK
<1>1. ASSUME UNCHANGED <<phase, current, tick>>, now' = now \/ now' = now + 1, cut \subseteq cut'
      PROVE  Goal
  BY <1>1
<1>2. ASSUME NEW s \in Services, NEW p \in Later, phase[s] \notin {"unbuilt", "dead"},
             phase' = [phase EXCEPT ![s] = p], UNCHANGED <<now, current, tick>>, cut \subseteq cut'
      PROVE  Goal
  BY <1>2
<1>3. ASSUME NEW s \in Services, NEW b \in BOOLEAN, b => IsUp(s),
             tick' = [tick EXCEPT ![s] = b], UNCHANGED <<now, current, phase>>, cut \subseteq cut'
      PROVE  Goal
  <2>1. \A t \in Services : tick'[t] => tick[t] \/ IsUp(t)
    BY <1>0, <1>3
  <2> QED
    BY <1>3, <2>1
<1>4. ASSUME Reload PROVE Goal
  BY <1>4 DEF Reload
<1>5. ASSUME Crash PROVE Goal
  <2>1. now' = now /\ cut' = cut
    BY <1>5 DEF Crash
  <2> QED
    BY <1>5, <2>1
<1> HIDE DEF Goal
<1>6. ASSUME Tick \/ List \/ UNCHANGED vars PROVE Goal
  <2>1. UNCHANGED <<phase, current, tick, cut>> /\ (now' = now \/ now' = now + 1)
    BY <1>6 DEF Tick, List, vars
  <2> QED
    BY <1>1, <2>1
<1>7. ASSUME NEW s \in Services, Start(s) PROVE Goal
  BY <1>2, <1>7 DEF Start, Later
<1>8. ASSUME NEW s \in Services, PlanCatchup(s) PROVE Goal
  <2> DEFINE missed == Missed(mem[s]) \ skip[s]
  <2>1. /\ phase[s] = "marked" /\ UNCHANGED <<now, tick, current>>
        /\ (phase' = [phase EXCEPT ![s] = "caught"] \/ phase' = [phase EXCEPT ![s] = "catchup"])
    BY <1>8 DEF PlanCatchup
  <2>2. cut \subseteq cut'
    <3>1. CASE missed = {}
      BY <1>8, <3>1 DEF PlanCatchup
    <3>2. CASE missed # {}
      <4>1. \E first \in SUBSET missed :
              cut' = cut \cup (IF s = current THEN {} ELSE {r \in Runs : run[r].phase # "unused"})
        BY <1>8, <3>2 DEF PlanCatchup
      <4> QED
        BY <4>1
    <3> QED
      BY <3>1, <3>2
  <2> QED
    BY <1>2, <2>1, <2>2 DEF Later
<1>9. ASSUME NEW s \in Services, ApplyCatchup(s) PROVE Goal
  BY <1>2, <1>9 DEF ApplyCatchup, Later
<1>10. ASSUME NEW s \in Services, Started(s) PROVE Goal
  BY <1>2, <1>10 DEF Started, Later
<1>11. ASSUME NEW s \in Services, Fire(s) PROVE Goal
  <2>1. IsUp(s) /\ UNCHANGED <<now, phase, current, cut>>
        /\ (tick' = tick \/ tick' = [tick EXCEPT ![s] = TRUE])
    BY <1>11 DEF Fire
  <2> QED
    BY <1>1, <1>3, <2>1
<1>12. ASSUME NEW s \in Services, ApplyTick(s) PROVE Goal
  <2>1. UNCHANGED <<now, phase, current>> /\ tick' = [tick EXCEPT ![s] = FALSE] /\ cut \subseteq cut'
    BY <1>12 DEF ApplyTick
  <2> QED
    BY <1>3, <2>1
<1>13. ASSUME NEW r \in Runs, Begin(r) \/ TimesOut(r) \/ Aborted(r) \/ FinishRunNow(r) PROVE Goal
  <2>1. UNCHANGED <<now, phase, current, tick>> /\ cut \subseteq cut'
    BY <1>13 DEF Begin, TimesOut, Aborted, FinishRunNow
  <2> QED
    BY <1>1, <2>1
<1>14. ASSUME NEW r \in Runs, NEW result \in {"ok", "transient", "permanent"},
              Executed(r, result)
       PROVE  Goal
  BY <1>1, <1>14 DEF Executed
<1>15. ASSUME NEW j \in Jobs, NEW kind \in {"due", "force"}, RunNow(j, kind) PROVE Goal
  <2>1. UNCHANGED <<now, phase, current, tick>> /\ cut \subseteq cut'
    BY <1>15, Zenon DEF RunNow
  <2> QED
    BY <1>1, <2>1
<1>16. ASSUME NEW j \in Jobs, NEW what \in {"enable", "disable", "remove"}, Edit(j, what)
       PROVE  Goal
  <2>1. UNCHANGED <<now, phase, current, tick>> /\ cut \subseteq cut'
    BY <1>16, Zenon DEF Edit
  <2> QED
    BY <1>1, <2>1
<1>17. Next => Goal
  BY <1>4, <1>5, <1>6, <1>7, <1>8, <1>9, <1>10, <1>11, <1>12, <1>13, <1>14, <1>15, <1>16 DEF Next
<1> QED
  BY <1>6, <1>17 DEF Goal

LEMMA UpStays ==
  ASSUME TypeOK, Phases, [Next]_vars, ~Crash, NEW s \in Services, IsUp(s)
  PROVE  IsUp(s)'
<1>1. phase \in [Services -> {"unbuilt", "off", "marked", "catchup", "caught", "on", "dead"}]
      /\ current \in Services /\ Services \subseteq Nat
  BY TypeParts
<1>2. CASE Reload
  <2>1. phase' = [phase EXCEPT ![current + 1] = "off"] /\ current < MaxServices
    BY <1>2 DEF Reload
  <2>2. current + 1 \in Services /\ current + 1 > current
    BY <1>1, <2>1, CronTypes DEF Services
  <2>3. s # current + 1
    BY <2>2 DEF Phases, IsUp
  <2> QED
    BY <1>1, <2>1, <2>3 DEF IsUp
<1>3. CASE phase' = phase
  BY <1>3 DEF IsUp
<1>4. ASSUME NEW t \in Services, NEW p \in Later, phase' = [phase EXCEPT ![t] = p]
      PROVE  IsUp(s)'
  BY <1>1, <1>4 DEF IsUp, Later
<1> QED
  BY <1>2, <1>3, <1>4, ServicesChange

LEMMA InitPhases == Init => Phases /\ UsedFirst
<1> SUFFICES ASSUME Init PROVE Phases /\ UsedFirst
  OBVIOUS
<1>1. \A r \in Runs : run[r].phase = "unused" /\ run[r].by = 1
  BY DEF Init
<1>2. \A s \in Services : tick[s] = FALSE /\ phase[s] = IF s = 1 THEN "off" ELSE "unbuilt"
  BY DEF Init
<1>3. current = 1 /\ \A s \in Services : s > 1 <=> s # 1
  BY DEF Init, Services
<1>4. UsedRuns = {}
  BY <1>1 DEF UsedRuns
<1> QED
  BY <1>1, <1>2, <1>3, <1>4 DEF Phases, UsedFirst, IsUp, Active

LEMMA StepPhases ==
  ASSUME TypeOK, UsedFirst, Phases, [Next]_vars
  PROVE  Phases'
<1>0. /\ phase \in [Services -> {"unbuilt", "off", "marked", "catchup", "caught", "on", "dead"}]
      /\ current \in Services /\ Services \subseteq Nat
      /\ \A r \in Runs : run[r].by \in Services /\ run[r].by \in Nat
  <2>1. /\ phase \in [Services -> {"unbuilt", "off", "marked", "catchup", "caught", "on", "dead"}]
        /\ current \in Services /\ Services \subseteq Nat /\ run \in [Runs -> RunState]
    BY TypeParts
  <2> QED
    BY <2>1 DEF RunState
<1>3. run' \in [Runs -> RunState] /\ current' \in Services /\ current' \in Nat
  <2>1. TypeOK'
    BY StepType
  <2> QED
    BY <1>0, <2>1 DEF TypeOK
<1>1. CASE Crash
  <2>1. /\ current < MaxServices /\ current' = current + 1
        /\ \A s \in Services : tick'[s] = FALSE
        /\ \A s \in Services : phase'[s] =
             IF s <= current THEN "dead" ELSE IF s = current + 1 THEN "off" ELSE phase[s]
    BY <1>1 DEF Crash
  <2>2. ASSUME NEW s \in Services
        PROVE  (s > current' <=> phase'[s] = "unbuilt") /\ (phase'[s] = "off" => s = current')
    <3>1. s > current <=> phase[s] = "unbuilt"
      BY DEF Phases
    <3>2. s \in Nat /\ current \in Nat
      BY <1>0
    <3>3. CASE s <= current
      BY <2>1, <3>2, <3>3
    <3>4. CASE s = current + 1
      BY <2>1, <3>2, <3>4
    <3>5. CASE s > current + 1
      BY <2>1, <3>1, <3>2, <3>5
    <3> QED
      BY <3>2, <3>3, <3>4, <3>5
  <2>3. ASSUME NEW r \in Runs PROVE run'[r].by <= current' /\ ~Active(r)'
    <3>1. run'[r] = IF run[r].phase \in {"unused", "done"} THEN run[r]
                    ELSE [run[r] EXCEPT !.phase = "dead", !.since = 0, !.fresh = FALSE]
      BY <1>1 DEF Crash
    <3>2. run[r] \in RunState /\ run[r].by <= current
      BY DEF TypeOK, Phases
    <3>3. run'[r].by = run[r].by /\ run'[r].phase \in {"unused", "done", "dead"}
      BY <3>1, <3>2 DEF RunState
    <3> QED
      BY <1>0, <2>1, <3>2, <3>3 DEF Active
  <2> QED
    BY <2>1, <2>2, <2>3 DEF Phases
<1>2. CASE ~Crash
  <2>1. /\ \A s \in Services : s > current' <=> phase'[s] = "unbuilt"
        /\ \A s \in Services : phase'[s] = "off" => s = current'
    <3>1. CASE Reload
      <4>1. phase' = [phase EXCEPT ![current + 1] = "off"] /\ current < MaxServices
            /\ current' = current + 1 /\ IsUp(current)
        BY <3>1 DEF Reload
      <4>2. current + 1 \in Services
        BY <1>0, <4>1, CronTypes DEF Services
      <4>3. ASSUME NEW s \in Services
            PROVE  (s > current' <=> phase'[s] = "unbuilt") /\ (phase'[s] = "off" => s = current')
        <5>1. s \in Nat /\ current \in Nat
          BY <1>0
        <5>2. (s > current <=> phase[s] = "unbuilt") /\ (phase[s] = "off" => s = current)
          BY DEF Phases
        <5>3. CASE s = current + 1
          BY <1>0, <4>1, <4>2, <5>1, <5>3
        <5>4. CASE s # current + 1
          <6>1. phase'[s] = phase[s]
            BY <1>0, <4>1, <5>4
          <6>2. phase[s] # "off"
            BY <4>1, <5>2 DEF IsUp
          <6> QED
            BY <4>1, <5>1, <5>2, <5>4, <6>1, <6>2
        <5> QED
          BY <5>3, <5>4
      <4> QED
        BY <4>3
    <3>2. CASE current' = current /\ phase' = phase
      BY <3>2 DEF Phases
    <3>3. ASSUME current' = current, NEW s \in Services, NEW p \in Later,
                 phase[s] \notin {"unbuilt", "dead"}, phase' = [phase EXCEPT ![s] = p]
          PROVE  /\ \A t \in Services : t > current' <=> phase'[t] = "unbuilt"
                 /\ \A t \in Services : phase'[t] = "off" => t = current'
      BY <1>0, <3>3 DEF Phases, Later
    <3> QED
      BY <1>2, <3>1, <3>2, <3>3, ServicesChange
  <2>2. \A s \in Services : tick'[s] => IsUp(s)'
    BY <1>2, ServicesChange, UpStays DEF Phases
  <2>3. ASSUME NEW r \in Runs
        PROVE  run'[r].by <= current' /\ (Active(r)' => IsUp(run[r].by)')
    <3>1. current <= current'
      <4>1. current' = current \/ current' = current + 1
        BY <1>2, ServicesChange DEF Reload
      <4> QED
        BY <1>0, <4>1
    <3>2. \/ SameRun(run'[r], run[r]) \/ Advances(r) \/ Closes(r)
          \/ Opens(r)
      BY <1>2, RunsChange
    <3>3. CASE SameRun(run'[r], run[r]) \/ Advances(r) \/ Closes(r)
      <4>1. run'[r].by = run[r].by /\ (Active(r)' => Active(r))
        BY <3>3 DEF SameRun, Advances, Closes, SameRole, Active
      <4>2. run[r].by <= current /\ (Active(r) => IsUp(run[r].by))
        BY DEF Phases
      <4>3. run'[r].by <= current'
        BY <1>0, <1>3, <3>1, <4>1, <4>2
      <4>4. ASSUME Active(r)' PROVE phase'[run[r].by] \notin {"unbuilt", "off", "dead"}
        <5>1. IsUp(run[r].by)
          BY <4>1, <4>2, <4>4
        <5>2. ASSUME NEW s \in Services, IsUp(s) PROVE phase'[s] \notin {"unbuilt", "off", "dead"}
          BY <1>2, <5>2, UpStays DEF IsUp
        <5> QED
          BY <1>0, <5>1, <5>2
      <4> QED
        BY <4>1, <4>3, <4>4 DEF IsUp
    <3>4. CASE Opens(r)
      <4>1. run'[r].by \in Services
        BY <1>3 DEF RunState
      <4> DEFINE s == run'[r].by
      <4>2. IsUp(s)
        BY <3>4 DEF Opens
      <4>3. s <= current
        <5>1. phase[s] # "unbuilt"
          BY <4>2 DEF IsUp
        <5> HIDE DEF s
        <5>2. s \in Nat /\ current \in Nat
          BY <1>0, <4>1 DEF s
        <5> QED
          BY <4>1, <5>1, <5>2 DEF Phases, s
      <4>4. phase'[s] \notin {"unbuilt", "off", "dead"}
        <5>1. ASSUME NEW t \in Services, IsUp(t) PROVE phase'[t] \notin {"unbuilt", "off", "dead"}
          BY <1>2, <5>1, UpStays DEF IsUp
        <5> HIDE DEF s
        <5> QED
          BY <4>1, <4>2, <5>1 DEF s
      <4>5. s <= current'
        <5>1. s \in Nat /\ current \in Nat
          BY <1>0, <4>1
        <5> HIDE DEF s
        <5> QED
          BY <1>3, <3>1, <4>3, <5>1
      <4> QED
        BY <4>4, <4>5 DEF IsUp
    <3> QED
      BY <3>2, <3>3, <3>4
  <2> QED
    BY <2>1, <2>2, <2>3 DEF Phases
<1> QED
  BY <1>1, <1>2

---------------------------------------------------------------------------
(* The timer *)

Planned ==
  \A j \in Jobs : PlannedJob(j, disk[j]) /\ \A s \in Services : PlannedJob(j, mem[s][j])

LEMMA WrittenPlanned ==
  ASSUME TypeOK, Planned, NEW j \in Jobs, NEW y, Written(j, y)
  PROVE  PlannedJob(j, y)
<1>0. /\ now \in 0 .. MaxTime /\ now \in Nat /\ current \in Services
      /\ disk \in Store /\ mem \in [Services -> Store]
      /\ \A r \in Runs : run[r] \in RunState
      /\ \A s \in Services : mem[s] \in Store
      /\ \A s \in Services, i \in Jobs : mem[s][i] \in JobState
      /\ \A i \in Jobs : disk[i] \in JobState
  BY TypeParts DEF Store
<1>1. PICK x \in JobState : Source(j, x) /\ Tended(j, x, y)
  BY DEF Written
<1>2. ASSUME NEW z, Live(j, z) PROVE PlannedJob(j, z)
  BY <1>0, <1>2 DEF Planned, Live
<1>3. ASSUME NEW z, Result(j, z) PROVE PlannedJob(j, z)
  <2>1. PICK p \in Runs :
          /\ run[p].job = j
          /\ \/ disk[j].exists /\ z = ApplyResult(disk, p)[j]
             \/ mem[run[p].by][j].exists /\ z = ApplyResult(mem[run[p].by], p)[j]
    BY <1>3 DEF Result
  <2>2. run[p].by \in Services
    BY <1>0 DEF RunState
  <2>3. ASSUME NEW store \in Store, store[j].exists, z = ApplyResult(store, p)[j]
        PROVE  PlannedJob(j, z)
    <3>1. z.enabled => z.next # None
      BY <1>0, <2>1, <2>3, ResultIs
    <3> QED
      BY <3>1 DEF PlannedJob
  <2> QED
    BY <1>0, <2>1, <2>2, <2>3
<1>4. ASSUME Stale(j, x) PROVE PlannedJob(j, x)
  BY <1>0, <1>4 DEF Planned, Stale
<1>5. ASSUME Unmarked(j, x) PROVE PlannedJob(j, x)
  <2>1. disk[j] \in JobState /\ x = [disk[j] EXCEPT !.marker = None]
    BY <1>0, <1>5 DEF Unmarked
  <2>2. x.enabled = disk[j].enabled /\ x.next = disk[j].next /\ x.last = disk[j].last
        /\ x.lastRun = disk[j].lastRun
    BY <2>1 DEF JobState
  <2> QED
    BY <2>2 DEF Planned, PlannedJob
<1>6. ASSUME Edited(j, x) PROVE PlannedJob(j, x)
  <2> DEFINE m == mem[current][j]
             on == [m EXCEPT !.enabled = TRUE]
  <2>1. m \in JobState
    BY <1>0
  <2>2. x.last = m.last /\ x.lastRun = m.lastRun
        /\ (x.enabled => x.next = ComputeNext(j, on))
    BY <1>6 DEF Edited
  <2> HIDE DEF m
  <2>3. on \in JobState /\ on.enabled /\ on.last = m.last /\ on.lastRun = m.lastRun
    BY <2>1 DEF JobState
  <2> HIDE DEF on
  <2>5. /\ ~OneShot(j) /\ on.enabled => ComputeNext(j, on) \in Nat
        /\ OneShot(j) /\ on.enabled =>
             ComputeNext(j, on) = IF on.last = "ok" /\ AtTime <= on.lastRun THEN None ELSE AtTime
    BY <1>0, <2>3, NextIs
  <2> DEFINE n == ComputeNext(j, on)
             over == on.last = "ok" /\ AtTime <= on.lastRun
  <2>6. None \notin Nat /\ AtTime \in Nat
    BY JobsAndRuns
  <2>7. CASE OneShot(j) /\ over
    BY <2>2, <2>3, <2>7 DEF PlannedJob
  <2>8. CASE ~OneShot(j) \/ ~over
    <3>1. n \in Nat
      BY <2>3, <2>5, <2>6, <2>8
    <3> HIDE DEF n
    <3>2. x.enabled => x.next = n
      BY <2>2 DEF n
    <3> QED
      BY <2>6, <3>1, <3>2 DEF PlannedJob
  <2> QED
    BY <2>7, <2>8
<1>7. ASSUME Deferred(j, x) PROVE PlannedJob(j, x)
  <2>1. PICK z \in JobState : x = [z EXCEPT !.next = now + 1]
    BY <1>7 DEF Deferred
  <2>2. x.next = now + 1
    BY <2>1 DEF JobState
  <2> QED
    BY <1>0, <2>2, JobsAndRuns DEF PlannedJob
<1>8. PlannedJob(j, x)
  BY <1>1, <1>2, <1>3, <1>4, <1>5, <1>6, <1>7 DEF Source
<1> QED
  BY <1>0, <1>1, <1>8, TendedPlanned

LEMMA InitPlanned == Init => Planned
<1> SUFFICES ASSUME Init PROVE Planned
  OBVIOUS
<1>1. None \notin Nat /\ AtTime \in Nat
  BY JobsAndRuns
<1>2. ASSUME NEW j \in Jobs PROVE disk[j].next # None
  BY <1>1 DEF Init
<1>3. \A s \in Services : mem[s] = disk
  BY DEF Init
<1> QED
  BY <1>2, <1>3 DEF Planned, PlannedJob

LEMMA StepPlanned ==
  ASSUME TypeOK, Phases, Planned, [Next]_vars
  PROVE  Planned'
<1>0. now \in 0 .. MaxTime /\ \A s \in Services, i \in Jobs : mem[s][i] \in JobState
  BY TypeParts DEF Store
<1>1. CASE Crash
  <2>1. disk' = disk /\ \A s \in Services : mem'[s] = disk
    BY <1>1 DEF Crash
  <2> QED
    BY <2>1 DEF Planned
<1>2. CASE ~Crash
  <2>1. ASSUME NEW j \in Jobs PROVE PlannedJob(j, disk'[j])
    BY <1>2, StoresChange, WrittenPlanned
  <2>2. ASSUME NEW j \in Jobs, NEW s \in Services PROVE PlannedJob(j, mem'[s][j])
    <3>1. CASE Written(j, mem'[s][j])
      BY <3>1, WrittenPlanned
    <3>2. CASE Tended(j, mem[s][j], mem'[s][j])
      <4>1. PlannedJob(j, mem[s][j])
        BY DEF Planned
      <4> QED
        BY <1>0, <3>2, <4>1, TendedPlanned
    <3> QED
      BY <1>2, <3>1, <3>2, StoresChange
  <2> QED
    BY <2>1, <2>2 DEF Planned, PlannedJob
<1> QED
  BY <1>1, <1>2

\* The marks and repairs of jobs give a service nothing new to wait for.
LEMMA WantedLess ==
  ASSUME TypeOK, Planned, NEW s \in Services, NEW store,
         \A j \in Jobs : Tended(j, mem[s][j], store[j]), Wanted(store)
  PROVE  Wanted(mem[s])
<1>1. PICK j \in Jobs : store[j].exists /\ store[j].enabled /\ store[j].next # None
  BY DEF Wanted
<1>2. now \in 0 .. MaxTime /\ mem[s][j] \in JobState
  BY TypeParts DEF Store
<1>3. PlannedJob(j, mem[s][j]) /\ Tended(j, mem[s][j], store[j])
  BY DEF Planned
<1>4. mem[s][j].next # None
  BY <1>1, <1>2, <1>3, TendedPlanned
<1>5. mem[s][j].exists /\ mem[s][j].enabled
  BY <1>1, <1>3 DEF Tended
<1> QED
  BY <1>4, <1>5 DEF Wanted

LEMMA StepTimer ==
  ASSUME TypeOK, UsedFirst, Phases, Planned, TimerStays, [Next]_vars
  PROVE  TimerStays'
<1> USE DEF storeVars, serviceVars, runVars
<1> DEFINE c == current
           Unsaved == \E r \in Runs : run[r].phase = "unsaved"
           Goal == phase'[current'] = "on" /\ ~tick'[current'] /\ Wanted(mem'[current']) =>
                     timer'[current'] \/ \E r \in Runs : run'[r].phase = "unsaved"
<1>0. /\ c \in Services /\ mem \in [Services -> Store]
      /\ phase \in [Services -> {"unbuilt", "off", "marked", "catchup", "caught", "on", "dead"}]
      /\ timer \in [Services -> BOOLEAN] /\ tick \in [Services -> BOOLEAN]
      /\ now \in 0 .. MaxTime /\ disk \in Store
      /\ \A r \in Runs : run[r].by \in Services /\ run[r].job \in Jobs
      /\ \A r \in Runs : run[r] \in RunState
  <2>1. run \in [Runs -> RunState]
    BY TypeParts
  <2> QED
    BY <2>1, TypeParts DEF RunState
\* A new service is not on yet.
<1>1. ASSUME Reload \/ Crash PROVE Goal
  <2>1. phase'[current'] = "off"
    <3>1. CASE Reload
      <4>1. phase' = [phase EXCEPT ![current + 1] = "off"] /\ current' = current + 1
            /\ current < MaxServices
        BY <3>1 DEF Reload
      <4>2. current + 1 \in Services
        BY <1>0, <4>1, CronTypes DEF Services
      <4> QED
        BY <1>0, <4>1, <4>2
    <3>2. CASE Crash
      <4>1. current' = current + 1 /\ current < MaxServices
            /\ phase' = [s \in Services |->
                 IF s <= current THEN "dead" ELSE IF s = current + 1 THEN "off" ELSE phase[s]]
        BY <3>2, Zenon DEF Crash
      <4>2. current + 1 \in Services /\ ~(current + 1 <= current)
        BY <1>0, <4>1, CronTypes DEF Services
      <4> QED
        BY <4>1, <4>2
    <3> QED
      BY <1>1, <3>1, <3>2
  <2> QED
    BY <2>1
\* A run that could not be written stays so.
<1>2. ASSUME ~Crash, Unsaved PROVE \E r \in Runs : run'[r].phase = "unsaved"
  <2>1. PICK r \in Runs : run[r].phase = "unsaved"
    BY <1>2
  <2>2. SameRun(run'[r], run[r]) \/ Opens(r) \/ Advances(r) \/ Closes(r)
    BY <1>2, RunsChange
  <2> QED
    BY <2>1, <2>2 DEF SameRun, Opens, Advances, Closes
<1> HIDE DEF Unsaved
\* Nothing new for the service in use.
<1>3. ASSUME ~Crash, current' = current, phase'[c] = phase[c], tick'[c] = tick[c],
             timer'[c] = timer[c], Wanted(mem'[c]) => Wanted(mem[c])
      PROVE  Goal
  BY <1>2, <1>3 DEF TimerStays, Unsaved
\* A service that is not the one in use.
<1>4. ASSUME ~Crash, NEW s \in Services, s # c, current' = current,
             \A t \in Services \ {s} : /\ phase'[t] = phase[t] /\ tick'[t] = tick[t]
                                       /\ timer'[t] = timer[t] /\ mem'[t] = mem[t]
      PROVE  Goal
  BY <1>0, <1>3, <1>4
\* A timer is armed.
<1>5. ASSUME NEW store \in Store, Arm(c, store), mem'[c] = store, current' = current PROVE Goal
  <2>1. timer'[c] = Wanted(store)
    BY <1>5, ArmType, <1>0
  <2> QED
    BY <1>5, <2>1
<1>6. \A s \in Services, store \in Store :
        Save(s, store) \/ SaveFails(s, store) =>
          mem'[s] = store /\ \A t \in Services \ {s} : mem'[t] = mem[t]
  BY SaveType
<1>7. ASSUME current' = current, phase'[c] # "on" \/ tick'[c] PROVE Goal
  BY <1>7
\* Marks and repairs.
<1>8. ASSUME ~Crash, NEW store, \A j \in Jobs : Tended(j, mem[c][j], store[j]), mem'[c] = store,
             current' = current, phase'[c] = phase[c], tick'[c] = tick[c], timer'[c] = timer[c]
      PROVE  Goal
  <2>1. Wanted(mem'[c]) => Wanted(mem[c])
    BY <1>0, <1>8, WantedLess
  <2> QED
    BY <1>3, <1>8, <2>1
<1> HIDE DEF Goal
<1>9. ASSUME ~Crash, Tick \/ UNCHANGED vars PROVE Goal
  <2>1. UNCHANGED <<mem, phase, tick, timer, current>>
    BY <1>9 DEF Tick, vars
  <2> QED
    BY <1>3, <1>9, <2>1
<1>10. ASSUME ~Crash, List PROVE Goal
  <2> DEFINE store == Maintain(mem[c], FALSE)
  <2>1. /\ Save(c, store) \/ Memory(c, store)
        /\ UNCHANGED <<phase, tick, timer, current>>
    BY <1>10 DEF List
  <2>2. mem[c] \in Store
    BY <1>0
  <2>3. store \in Store /\ \A j \in Jobs : Repaired(j, mem[c][j], store[j])
    BY <1>0, <2>2, MaintainIs
  <2> HIDE DEF store
  <2>4. mem'[c] = store
    BY <1>0, <2>1 DEF Save, Memory
  <2> QED
    BY <1>8, <1>10, <2>1, <2>3, <2>4, RepairedTended
<1>11. ASSUME ~Crash, NEW s \in Services, Start(s) PROVE Goal
  <2>1. s = c /\ phase'[c] = "marked" /\ current' = current
    BY <1>0, <1>11 DEF Start, Phases
  <2> QED
    BY <1>7, <2>1
<1>12. ASSUME ~Crash, NEW s \in Services, PlanCatchup(s) PROVE Goal
  <2> DEFINE missed == Missed(mem[s]) \ skip[s]
  <2>1. /\ UNCHANGED <<timer, tick, current>>
        /\ (phase' = [phase EXCEPT ![s] = "caught"] \/ phase' = [phase EXCEPT ![s] = "catchup"])
    BY <1>12 DEF PlanCatchup
  <2>2. \A t \in Services \ {s} : mem'[t] = mem[t]
    <3>1. CASE missed = {}
      BY <1>12, <3>1 DEF PlanCatchup
    <3>2. CASE missed # {}
      <4>1. \E first \in SUBSET missed : Save(s, Marked(mem[s], first))
        BY <1>12, <3>2 DEF PlanCatchup
      <4> QED
        BY <1>0, <4>1 DEF Save, Memory
    <3> QED
      BY <3>1, <3>2
  <2>3. CASE s = c
    BY <1>0, <1>7, <2>1, <2>3
  <2>4. CASE s # c
    <3>1. phase'[c] = phase[c]
      BY <1>0, <2>1, <2>4
    <3> QED
      BY <1>0, <1>3, <1>12, <2>1, <2>2, <2>4, <3>1
  <2> QED
    BY <2>3, <2>4
<1>13. ASSUME ~Crash, NEW s \in Services, ApplyCatchup(s) PROVE Goal
  <2>1. /\ UNCHANGED <<timer, tick, current>>
        /\ phase' = [phase EXCEPT ![s] = "caught"]
        /\ \E store : Save(s, store)
    BY <1>13 DEF ApplyCatchup
  <2>2. \A t \in Services \ {s} : mem'[t] = mem[t]
    BY <1>0, <2>1 DEF Save, Memory
  <2>3. CASE s = c
    BY <1>0, <1>7, <2>1, <2>3
  <2>4. CASE s # c
    <3>1. phase'[c] = phase[c]
      BY <1>0, <2>1, <2>4
    <3> QED
      BY <1>0, <1>3, <1>13, <2>1, <2>2, <2>4, <3>1
  <2> QED
    BY <2>3, <2>4
<1>14. ASSUME ~Crash, NEW s \in Services, Started(s) PROVE Goal
  <2> DEFINE store == Recompute(disk)
  <2>1. Save(s, store) /\ Arm(s, store) /\ phase' = [phase EXCEPT ![s] = "on"]
        /\ UNCHANGED <<tick, current>>
    BY <1>14 DEF Started
  <2>2. store \in Store
    BY <1>0, RecomputeIs
  <2> HIDE DEF store
  <2>3. mem'[s] = store /\ \A t \in Services \ {s} : mem'[t] = mem[t]
    BY <1>6, <2>1, <2>2
  <2>4. CASE s = c
    BY <1>5, <2>1, <2>2, <2>3, <2>4
  <2>5. CASE s # c
    <3>1. phase'[c] = phase[c] /\ timer'[c] = timer[c] /\ mem'[c] = mem[c]
      BY <1>0, <2>1, <2>3, <2>5 DEF Arm
    <3> QED
      BY <1>3, <1>14, <2>1, <3>1
  <2> QED
    BY <2>4, <2>5
<1>15. ASSUME ~Crash, NEW s \in Services, Fire(s) PROVE Goal
  <2> DEFINE due == Runnable(disk)
             idle == Maintain(disk, TRUE)
             marked == Marked(disk, due)
  <2>1. due \in SUBSET Jobs /\ CanRun(due) /\ UNCHANGED <<phase, current>>
        /\ \/ Save(s, idle) /\ Arm(s, idle) /\ tick' = tick
           \/ Save(s, marked) /\ tick' = [tick EXCEPT ![s] = TRUE] /\ timer' = timer
           \/ SaveFails(s, marked) /\ Arm(s, marked) /\ tick' = tick
    BY <1>15 DEF Fire, Runnable
  <2>2. idle \in Store
    BY <1>0, MaintainIs
  <2> HIDE DEF idle, due
  <2>3. marked \in Store
    BY <1>0, <2>1, MarkedIs
  <2> HIDE DEF marked
  <2>4. CASE s = c
    <3>1. CASE Save(s, idle) /\ Arm(s, idle)
      BY <1>5, <1>6, <2>1, <2>2, <2>4, <3>1
    <3>2. CASE tick' = [tick EXCEPT ![s] = TRUE]
      BY <1>0, <1>7, <2>1, <2>4, <3>2
    <3>3. CASE SaveFails(s, marked) /\ Arm(s, marked)
      BY <1>5, <1>6, <2>1, <2>3, <2>4, <3>3
    <3> QED
      BY <2>1, <3>1, <3>2, <3>3
  <2>5. CASE s # c
    <3>1. mem'[c] = mem[c]
      BY <1>0, <1>6, <2>1, <2>2, <2>3, <2>5
    <3>2. timer'[c] = timer[c] /\ tick'[c] = tick[c]
      BY <1>0, <2>1, <2>5 DEF Arm
    <3> QED
      BY <1>3, <1>15, <2>1, <3>1, <3>2
  <2> QED
    BY <2>4, <2>5
<1>16. ASSUME ~Crash, NEW s \in Services, ApplyTick(s) PROVE Goal
  <2> DEFINE rs == Batch(s, Ticks)
             store == Maintain(ApplyAll(disk, rs), FALSE)
  <2>1. /\ tick' = [tick EXCEPT ![s] = FALSE]
        /\ Save(s, store) \/ SaveFails(s, store)
        /\ Arm(s, store) /\ UNCHANGED <<phase, current>>
    BY <1>16 DEF ApplyTick
  <2>2. rs \in SUBSET Runs
    BY DEF Batch
  <2> HIDE DEF rs
  <2>3. store \in Store
    BY <1>0, <2>2, ApplyAllIs, MaintainIs
  <2> HIDE DEF store
  <2>4. mem'[s] = store /\ \A t \in Services \ {s} : mem'[t] = mem[t]
    BY <1>6, <2>1, <2>3
  <2>5. CASE s = c
    BY <1>5, <2>1, <2>3, <2>4, <2>5
  <2>6. CASE s # c
    <3>1. timer'[c] = timer[c] /\ tick'[c] = tick[c] /\ mem'[c] = mem[c]
      BY <1>0, <2>1, <2>4, <2>6 DEF Arm
    <3> QED
      BY <1>3, <1>16, <2>1, <3>1
  <2> QED
    BY <2>5, <2>6
<1>17. ASSUME ~Crash, NEW r \in Runs, Begin(r) PROVE Goal
  <2> DEFINE s == run[r].by
             i == run[r].job
             w == [run |-> r, since |-> now]
  <2>1. /\ mem' = [mem EXCEPT ![s][i].marker = w] \/ mem' = mem
        /\ UNCHANGED <<phase, tick, timer, current>>
    BY <1>17 DEF Begin
  <2>2. s \in Services /\ i \in Jobs
    BY <1>0
  <2> HIDE DEF s, i, w
  <2>3. Wanted(mem'[c]) => Wanted(mem[c])
    <3>1. ASSUME NEW j \in Jobs
          PROVE  /\ mem'[c][j].exists = mem[c][j].exists
                 /\ mem'[c][j].enabled = mem[c][j].enabled
                 /\ mem'[c][j].next = mem[c][j].next
      <4>1. mem[c][j] \in JobState
        BY <1>0 DEF Store
      <4>2. mem'[c][j] = mem[c][j] \/ mem'[c][j] = [mem[c][j] EXCEPT !.marker = w]
        <5> DEFINE store == [mem[s] EXCEPT ![i] = [mem[s][i] EXCEPT !.marker = w]]
        <5>1. mem' = [mem EXCEPT ![s] = store] \/ mem' = mem
          BY <2>1
        <5>2. store[j] = mem[s][j] \/ (j = i /\ store[j] = [mem[s][j] EXCEPT !.marker = w])
          BY <1>0, <2>2 DEF Store
        <5> HIDE DEF store
        <5>3. mem'[c] = mem[c] \/ (c = s /\ mem'[c] = store)
          BY <1>0, <2>2, <5>1
        <5> QED
          BY <5>2, <5>3
      <4> QED
        BY <4>1, <4>2 DEF JobState
    <3> QED
      BY <3>1 DEF Wanted
  <2> QED
    BY <1>3, <1>17, <2>1, <2>3
<1>18. ASSUME ~Crash, NEW r \in Runs, TimesOut(r) \/ Aborted(r) PROVE Goal
  <2>1. UNCHANGED <<mem, phase, tick, timer, current>>
    BY <1>18 DEF TimesOut, Aborted
  <2> QED
    BY <1>3, <1>18, <2>1
<1>19. ASSUME ~Crash, NEW r \in Runs, NEW result \in {"ok", "transient", "permanent"},
              Executed(r, result)
       PROVE  Goal
  <2>1. UNCHANGED <<mem, phase, tick, timer, current>>
    BY <1>19 DEF Executed
  <2> QED
    BY <1>3, <1>19, <2>1
<1>20. ASSUME ~Crash, NEW r \in Runs, FinishRunNow(r) PROVE Goal
  <2> DEFINE s == run[r].by
             i == run[r].job
             applied == ApplyResult(mem[s], r)[i]
             merged == [disk EXCEPT ![i] = IF @.exists THEN applied ELSE @]
             store == Maintain(merged, TRUE)
             dn == Done(s, {r})
  <2>1. /\ \/ Save(s, store) /\ Arm(s, store)
           \/ SaveFails(s, store) /\ run' = [dn EXCEPT ![r].phase = "unsaved"] /\ timer' = timer
           \/ UNCHANGED <<disk, mem, timer>>
        /\ UNCHANGED <<phase, tick, current>>
    BY <1>20 DEF FinishRunNow
  <2>2. s \in Services /\ i \in Jobs /\ {r} \in SUBSET Runs
    BY <1>0
  <2>3. dn \in [Runs -> RunState]
    BY <2>2, DoneIs
  <2> HIDE DEF dn
  <2>4. store \in Store
    <3>1. mem[s] \in Store
      BY <1>0
    <3>2. applied \in JobState
      <4>1. ApplyResult(mem[s], r) \in Store
        BY <1>0, <3>1, ResultIs
      <4> QED
        BY <2>2, <4>1 DEF Store
    <3> HIDE DEF applied
    <3>3. merged \in Store
      BY <1>0, <2>2, <3>2 DEF Store
    <3> HIDE DEF merged
    <3> QED
      BY <1>0, <3>3, MaintainIs
  <2> HIDE DEF store, i
  <2>5. CASE s = c
    <3>1. CASE Save(s, store) /\ Arm(s, store)
      BY <1>5, <1>6, <2>1, <2>2, <2>4, <2>5, <3>1
    <3>2. CASE run' = [dn EXCEPT ![r].phase = "unsaved"]
      <4>1. run'[r].phase = "unsaved"
        <5>1. dn[r] \in RunState
          BY <2>3
        <5>2. [dn[r] EXCEPT !.phase = "unsaved"].phase = "unsaved"
          BY <5>1 DEF RunState
        <5> QED
          BY <2>3, <3>2, <5>2
      <4> QED
        BY <4>1 DEF Goal
    <3>3. CASE UNCHANGED <<disk, mem, timer>>
      BY <1>3, <1>20, <2>1, <3>3
    <3> QED
      BY <2>1, <3>1, <3>2, <3>3
  <2>6. CASE s # c
    <3>1. mem'[c] = mem[c]
      BY <1>0, <1>6, <2>1, <2>2, <2>4, <2>6
    <3>2. timer'[c] = timer[c]
      BY <1>0, <2>1, <2>2, <2>6 DEF Arm
    <3> QED
      BY <1>3, <1>20, <2>1, <3>1, <3>2
  <2> QED
    BY <2>5, <2>6
<1>21. ASSUME ~Crash, NEW i \in Jobs, NEW kind \in {"due", "force"}, RunNow(i, kind) PROVE Goal
  <2> DEFINE store == Maintain(mem[c], FALSE)
             marked == Marked(store, {i})
  <2>1. CanRun({i}) /\ IsUp(c) /\ {i} \in SUBSET Jobs
        /\ (Save(c, marked) \/ SaveFails(c, marked))
        /\ UNCHANGED <<phase, tick, timer, current>>
    BY <1>21 DEF RunNow
  <2>2. mem[c] \in Store
    BY <1>0
  <2>3. store \in Store /\ \A j \in Jobs : Repaired(j, mem[c][j], store[j])
    BY <1>0, <2>2, MaintainIs
  <2> HIDE DEF store
  <2>4. marked \in Store
    BY <2>1, <2>3, MarkedIs
  <2>5. ASSUME NEW j \in Jobs PROVE Tended(j, mem[c][j], marked[j])
    <3> DEFINE x == mem[c][j]
               y == store[j]
               z == marked[j]
    <3>1. /\ z.exists = y.exists /\ z.enabled = y.enabled /\ z.last = y.last
          /\ z.lastRun = y.lastRun /\ z.next = y.next
          /\ j \notin {i} => z = y
          /\ j \in {i} => z.marker # None /\ z.marker.since = now
      BY <2>1, <2>3, MarkedIs
    <3>2. Tended(j, x, y)
      BY <2>3, RepairedTended
    <3> HIDE DEF x, y, z
    <3>3. z.marker = y.marker \/ (z.marker # None /\ z.marker.since = now)
      BY <3>1
    <3>4. Tended(j, x, z)
      BY <3>1, <3>2, <3>3, MarkerTended
    <3> QED
      BY <3>4 DEF x, z
  <2> HIDE DEF marked
  <2>6. mem'[c] = marked
    BY <1>0, <1>6, <2>1, <2>4
  <2> QED
    BY <1>8, <1>21, <2>1, <2>5, <2>6
<1>22. ASSUME ~Crash, NEW i \in Jobs, NEW what \in {"enable", "disable", "remove"}, Edit(i, what)
       PROVE  Goal
  <2>1. UNCHANGED <<phase, tick, current>> /\ \E store : Save(c, store) /\ Arm(c, store)
    BY <1>22, Zenon DEF Edit
  <2>2. PICK store : Save(c, store) /\ Arm(c, store)
    BY <2>1
  <2>3. mem'[c] = store
    BY <1>0, <2>2 DEF Save, Memory
  <2>4. timer'[c] = Wanted(store)
    BY <1>0, <2>2 DEF Arm
  <2> QED
    BY <2>1, <2>3, <2>4 DEF Goal
<1>23. Next /\ ~Crash => Goal
  BY <1>1, <1>9, <1>10, <1>11, <1>12, <1>13, <1>14, <1>15, <1>16, <1>17, <1>18, <1>19, <1>20,
     <1>21, <1>22 DEF Next
<1>24. Goal
  BY <1>1, <1>9, <1>23
<1> QED
  BY <1>24 DEF Goal, TimerStays, Wanted

---------------------------------------------------------------------------
(* What a run is begun for *)

LEMMA BegunOpens ==
  ASSUME TypeOK, UsedFirst, NEW s \in Services, NEW js \in SUBSET Jobs, CanRun(js),
         NEW kind \in {"tick", "early", "catchup", "due", "force"},
         NEW how \in {"queued", "executing"}, NEW reloaded \in BOOLEAN,
         run' = Begun(s, js, kind, how, reloaded), NEW r \in Runs, Opens(r)
  PROVE  /\ run'[r].job \in js /\ run'[r].by = s /\ run'[r].kind = kind
         /\ r = RunOf(run'[r].job, js)
         /\ \A q \in Runs : Opens(q) /\ run'[q].job = run'[r].job => q = r
<1>1. ASSUME NEW q \in Runs, Opens(q)
      PROVE  /\ run'[q].job \in js /\ q = RunOf(run'[q].job, js)
             /\ run'[q].by = s /\ run'[q].kind = kind
  <2>1. \/ \E j \in js :
             /\ q = RunOf(j, js) /\ run[q].phase = "unused"
             /\ run'[q].phase = how /\ run'[q].job = j /\ run'[q].by = s
             /\ run'[q].kind = kind /\ run'[q].since = now /\ run'[q].at = now
             /\ run'[q].result = "none"
        \/ (\A j \in js : q # RunOf(j, js)) /\ SameRun(run'[q], run[q])
    BY BegunUsed
  <2>2. ~SameRun(run'[q], run[q])
    BY <1>1 DEF Opens, SameRun
  <2> QED
    BY <2>1, <2>2
<1> QED
  BY <1>1

\* A job for which a catch-up, a tick or a request begins a run.
Caught(r) ==
  LET j == run'[r].job
      s == run'[r].by
  IN
  /\ run'[r].kind = "catchup" /\ phase[s] = "marked"
  /\ j \in Missed(mem[s]) /\ j \notin skip[s]
  /\ s # current => UsedRuns \subseteq cut'
  /\ Held(disk'[j], now) /\ Held(mem'[s][j], now)
Fired(r) ==
  LET j == run'[r].job
      s == run'[r].by
  IN
  /\ run'[r].kind = IF phase[s] = "on" THEN "tick" ELSE "early"
  /\ j \in Runnable(disk)
  /\ Held(disk'[j], now) /\ Held(mem'[s][j], now)
Asked(r) ==
  LET j == run'[r].job
      s == run'[r].by
      x == Maintain(mem[s], FALSE)[j]
  IN
  /\ run'[r].kind \in {"due", "force"} /\ s = current /\ IsUp(s)
  /\ x.exists /\ x.marker = None /\ (run'[r].kind = "due" => IsDue(x))
  /\ r \in cut' \/ (x.enabled /\ Held(disk'[j], now) /\ Held(mem'[s][j], now))

LEMMA MarkedHeld ==
  ASSUME TypeOK, NEW s \in Services, NEW store \in Store, NEW js \in SUBSET Jobs, CanRun(js),
         Save(s, Marked(store, js)), NEW j \in js, store[j].exists, store[j].enabled
  PROVE  Held(disk'[j], now) /\ Held(mem'[s][j], now)
<1>1. Marked(store, js) \in Store
  BY MarkedIs
<1>2. disk' = Marked(store, js) /\ mem'[s] = Marked(store, js)
  BY <1>1, SaveType
<1>3. LET x == store[j]
          y == Marked(store, js)[j]
      IN  y.exists = x.exists /\ y.enabled = x.enabled /\ y.marker # None /\ y.marker.since = now
  BY MarkedIs
<1>4. now \in Nat
  BY TypeParts
<1> QED
  BY <1>2, <1>3, <1>4 DEF Held

LEMMA BeginsIs ==
  ASSUME TypeOK, UsedFirst, [Next]_vars, NEW r \in Runs, Opens(r)
  PROVE  /\ UNCHANGED <<now, current, cutOff>>
         /\ run'[r].job \in Jobs /\ run'[r].by \in Services
         /\ \A q \in Runs : Opens(q) /\ run'[q].job = run'[r].job => q = r
         /\ Caught(r) \/ Fired(r) \/ Asked(r)
<1> USE DEF storeVars, serviceVars, runVars
<1> DEFINE Goal == /\ UNCHANGED <<now, current, cutOff>>
                   /\ run'[r].job \in Jobs /\ run'[r].by \in Services
                   /\ \A q \in Runs : Opens(q) /\ run'[q].job = run'[r].job => q = r
                   /\ Caught(r) \/ Fired(r) \/ Asked(r)
<1>0. /\ now \in 0 .. MaxTime /\ disk \in Store /\ mem \in [Services -> Store] /\ current \in Services
      /\ \A s \in Services : mem[s] \in Store
  BY TypeParts
<1>1. Beginning
  BY RunsChange DEF Opens, SameRun, Advances, Closes, Dies
<1>2. run' # run
  BY DEF Opens
<1>3. ASSUME NEW s \in Services, PlanCatchup(s) PROVE Goal
  <2> DEFINE missed == Missed(mem[s]) \ skip[s]
             kind == "catchup"
             how == "queued"
             reloaded == FALSE
  <2>1. missed # {}
    BY <1>2, <1>3 DEF PlanCatchup
  <2>2. PICK first \in SUBSET missed :
          /\ CanRun(first) /\ run' = Begun(s, first, kind, how, reloaded)
          /\ Save(s, Marked(mem[s], first))
          /\ cut' = cut \cup (IF s = current THEN {} ELSE {q \in Runs : run[q].phase # "unused"})
    BY <1>3, <2>1 DEF PlanCatchup
  <2>3. first \in SUBSET Jobs
    BY DEF Missed
  <2>4. kind \in {"tick", "early", "catchup", "due", "force"}
        /\ how \in {"queued", "executing"} /\ reloaded \in BOOLEAN
    OBVIOUS
  <2> HIDE DEF kind, how, reloaded
  <2>5. /\ run'[r].job \in first /\ run'[r].by = s /\ run'[r].kind = kind
        /\ \A q \in Runs : Opens(q) /\ run'[q].job = run'[r].job => q = r
    BY <2>2, <2>3, <2>4, BegunOpens
  <2> DEFINE j == run'[r].job
  <2>6. j \in Missed(mem[s]) /\ j \notin skip[s] /\ j \in Jobs
    BY <2>3, <2>5
  <2>7. mem[s][j].exists /\ mem[s][j].enabled
    BY <2>6 DEF Missed
  <2>8. Held(disk'[j], now) /\ Held(mem'[s][j], now)
    BY <1>0, <2>2, <2>3, <2>5, <2>7, MarkedHeld
  <2>9. s # current => UsedRuns \subseteq cut'
    BY <2>2 DEF UsedRuns
  <2>10. phase[s] = "marked" /\ UNCHANGED <<now, current, cutOff>>
    BY <1>3 DEF PlanCatchup
  <2>11. Caught(r)
    BY <2>5, <2>6, <2>8, <2>9, <2>10 DEF Caught, kind
  <2> QED
    BY <2>5, <2>6, <2>10, <2>11
<1>4. ASSUME NEW s \in Services, Fire(s) PROVE Goal
  <2> DEFINE due == Runnable(disk)
             marked == Marked(disk, due)
             kind == IF phase[s] = "on" THEN "tick" ELSE "early"
             how == "queued"
             reloaded == TRUE
  <2>1. ~(run' = Done(s, {}))
    <3>1. CASE run' = Done(s, {})
      <4>1. SameRun(run'[r], run[r])
        BY <3>1, DoneIs
      <4> QED
        BY <4>1 DEF SameRun, Opens
    <3> QED
      BY <3>1
  <2>2. /\ due \in SUBSET Jobs /\ CanRun(due) /\ UNCHANGED <<now, current, cutOff>>
        /\ Save(s, marked) /\ run' = Begun(s, due, kind, how, reloaded)
    BY <1>4, <2>1 DEF Fire, Runnable
  <2>3. kind \in {"tick", "early", "catchup", "due", "force"}
        /\ how \in {"queued", "executing"} /\ reloaded \in BOOLEAN
    OBVIOUS
  <2> HIDE DEF kind, how, reloaded, due
  <2>4. /\ run'[r].job \in due /\ run'[r].by = s /\ run'[r].kind = kind
        /\ \A q \in Runs : Opens(q) /\ run'[q].job = run'[r].job => q = r
    BY <2>2, <2>3, BegunOpens
  <2> DEFINE j == run'[r].job
  <2>5. disk[j].exists /\ disk[j].enabled /\ j \in Jobs
    BY <2>4 DEF due, Runnable
  <2>6. Held(disk'[j], now) /\ Held(mem'[s][j], now)
    BY <1>0, <2>2, <2>4, <2>5, MarkedHeld
  <2>7. Fired(r)
    BY <2>4, <2>6 DEF Fired, kind, due
  <2> QED
    BY <2>2, <2>4, <2>5, <2>7
<1>5. ASSUME NEW i \in Jobs, NEW kind \in {"due", "force"}, RunNow(i, kind) PROVE Goal
  <2> DEFINE s == current
             store == Maintain(mem[s], FALSE)
             x == store[i]
             js == {i}
             marked == Marked(store, js)
             how == "executing"
             reloaded == FALSE
  <2>1. /\ IsUp(s) /\ CanRun(js) /\ js \in SUBSET Jobs
        /\ x.exists /\ x.marker = None /\ (kind = "due" => x.enabled /\ IsDue(x))
        /\ Save(s, marked) /\ run' = Begun(s, js, kind, how, reloaded)
        /\ cut' = cut \cup (IF x.enabled THEN {} ELSE {RunOf(i, js)})
        /\ UNCHANGED <<now, current, cutOff>>
    BY <1>2, <1>5 DEF RunNow
  <2>2. kind \in {"tick", "early", "catchup", "due", "force"}
        /\ how \in {"queued", "executing"} /\ reloaded \in BOOLEAN
        /\ \A j \in js : j = i
    OBVIOUS
  <2>3. store \in Store
    BY <1>0, MaintainIs
  <2> HIDE DEF how, reloaded, js, store
  <2>4. /\ run'[r].job \in js /\ run'[r].by = s /\ run'[r].kind = kind
        /\ r = RunOf(run'[r].job, js)
        /\ \A q \in Runs : Opens(q) /\ run'[q].job = run'[r].job => q = r
    BY <1>0, <2>1, <2>2, BegunOpens
  <2>5. run'[r].job = i /\ i \in js
    BY <2>2, <2>4
  <2>6. r \in cut' \/ (x.enabled /\ Held(disk'[i], now) /\ Held(mem'[s][i], now))
    <3>1. CASE x.enabled
      BY <1>0, <2>1, <2>3, <2>5, <3>1, MarkedHeld
    <3>2. CASE ~x.enabled
      BY <2>1, <2>4, <2>5, <3>2
    <3> QED
      BY <3>1, <3>2
  <2>7. Asked(r)
    BY <1>5, <2>1, <2>4, <2>5, <2>6 DEF Asked, store
  <2> QED
    BY <1>0, <2>1, <2>4, <2>5, <2>7
<1> HIDE DEF Goal
<1>6. Goal
  BY <1>1, <1>3, <1>4, <1>5 DEF Beginning
<1> QED
  BY <1>6 DEF Goal

---------------------------------------------------------------------------
(* One run of a job at a time *)

Past == \A r \in Runs : run[r].since <= now /\ run[r].at <= now

\* A run that nothing has interfered with, of the service in use.
Sound(r) ==
  Active(r) /\ r \notin cut /\ run[r].by = current /\ now - run[r].since <= StuckAfter

\* Such a run keeps its job from others, on disk and in memory.
Alone ==
  /\ Past
  /\ \A r \in Runs : Sound(r) =>
       Held(disk[run[r].job], run[r].since) /\ Held(mem[current][run[r].job], run[r].since)
  /\ \A q, r \in Runs : q # r /\ Sound(q) /\ Sound(r) => run[q].job # run[r].job

LEMMA StepPast ==
  ASSUME TypeOK, UsedFirst, Past, [Next]_vars
  PROVE  Past'
<1>1. now \in Nat /\ now' \in Nat /\ now <= now'
  <2>1. now \in Nat /\ (now' = now \/ now' = now + 1)
    BY ServicesChange, TypeParts
  <2> QED
    BY <2>1
<1>2. ASSUME NEW r \in Runs PROVE run'[r].since <= now' /\ run'[r].at <= now'
  <2>1. run[r].since \in Nat /\ run[r].at \in Nat
    <3>1. run[r] \in RunState
      BY TypeParts
    <3> QED
      BY <3>1, JobsAndRuns DEF RunState, Times
  <2>2. run[r].since <= now /\ run[r].at <= now
    BY DEF Past
  <2>3. run'[r].since \in {run[r].since, 0, now} /\ run'[r].at \in {run[r].at, now}
    BY RunsChange DEF SameRun, Opens, Advances, Closes, Dies
  <2> QED
    BY <1>1, <2>1, <2>2, <2>3
<1> QED
  BY <1>2 DEF Past

\* Where a run that is sound after a step comes from.
LEMMA SoundBefore ==
  ASSUME TypeOK, UsedFirst, Phases, [Next]_vars, ~Crash, NEW r \in Runs, Sound(r)'
  PROVE  /\ current' = current
         /\ \/ Opens(r)
            \/ Sound(r) /\ run'[r].job = run[r].job /\ run'[r].since = run[r].since
<1>0. /\ now \in Nat /\ current \in Nat /\ run[r].since \in Nat /\ StuckAfter \in Nat
      /\ run[r].by \in Nat
  <2>1. run[r] \in RunState /\ current \in Services /\ Services \subseteq Nat /\ now \in Nat
    BY TypeParts
  <2>2. run[r].since \in Times /\ run[r].by \in Services
    BY <2>1 DEF RunState
  <2>3. current \in Nat /\ run[r].by \in Nat
    BY <2>1, <2>2
  <2>4. run[r].since \in Nat /\ StuckAfter \in Nat
    BY <2>2, JobsAndRuns DEF Times
  <2> QED
    BY <2>1, <2>3, <2>4
<1>1. /\ run'[r].phase \in {"queued", "executing", "ended"} /\ r \notin cut'
      /\ run'[r].by = current' /\ now' - run'[r].since <= StuckAfter
  BY DEF Sound, Active
<1>2. \/ SameRun(run'[r], run[r]) \/ (Beginning /\ Opens(r))
      \/ Advances(r) \/ Closes(r)
  BY RunsChange
<1>3. (now' = now \/ now' = now + 1) /\ cut \subseteq cut' /\ (Reload \/ current' = current)
  BY ServicesChange
<1>4. CASE Opens(r)
  BY <1>4, BeginsIs
<1>5. CASE SameRun(run'[r], run[r]) \/ Advances(r)
  <2>1. /\ run'[r].job = run[r].job /\ run'[r].since = run[r].since /\ run'[r].by = run[r].by
        /\ Active(r)
    BY <1>1, <1>5 DEF SameRun, Advances, SameRole, Active
  <2>2. current' = current
    <3>1. CASE Reload
      <4>1. run[r].by = current + 1
        BY <1>1, <2>1, <3>1 DEF Reload
      <4>2. run[r].by <= current
        BY DEF Phases
      <4> QED
        BY <1>0, <4>1, <4>2
    <3> QED
      BY <1>3, <3>1
  <2>3. now - run[r].since <= StuckAfter
    <3>1. now' - run[r].since <= StuckAfter
      BY <1>1, <2>1
    <3> QED
      BY <1>0, <1>3, <3>1
  <2> QED
    BY <1>1, <1>3, <2>1, <2>2, <2>3 DEF Sound
<1>6. ~Closes(r)
  BY <1>1 DEF Closes
<1> QED
  BY <1>2, <1>4, <1>5, <1>6

\* An active run is sound unless it is known not to be alone.
LEMMA SoundOrExempt ==
  ASSUME TypeOK, NEW r \in Runs, Active(r), ~Exempt(r)
  PROVE  Sound(r)
<1>1. now \in Nat /\ run[r].since \in Nat /\ StuckAfter \in Nat
  <2>1. run[r] \in RunState
    BY TypeParts
  <2> QED
    BY <2>1, TypeParts, JobsAndRuns DEF RunState, Times
<1>2. r \notin cut /\ run[r].by = current /\ ~(now - run[r].since > StuckAfter)
  BY DEF Exempt
<1> QED
  BY <1>1, <1>2 DEF Sound

\* What is written for a job leaves its marker to the run that is alone with it.
LEMMA WrittenHeld ==
  ASSUME TypeOK, Phases, Alone, NEW r \in Runs, Sound(r), r \notin cut',
         run'[r].phase \notin {"done", "unsaved"}, NEW y \in JobState, Written(run[r].job, y)
  PROVE  Held(y, run[r].since)
<1> DEFINE j == run[r].job
           t == run[r].since
<1>0. /\ now \in 0 .. MaxTime /\ current \in Services /\ j \in Jobs /\ t \in Nat
      /\ t <= now /\ now - t <= StuckAfter
      /\ disk[j] \in JobState /\ mem[current][j] \in JobState
  <2>1. run[r] \in RunState
    BY TypeParts
  <2>2. j \in Jobs /\ t \in Nat
    BY <2>1, JobsAndRuns DEF RunState, Times
  <2>3. t <= now /\ now - t <= StuckAfter
    BY DEF Alone, Past, Sound
  <2>4. disk[j] \in JobState /\ mem[current][j] \in JobState
    <3> HIDE DEF j
    <3> QED  BY <2>2, TypeParts DEF Store
  <2> QED
    BY <2>2, <2>3, <2>4, TypeParts
<1>1. Active(r) /\ r \notin cut /\ run[r].by = current /\ IsUp(current)
  BY DEF Sound, Phases
<1>2. Held(disk[j], t) /\ Held(mem[current][j], t)
  BY DEF Alone
<1>3. r \in Beside(j)
  BY <1>1 DEF Beside, Active
<1>4. \A z : Live(j, z) => Held(z, t)
  BY <1>2 DEF Live
<1>5. \A z : ~Result(j, z)
  <2>1. ASSUME NEW z, Result(j, z) PROVE FALSE
    <3>1. PICK p \in Runs :
            /\ run[p].phase = "ended" /\ run'[p].phase \in {"done", "unsaved"} /\ run[p].job = j
            /\ Exempt(p) => Beside(j) \subseteq cut'
      BY <2>1 DEF Result
    <3>2. p # r
      BY <3>1
    <3>3. ~Exempt(p)
      BY <1>3, <3>1
    <3>4. Sound(p)
      BY <3>1, <3>3, SoundOrExempt DEF Active
    <3> QED
      BY <3>1, <3>2, <3>4 DEF Alone
  <2> QED
    BY <2>1
<1>6. PICK x \in JobState : Source(j, x) /\ Tended(j, x, y)
  BY DEF Written
<1>7. Held(x, t)
  <2>1. CASE Live(j, x)
    BY <1>4, <2>1
  <2>2. CASE Stale(j, x)
    <3>1. r \in UsedRuns
      BY <1>1 DEF UsedRuns, Active
    <3> QED
      BY <2>2, <3>1 DEF Stale
  <2>3. CASE Unmarked(j, x)
    BY <1>1, <2>3 DEF Unmarked, IsUp
  <2>4. CASE Edited(j, x)
    <3>1. x.exists /\ x.enabled /\ x.marker = mem[current][j].marker
      BY <1>3, <2>4 DEF Edited
    <3> QED
      BY <1>2, <3>1 DEF Held
  <2>5. CASE Deferred(j, x)
    <3>1. PICK z \in JobState : (Live(j, z) \/ Result(j, z)) /\ x = [z EXCEPT !.next = now + 1]
      BY <2>5 DEF Deferred
    <3>2. Held(z, t)
      BY <1>4, <1>5, <3>1
    <3>3. x.exists = z.exists /\ x.enabled = z.enabled /\ x.marker = z.marker
      BY <3>1 DEF JobState
    <3> QED
      BY <3>2, <3>3 DEF Held
  <2> HIDE DEF j, t
  <2> QED
    BY <1>5, <1>6, <2>1, <2>2, <2>3, <2>4, <2>5 DEF Source
<1> HIDE DEF j, t
<1>8. Held(y, t)
  BY <1>0, <1>6, <1>7, TendedHeld
<1> QED
  BY <1>8 DEF t

LEMMA InitAlone == Init => Alone
<1> SUFFICES ASSUME Init PROVE Alone
  OBVIOUS
<1>1. \A r \in Runs : run[r].phase = "unused" /\ run[r].since = 0 /\ run[r].at = 0
  BY DEF Init
<1>2. now = 0
  BY DEF Init
<1> QED
  BY <1>1, <1>2 DEF Alone, Past, Sound, Active

\* The job of a run that begins is not with a run that is sound.
LEMMA BeginsAlone ==
  ASSUME TypeOK, UsedFirst, Phases, Alone, [Next]_vars, NEW r \in Runs, Opens(r),
         run'[r].by = current, NEW q \in Runs, Sound(q), q \notin cut'
  PROVE  run[q].job # run'[r].job
<1> DEFINE j == run'[r].job
           t == run[q].since
<1>0. /\ now \in 0 .. MaxTime /\ current \in Services /\ mem[current] \in Store
      /\ disk \in Store /\ t \in Nat
  <2>1. run[q] \in RunState
    BY TypeParts
  <2> QED
    BY <2>1, TypeParts, JobsAndRuns DEF RunState, Times
<1>1. SUFFICES ASSUME run[q].job = j PROVE FALSE
  OBVIOUS
<1>2. j \in Jobs /\ (Caught(r) \/ Fired(r) \/ Asked(r))
  BY BeginsIs
<1>3. Held(disk[j], t) /\ Held(mem[current][j], t)
  BY <1>1 DEF Alone
<1>4. CASE Caught(r)
  BY <1>3, <1>4 DEF Caught, Missed, Held
<1>5. CASE Fired(r)
  BY <1>3, <1>5 DEF Fired, Runnable, Held
<1>6. CASE Asked(r)
  <2> DEFINE x == mem[current][j]
             y == Maintain(mem[current], FALSE)[j]
  <2>1. Repaired(j, x, y)
    BY <1>0, <1>2, MaintainIs
  <2>2. x \in JobState /\ y \in JobState
    BY <1>0, <1>2, <2>1 DEF Store, Repaired
  <2>3. t <= now /\ now - t <= StuckAfter
    BY DEF Alone, Past, Sound
  <2> HIDE DEF x, y
  <2>4. Tended(j, x, y)
    BY <2>1, RepairedTended
  <2>5. Held(x, t)
    BY <1>3 DEF x
  <2> HIDE DEF j, t
  <2>6. Held(y, t)
    BY <1>0, <1>2, <2>2, <2>3, <2>4, <2>5, TendedHeld
  <2>7. y.marker = None
    BY <1>6 DEF Asked, j, y
  <2> QED
    BY <2>6, <2>7 DEF Held
<1> QED
  BY <1>2, <1>4, <1>5, <1>6

LEMMA StepAlone ==
  ASSUME TypeOK, UsedFirst, Phases, Alone, [Next]_vars
  PROVE  Alone'
<1>0. /\ run' \in [Runs -> RunState] /\ disk' \in Store /\ mem' \in [Services -> Store]
      /\ current' \in Services /\ current \in Services
      /\ \A j \in Jobs : disk'[j] \in JobState
      /\ \A s \in Services, j \in Jobs : mem'[s][j] \in JobState
  <2>1. TypeOK'
    BY StepType
  <2> QED
    BY <2>1, TypeParts DEF TypeOK, Store
<1>1. Past'
  BY StepPast DEF Alone
<1>2. CASE Crash
  <2>1. ASSUME NEW r \in Runs PROVE ~Sound(r)'
    <3>1. run'[r] = IF run[r].phase \in {"unused", "done"} THEN run[r]
                    ELSE [run[r] EXCEPT !.phase = "dead", !.since = 0, !.fresh = FALSE]
      BY <1>2 DEF Crash
    <3>2. run[r] \in RunState
      BY TypeParts
    <3>3. run'[r].phase \in {"unused", "done", "dead"}
      BY <3>1, <3>2 DEF RunState
    <3> QED
      BY <3>3 DEF Sound, Active
  <2> QED
    BY <1>1, <2>1 DEF Alone
<1>3. CASE ~Crash
  <2>1. ASSUME NEW r \in Runs, Sound(r)'
        PROVE  /\ current' = current
               /\ \/ Opens(r)
                  \/ Sound(r) /\ run'[r].job = run[r].job /\ run'[r].since = run[r].since
               /\ r \notin cut' /\ run'[r].phase \notin {"done", "unsaved"}
               /\ run'[r].by = current' /\ run[r].job \in Jobs
    <3>1. r \notin cut' /\ run'[r].phase \notin {"done", "unsaved"} /\ run'[r].by = current'
      BY <2>1 DEF Sound, Active
    <3>2. run[r].job \in Jobs
      <4>1. run[r] \in RunState
        BY TypeParts
      <4> QED
        BY <4>1 DEF RunState
    <3> QED
      BY <1>3, <2>1, <3>1, <3>2, SoundBefore
  <2>2. ASSUME NEW r \in Runs, Sound(r)'
        PROVE  Held(disk'[run'[r].job], run'[r].since)
               /\ Held(mem'[current'][run'[r].job], run'[r].since)
    <3>1. CASE Opens(r)
      <4>1. r \notin cut' /\ run'[r].by = current /\ current' = current
        BY <2>1, <2>2
      <4>2. Held(disk'[run'[r].job], now) /\ Held(mem'[current][run'[r].job], now)
        BY <3>1, <4>1, BeginsIs DEF Caught, Fired, Asked
      <4>3. run'[r].since = now
        BY <3>1 DEF Opens
      <4> QED
        BY <4>1, <4>2, <4>3
    <3>2. CASE Sound(r) /\ run'[r].job = run[r].job /\ run'[r].since = run[r].since
      <4> DEFINE j == run[r].job
                 t == run[r].since
      <4>1. j \in Jobs /\ r \notin cut' /\ run'[r].phase \notin {"done", "unsaved"}
            /\ current' = current
        BY <2>1, <2>2
      <4>2. Written(j, disk'[j])
            /\ (Written(j, mem'[current][j]) \/ Tended(j, mem[current][j], mem'[current][j]))
        BY <1>0, <1>3, <4>1, StoresChange
      <4>3. disk'[j] \in JobState /\ mem'[current][j] \in JobState
        BY <1>0, <4>1
      <4>4. Held(disk'[j], t)
        <5> DEFINE y == disk'[j]
        <5>1. y \in JobState /\ Written(run[r].job, y)
          BY <4>2, <4>3
        <5> HIDE DEF y
        <5>2. Held(y, run[r].since)
          BY <3>2, <4>1, <5>1, WrittenHeld
        <5> QED
          BY <5>2 DEF y
      <4>5. Held(mem'[current][j], t)
        <5> DEFINE y == mem'[current][j]
        <5>1. y \in JobState /\ (Written(run[r].job, y) \/ Tended(j, mem[current][j], y))
          BY <4>2, <4>3
        <5> HIDE DEF y
        <5>2. CASE Written(run[r].job, y)
          <6>1. Held(y, run[r].since)
            BY <3>2, <4>1, <5>1, <5>2, WrittenHeld
          <6> QED
            BY <6>1 DEF y
        <5>3. CASE Tended(j, mem[current][j], y)
          <6>1. Held(mem[current][j], t) /\ t <= now /\ now - t <= StuckAfter
            BY <3>2 DEF Alone, Past, Sound
          <6>2. mem[current][j] \in JobState /\ now \in 0 .. MaxTime /\ t \in Nat
            <7>1. run[r] \in RunState
              BY TypeParts
            <7>2. t \in Nat
              BY <7>1, JobsAndRuns DEF RunState, Times
            <7>3. mem[current] \in Store
              BY TypeParts
            <7> QED
              BY <4>1, <7>2, <7>3, TypeParts DEF Store
          <6> HIDE DEF j, t
          <6>3. Held(y, t)
            BY <4>1, <5>1, <5>3, <6>1, <6>2, TendedHeld
          <6> QED
            BY <6>3 DEF y
        <5> QED
          BY <5>1, <5>2, <5>3
      <4> QED
        BY <3>2, <4>1, <4>4, <4>5
    <3> QED
      BY <2>1, <2>2, <3>1, <3>2
  <2>3. ASSUME NEW q \in Runs, NEW r \in Runs, q # r, Sound(q)', Sound(r)'
        PROVE  run'[q].job # run'[r].job
    <3>1. CASE Opens(q) /\ Opens(r)
      BY <2>3, <3>1, BeginsIs
    <3>2. ASSUME NEW p \in Runs, NEW o \in Runs, Sound(p)', Sound(o)', Opens(p), ~Opens(o)
          PROVE  run'[o].job # run'[p].job
      <4>1. run'[p].by = current /\ Sound(o) /\ run'[o].job = run[o].job /\ o \notin cut'
        BY <2>1, <3>2
      <4> QED
        BY <3>2, <4>1, BeginsAlone
    <3>3. CASE ~Opens(q) /\ ~Opens(r)
      BY <2>1, <2>3, <3>3 DEF Alone
    <3> QED
      BY <2>3, <3>1, <3>2, <3>3
  <2> QED
    BY <1>1, <2>2, <2>3 DEF Alone
<1> QED
  BY <1>2, <1>3

LEMMA AloneEnough == TypeOK /\ Alone => RunsAlone
<1> SUFFICES ASSUME TypeOK, Alone, NEW q \in alive, NEW r \in alive,
                    q # r, run[q].job = run[r].job, ~Exempt(q), ~Exempt(r)
             PROVE  FALSE
  BY DEF RunsAlone
<1>1. q \in Runs /\ r \in Runs
  BY DEF TypeOK
<1>2. Active(q) /\ Active(r)
  BY DEF Exempt, Active
<1>3. Sound(q) /\ Sound(r)
  BY <1>1, <1>2, SoundOrExempt
<1> QED
  BY <1>1, <1>3 DEF Alone

---------------------------------------------------------------------------
(* Jobs that a crash has interrupted *)

\* The service that starts after a crash is alone; it finds the markers of the
\* jobs that were cut, leaves them out of its catch-up, and gives up their slots.
Replay ==
  \A c \in cutOff :
    /\ \A s \in Services : IsUp(s) => s = current
    /\ c[2] <= now
    /\ phase[current] = "off" => disk[c[1]].marker # None
    /\ phase[current] = "marked" => c[1] \in skip[current]
    /\ phase[current] = "on" =>
         After(c[1], disk[c[1]], c[2]) /\ After(c[1], mem[current][c[1]], c[2])
    /\ \A r \in Runs : run[r].by = current /\ run[r].job = c[1] =>
         /\ run[r].kind # "catchup"
         /\ run[r].kind = "tick" /\ ~OneShot(run[r].job) => run[r].at > c[2]

\* What changes the store, the interrupted jobs and the history of the crashes.
LEMMA StartChanges ==
  ASSUME TypeOK, Phases, [Next]_vars, ~Crash
  PROVE  /\ Reload \/ cutOff' = cutOff
         /\ (\A s \in Services : ~IsUp(s)) => disk' = disk \/ \E s \in Services : Start(s)
         /\ \A s \in Services :
              phase'[s] = "marked" =>
                Start(s) \/ (phase[s] = "marked" /\ skip'[s] = skip[s])
         /\ \A s \in Services :
              phase'[s] = "on" => Started(s) \/ phase[s] = "on"
         /\ \A s \in Services : phase[s] = "off" => Start(s) \/ phase'[s] = "off"
<1> USE DEF storeVars, serviceVars, runVars
<1> DEFINE Goal ==
      /\ Reload \/ cutOff' = cutOff
      /\ (\A s \in Services : ~IsUp(s)) => disk' = disk \/ \E s \in Services : Start(s)
      /\ \A s \in Services :
           phase'[s] = "marked" => Start(s) \/ (phase[s] = "marked" /\ skip'[s] = skip[s])
      /\ \A s \in Services :
           phase'[s] = "on" => Started(s) \/ phase[s] = "on"
      /\ \A s \in Services : phase[s] = "off" => Start(s) \/ phase'[s] = "off"
<1>0. /\ phase \in [Services -> {"unbuilt", "off", "marked", "catchup", "caught", "on", "dead"}]
      /\ skip \in [Services -> SUBSET Jobs] /\ current \in Services
      /\ \A r \in Runs : run[r].by \in Services
  <2>1. run \in [Runs -> RunState]
    BY TypeParts
  <2> QED
    BY <2>1, TypeParts DEF RunState
<1>1. ASSUME UNCHANGED <<phase, skip, cutOff>>, disk' = disk \/ \E s \in Services : IsUp(s)
      PROVE  Goal
  BY <1>1
<1>2. ASSUME NEW s \in Services, NEW p \in {"catchup", "caught"}, IsUp(s), UNCHANGED cutOff,
             phase' = [phase EXCEPT ![s] = p], \A t \in Services \ {s} : skip'[t] = skip[t]
      PROVE  Goal
  <2>1. (\A t \in Services : phase'[t] = IF t = s THEN p ELSE phase[t]) /\ phase[s] # "off"
    BY <1>0, <1>2 DEF IsUp
  <2> QED
    BY <1>2, <2>1
<1>3. ASSUME NEW s \in Services, Start(s) PROVE Goal
  <2>1. cutOff' = cutOff /\ phase' = [phase EXCEPT ![s] = "marked"]
        /\ \A t \in Services \ {s} : skip'[t] = skip[t]
    BY <1>0, <1>3 DEF Start
  <2>2. \A t \in Services : phase'[t] = IF t = s THEN "marked" ELSE phase[t]
    BY <1>0, <2>1
  <2> QED
    BY <1>3, <2>1, <2>2
<1>4. ASSUME NEW s \in Services, Started(s) PROVE Goal
  <2>1. cutOff' = cutOff /\ phase' = [phase EXCEPT ![s] = "on"] /\ IsUp(s)
        /\ phase[s] # "off"
        /\ \A t \in Services \ {s} : skip'[t] = skip[t]
    BY <1>0, <1>4 DEF Started, IsUp
  <2>2. \A t \in Services : phase'[t] = IF t = s THEN "on" ELSE phase[t]
    BY <1>0, <2>1
  <2> QED
    BY <1>4, <2>1, <2>2
<1>5. ASSUME Reload PROVE Goal
  <2>1. phase' = [phase EXCEPT ![current + 1] = "off"] /\ skip' = skip /\ disk' = disk
    BY <1>5 DEF Reload
  <2>2. \A t \in Services : phase'[t] = phase[t] \/ phase'[t] = "off"
    BY <1>0, <2>1
  <2> QED
    BY <1>5, <2>1, <2>2
<1> HIDE DEF Goal
<1>6. ASSUME Tick \/ UNCHANGED vars PROVE Goal
  <2>1. UNCHANGED <<phase, skip, cutOff, disk>>
    BY <1>6 DEF Tick, vars
  <2> QED
    BY <1>1, <2>1
<1>7. ASSUME List PROVE Goal
  BY <1>0, <1>1, <1>7 DEF List
<1>8. ASSUME NEW s \in Services, PlanCatchup(s) PROVE Goal
  <2> DEFINE missed == Missed(mem[s]) \ skip[s]
  <2>1. IsUp(s) /\ UNCHANGED cutOff
    BY <1>8 DEF PlanCatchup, IsUp
  <2>2. CASE missed = {}
    <3>1. phase' = [phase EXCEPT ![s] = "caught"] /\ skip' = skip
      BY <1>8, <2>2 DEF PlanCatchup
    <3> QED
      BY <1>2, <2>1, <3>1
  <2>3. CASE missed # {}
    <3>1. phase' = [phase EXCEPT ![s] = "catchup"]
          /\ \E first \in SUBSET missed : skip' = [skip EXCEPT ![s] = missed \ first]
      BY <1>8, <2>3 DEF PlanCatchup
    <3>2. \A t \in Services \ {s} : skip'[t] = skip[t]
      BY <1>0, <3>1
    <3> QED
      BY <1>2, <2>1, <3>1, <3>2
  <2> QED
    BY <2>2, <2>3
<1>9. ASSUME NEW s \in Services, ApplyCatchup(s) PROVE Goal
  <2>1. IsUp(s) /\ UNCHANGED <<cutOff, skip>> /\ phase' = [phase EXCEPT ![s] = "caught"]
    BY <1>9 DEF ApplyCatchup, IsUp
  <2> QED
    BY <1>2, <2>1
<1>10. ASSUME NEW s \in Services, Fire(s) \/ ApplyTick(s) PROVE Goal
  <2>1. IsUp(s) /\ UNCHANGED <<phase, skip, cutOff>>
    BY <1>10 DEF Fire, ApplyTick, Phases
  <2> QED
    BY <1>1, <2>1
<1>11. ASSUME NEW r \in Runs, Begin(r) \/ TimesOut(r) \/ Aborted(r) PROVE Goal
  <2>1. UNCHANGED <<phase, skip, cutOff, disk>>
    BY <1>11 DEF Begin, TimesOut, Aborted
  <2> QED
    BY <1>1, <2>1
<1>12. ASSUME NEW r \in Runs, NEW result \in {"ok", "transient", "permanent"},
              Executed(r, result)
       PROVE  Goal
  <2>1. UNCHANGED <<phase, skip, cutOff, disk>>
    BY <1>12 DEF Executed
  <2> QED
    BY <1>1, <2>1
<1>13. ASSUME NEW r \in Runs, FinishRunNow(r) PROVE Goal
  <2>1. IsUp(run[r].by) /\ UNCHANGED <<phase, skip, cutOff>>
    BY <1>13 DEF FinishRunNow
  <2> QED
    BY <1>0, <1>1, <2>1
<1>14. ASSUME NEW j \in Jobs, NEW kind \in {"due", "force"}, RunNow(j, kind) PROVE Goal
  <2>1. IsUp(current) /\ UNCHANGED <<phase, skip, cutOff>>
    BY <1>14, Zenon DEF RunNow
  <2> QED
    BY <1>0, <1>1, <2>1
<1>15. ASSUME NEW j \in Jobs, NEW what \in {"enable", "disable", "remove"}, Edit(j, what)
       PROVE  Goal
  <2>1. IsUp(current) /\ UNCHANGED <<phase, skip, cutOff>>
    BY <1>15, Zenon DEF Edit
  <2> QED
    BY <1>0, <1>1, <2>1
<1>16. Next => Goal
  BY <1>3, <1>4, <1>5, <1>6, <1>7, <1>8, <1>9, <1>10, <1>11, <1>12, <1>13, <1>14, <1>15 DEF Next
<1> QED
  BY <1>6, <1>16 DEF Goal

\* While the service that was started after the crash is the only one, what is
\* written for a job does not bring its slot back.
LEMMA WrittenAfter ==
  ASSUME TypeOK, NEW j \in Jobs, NEW t \in Nat, t <= now,
         \A s \in Services : IsUp(s) => s = current, phase[current] = "on",
         After(j, disk[j], t), After(j, mem[current][j], t), NEW y, Written(j, y)
  PROVE  After(j, y, t)
<1>0. /\ now \in 0 .. MaxTime /\ now \in Nat /\ current \in Services
      /\ disk \in Store /\ mem \in [Services -> Store] /\ mem[current][j] \in JobState
      /\ \A r \in Runs : run[r] \in RunState
  BY TypeParts DEF Store
<1>1. PICK x \in JobState : Source(j, x) /\ Tended(j, x, y)
  BY DEF Written
<1>2. x.next # None => x.next \in Nat
  BY DEF JobState
<1>3. ASSUME Live(j, x) PROVE After(j, x, t)
  BY <1>3 DEF Live
<1>4. ~Stale(j, x)
  BY DEF Stale
<1>5. ASSUME Result(j, x) PROVE After(j, x, t)
  <2>1. ASSUME NEW p \in Runs, NEW store \in Store, run[p].job = j, store[j].exists,
               x = ApplyResult(store, p)[j], ~OneShot(j)
        PROVE  x.next = None \/ x.next > now
    BY <1>0, <2>1, ResultIs
  <2>2. PICK p \in Runs :
          /\ run[p].job = j
          /\ \/ disk[j].exists /\ x = ApplyResult(disk, p)[j]
             \/ mem[run[p].by][j].exists /\ x = ApplyResult(mem[run[p].by], p)[j]
    BY <1>5 DEF Result
  <2>3. mem[run[p].by] \in Store
    BY <1>0 DEF RunState
  <2>4. ~OneShot(j) => x.next = None \/ x.next > now
    BY <1>0, <2>1, <2>2, <2>3
  <2> QED
    BY <1>0, <1>2, <2>4 DEF After
<1>6. ~Unmarked(j, x)
  BY DEF Unmarked
<1>7. ASSUME Edited(j, x) PROVE After(j, x, t)
  <2> DEFINE m == [mem[current][j] EXCEPT !.enabled = TRUE]
  <2>1. m \in JobState /\ m.enabled
    BY <1>0 DEF JobState
  <2>2. x.next = ComputeNext(j, m) \/ x.next = None
    BY <1>7 DEF Edited
  <2> HIDE DEF m
  <2>3. ~OneShot(j) => ComputeNext(j, m) \in Nat /\ ComputeNext(j, m) > now
    BY <1>0, <2>1, NextIs
  <2> QED
    BY <1>0, <2>2, <2>3 DEF After
<1>8. ~Deferred(j, x)
  BY DEF Deferred, IsUp
<1>9. After(j, x, t)
  BY <1>1, <1>3, <1>4, <1>5, <1>6, <1>7, <1>8 DEF Source
<1> QED
  BY <1>0, <1>1, <1>9, TendedAfter

LEMMA InitReplay == Init => Replay
BY DEF Init, Replay

LEMMA StepReplay ==
  ASSUME TypeOK, UsedFirst, Phases, Alone, Replay, [Next]_vars
  PROVE  Replay'
<1>0. /\ now \in 0 .. MaxTime /\ now \in Nat /\ now' \in Nat /\ now <= now'
      /\ current \in Services /\ current \in Nat /\ Services \subseteq Nat
      /\ disk \in Store /\ mem \in [Services -> Store]
      /\ phase \in [Services -> {"unbuilt", "off", "marked", "catchup", "caught", "on", "dead"}]
  <2>1. /\ now \in 0 .. MaxTime /\ now \in Nat /\ current \in Services /\ Services \subseteq Nat
        /\ disk \in Store /\ mem \in [Services -> Store]
        /\ phase \in [Services -> {"unbuilt", "off", "marked", "catchup", "caught", "on", "dead"}]
    BY TypeParts
  <2>2. now' = now \/ now' = now + 1
    BY ServicesChange
  <2>3. current \in Nat
    BY <2>1
  <2>4. now' \in Nat /\ now <= now'
    BY <2>1, <2>2
  <2> QED
    BY <2>1, <2>3, <2>4
<1>1. ASSUME NEW r \in Runs
      PROVE  run[r] \in RunState /\ run[r].by \in Nat /\ run[r].at \in Nat /\ run[r].at <= now
             /\ run[r].by <= current /\ run[r].job \in Jobs
  <2>1. run[r] \in RunState
    BY TypeParts
  <2>2. run[r].by \in Nat
    BY <1>0, <2>1 DEF RunState
  <2>3. run[r].at \in Nat
    BY <2>1, JobsAndRuns DEF RunState, Times
  <2>4. run[r].job \in Jobs
    BY <2>1 DEF RunState
  <2> QED
    BY <2>1, <2>2, <2>3, <2>4 DEF Phases, Alone, Past
<1>2. CASE Crash
  <2>1. /\ current' = current + 1 /\ now' = now /\ disk' = disk
        /\ phase' = [s \in Services |->
             IF s <= current THEN "dead" ELSE IF s = current + 1 THEN "off" ELSE phase[s]]
        /\ cutOff' = {<<run[r].job, now>> : r \in {q \in alive : ~Exempt(q)}}
    BY <1>2, Zenon DEF Crash
  <2>2. \A s \in Services : ~IsUp(s)' /\ (phase'[s] \notin {"marked", "on"})
    <3>1. ASSUME NEW s \in Services PROVE phase'[s] \in {"dead", "off", "unbuilt"}
      <4>1. s > current => phase[s] = "unbuilt"
        BY DEF Phases
      <4>2. s \in Nat
        BY <1>0
      <4>3. CASE s <= current
        BY <2>1, <4>3
      <4>4. CASE ~(s <= current)
        BY <1>0, <2>1, <4>1, <4>2, <4>4
      <4> QED
        BY <4>3, <4>4
    <3> QED
      BY <3>1 DEF IsUp
  <2>3. current' \in Services
    <3>1. TypeOK'
      BY StepType
    <3> QED
      BY <3>1 DEF TypeOK
  <2>4. ASSUME NEW r \in Runs PROVE run'[r].by # current'
    <3>1. run'[r].by = run[r].by
      BY <1>1, <1>2 DEF Crash, RunState
    <3> QED
      BY <1>0, <1>1, <2>1, <3>1
  <2>5. ASSUME NEW c \in cutOff' PROVE c[2] <= now' /\ disk'[c[1]].marker # None
    <3>1. PICK q \in alive : ~Exempt(q) /\ c = <<run[q].job, now>>
      BY <2>1, <2>5
    <3>2. q \in Runs /\ Active(q)
      BY <3>1 DEF Exempt, Active, TypeOK
    <3>3. Sound(q)
      BY <3>1, <3>2, SoundOrExempt
    <3>4. disk[run[q].job].marker # None
      BY <3>2, <3>3 DEF Alone, Held
    <3> QED
      BY <1>0, <2>1, <3>1, <3>4
  <2> QED
    BY <2>2, <2>3, <2>4, <2>5 DEF Replay
<1>3. CASE Reload
  <2>1. cutOff' = {}
    BY <1>3, Zenon DEF Reload
  <2> QED
    BY <2>1 DEF Replay
<1>4. CASE ~Crash /\ ~Reload
  <2>1. current' = current /\ cutOff' = cutOff
    BY <1>4, ServicesChange, StartChanges
  <2>2. ASSUME NEW c \in cutOff
        PROVE  c[1] \in Jobs /\ c[2] \in Nat /\ c[2] <= now /\ c[2] <= now'
    <3>1. c \in Jobs \X Times
      BY DEF TypeOK
    <3>2. c[1] \in Jobs /\ c[2] \in Nat
      BY <3>1, JobsAndRuns DEF Times
    <3>3. c[2] <= now
      BY DEF Replay
    <3> QED
      BY <1>0, <3>2, <3>3
  <2>3. ASSUME NEW c \in cutOff, NEW s \in Services, IsUp(s)' PROVE s = current
    <3>1. phase[s] \notin {"unbuilt", "dead"} \/ phase'[s] = phase[s]
      BY <1>0, <1>4, ServicesChange
    <3>2. phase[s] = "off" \/ IsUp(s)
      BY <2>3, <3>1 DEF IsUp
    <3> QED
      BY <3>2 DEF Phases, Replay
  <2>4. phase'[current] = "off" => phase[current] = "off"
    BY <1>0, <1>4, ServicesChange DEF Later
  <2>5. ASSUME NEW c \in cutOff, phase'[current] = "off" PROVE disk'[c[1]].marker # None
    <3>1. phase[current] = "off" /\ \A s \in Services : ~IsUp(s)
      BY <2>4, <2>5 DEF Replay, IsUp
    <3>2. \A s \in Services : ~Start(s)
      <4>1. ASSUME NEW s \in Services, Start(s) PROVE FALSE
        <5>1. phase[s] = "off" /\ phase' = [phase EXCEPT ![s] = "marked"]
          BY <4>1, Zenon DEF Start
        <5>2. s = current
          BY <5>1 DEF Phases
        <5> QED
          BY <1>0, <2>5, <5>1, <5>2
      <4> QED
        BY <4>1
    <3>3. disk' = disk
      BY <1>4, <3>1, <3>2, StartChanges
    <3> QED
      BY <3>1, <3>3 DEF Replay
  <2>6. ASSUME NEW c \in cutOff, phase'[current] = "marked" PROVE c[1] \in skip'[current]
    <3>1. CASE Start(current)
      <4>1. /\ phase[current] = "off"
            /\ skip' = [skip EXCEPT ![current] = {j \in Jobs : disk[j].marker # None}]
        BY <3>1, Zenon DEF Start
      <4>2. skip \in [Services -> SUBSET Jobs]
        BY TypeParts
      <4>3. skip'[current] = {j \in Jobs : disk[j].marker # None}
        BY <1>0, <4>1, <4>2
      <4>4. disk[c[1]].marker # None
        BY <4>1 DEF Replay
      <4> QED
        BY <2>2, <4>3, <4>4
    <3>2. CASE phase[current] = "marked" /\ skip'[current] = skip[current]
      BY <3>2 DEF Replay
    <3> QED
      BY <1>0, <1>4, <2>6, <3>1, <3>2, StartChanges
  <2>7. ASSUME NEW c \in cutOff, phase'[current] = "on"
        PROVE  After(c[1], disk'[c[1]], c[2]) /\ After(c[1], mem'[current][c[1]], c[2])
    <3> DEFINE j == c[1]
               t == c[2]
    <3>0. j \in Jobs /\ t \in Nat /\ t <= now
      BY <2>2
    <3>1. CASE Started(current)
      <4> DEFINE store == Recompute(disk)
      <4>1. Save(current, Recompute(disk))
        BY <3>1 DEF Started
      <4>2. store \in Store /\ (store[j].exists /\ ~OneShot(j) => store[j].next = None \/ store[j].next > now)
        BY <1>0, <3>0, RecomputeIs
      <4>3. disk' = store /\ mem'[current] = store
        BY <1>0, <4>1, <4>2, SaveType
      <4>4. store[j].next # None => store[j].next \in Nat
        BY <3>0, <4>2 DEF Store, JobState
      <4> HIDE DEF store
      <4>5. After(j, store[j], t)
        BY <1>0, <3>0, <4>2, <4>4 DEF After
      <4> QED
        BY <4>3, <4>5
    <3>2. CASE phase[current] = "on"
      <4>1. /\ \A s \in Services : IsUp(s) => s = current
            /\ After(j, disk[j], t) /\ After(j, mem[current][j], t)
        BY <3>2 DEF Replay
      <4>2. /\ Written(j, disk'[j])
            /\ Written(j, mem'[current][j]) \/ Tended(j, mem[current][j], mem'[current][j])
        BY <1>0, <1>4, <3>0, StoresChange
      <4>3. mem[current][j] \in JobState
        BY <1>0, <3>0 DEF Store
      <4> HIDE DEF j, t
      <4>4. \A y : Written(j, y) => After(j, y, t)
        BY <3>0, <3>2, <4>1, WrittenAfter
      <4>5. \A y : Tended(j, mem[current][j], y) => After(j, y, t)
        BY <1>0, <3>0, <4>1, <4>3, TendedAfter
      <4>6. After(j, disk'[j], t) /\ After(j, mem'[current][j], t)
        BY <4>2, <4>4, <4>5
      <4> QED
        BY <4>6 DEF j, t
    <3> QED
      BY <1>0, <1>4, <2>7, <3>1, <3>2, StartChanges
  <2>8. ASSUME NEW c \in cutOff, NEW r \in Runs, run'[r].by = current, run'[r].job = c[1]
        PROVE  /\ run'[r].kind # "catchup"
               /\ run'[r].kind = "tick" /\ ~OneShot(run'[r].job) => run'[r].at > c[2]
    <3>1. /\ phase[current] = "marked" => c[1] \in skip[current]
          /\ phase[current] = "on" => After(c[1], disk[c[1]], c[2])
          /\ run[r].by = current /\ run[r].job = c[1] =>
               /\ run[r].kind # "catchup"
               /\ run[r].kind = "tick" /\ ~OneShot(run[r].job) => run[r].at > c[2]
      BY DEF Replay
    <3>2. CASE Opens(r)
      <4>1. Caught(r) \/ Fired(r) \/ Asked(r)
        BY <3>2, BeginsIs
      <4>2. ~Caught(r)
        BY <2>8, <3>1 DEF Caught
      <4>3. CASE Fired(r)
        <5>1. /\ run'[r].kind = IF phase[current] = "on" THEN "tick" ELSE "early"
              /\ disk[c[1]].exists /\ disk[c[1]].next # None /\ now >= disk[c[1]].next
          BY <2>8, <4>3 DEF Fired, Runnable, IsDue
        <5>2. disk[c[1]].next \in Nat
          <6>1. disk[c[1]] \in JobState
            BY <1>0, <2>2 DEF Store
          <6> QED
            BY <5>1, <6>1 DEF JobState
        <5>3. phase[current] = "on" /\ ~OneShot(c[1]) => now > c[2]
          BY <1>0, <2>2, <3>1, <5>1, <5>2 DEF After
        <5>4. run'[r].at = now
          BY <3>2 DEF Opens
        <5> QED
          BY <2>8, <5>1, <5>3, <5>4
      <4>4. CASE Asked(r)
        BY <4>4 DEF Asked
      <4> QED
        BY <4>1, <4>2, <4>3, <4>4
    <3>3. CASE SameRun(run'[r], run[r]) \/ Closes(r)
      BY <2>8, <3>1, <3>3 DEF SameRun, Closes, SameRole
    <3>4. CASE Advances(r)
      <4>1. /\ run'[r].job = run[r].job /\ run'[r].by = run[r].by /\ run'[r].kind = run[r].kind
            /\ run'[r].at \in {run[r].at, now}
        BY <3>4 DEF Advances, SameRole
      <4>2. run[r].at \in Nat /\ run[r].at <= now /\ c[2] \in Nat
        BY <1>1, <2>2
      <4> QED
        BY <1>0, <2>8, <3>1, <4>1, <4>2
    <3> QED
      BY <1>4, <3>2, <3>3, <3>4, RunsChange
  <2> QED
    BY <2>1, <2>2, <2>3, <2>5, <2>6, <2>7, <2>8 DEF Replay
<1> QED
  BY <1>2, <1>3, <1>4

LEMMA ReplayEnough == Replay => NotReplayedAtOnce
BY DEF Replay, NotReplayedAtOnce

---------------------------------------------------------------------------
(* One-shot jobs *)

Succeeded(q) ==
  run[q].phase = "done" /\ run[q].result = "ok" /\ OneShot(run[q].job) /\ AtTime <= run[q].at

\* A run of the job was forced or interfered with.
Spoilt(j) ==
  \E f \in Runs : run[f].phase # "unused" /\ run[f].job = j /\ (run[f].kind = "force" \/ f \in cut)

\* The job is over, on disk and in the memory in use, and has no sound run.
Over(j) ==
  /\ Served(disk[j])
  /\ IsUp(current) => Served(mem[current][j])
  /\ \A r \in Runs : Sound(r) => run[r].job # j

Once == faults > 0 \/ \A q \in Runs : Succeeded(q) => Spoilt(run[q].job) \/ Over(run[q].job)

LEMMA FaultsStay ==
  ASSUME TypeOK, [Next]_vars, faults > 0
  PROVE  faults' > 0
<1> USE DEF storeVars, serviceVars, runVars
<1>0. faults \in Nat
  BY JobsAndRuns DEF TypeOK
<1>1. ASSUME faults' = faults \/ faults' = faults + 1 PROVE faults' > 0
  BY <1>0, <1>1
<1>2. CASE Tick \/ Reload \/ Crash \/ UNCHANGED vars
  <2>1. faults' = faults
    BY <1>2, Zenon DEF Tick, Reload, Crash, vars
  <2> QED
    BY <1>1, <2>1
<1>3. CASE List
  <2>1. faults' = faults
    BY <1>3, Zenon DEF List, Save
  <2> QED
    BY <1>1, <2>1
<1>4. ASSUME NEW s \in Services,
             Start(s) \/ PlanCatchup(s) \/ ApplyCatchup(s) \/ Started(s) \/ Fire(s) \/ ApplyTick(s)
      PROVE  faults' > 0
  <2>1. faults' = faults \/ faults' = faults + 1
    <3>1. CASE Start(s) \/ ApplyCatchup(s) \/ Started(s)
      BY <3>1, Zenon DEF Start, ApplyCatchup, Started, Save
    <3>2. CASE PlanCatchup(s)
      BY <3>2 DEF PlanCatchup, Save
    <3>3. CASE Fire(s) \/ ApplyTick(s)
      BY <3>3, Zenon DEF Fire, ApplyTick, Save, SaveFails
    <3> QED
      BY <1>4, <3>1, <3>2, <3>3
  <2> QED
    BY <1>1, <2>1
<1>5. ASSUME NEW r \in Runs, Begin(r) \/ TimesOut(r) \/ Aborted(r)
      PROVE  faults' > 0
  <2>1. faults' = faults
    BY <1>5, Zenon DEF Begin, TimesOut, Aborted
  <2> QED
    BY <1>1, <2>1
<1>6. ASSUME NEW r \in Runs, NEW result \in {"ok", "transient", "permanent"}, Executed(r, result)
      PROVE  faults' > 0
  <2>1. faults' = faults
    BY <1>6, Zenon DEF Executed
  <2> QED
    BY <1>1, <2>1
<1>7. ASSUME NEW r \in Runs, FinishRunNow(r) PROVE faults' > 0
  <2>1. faults' = faults \/ faults' = faults + 1
    BY <1>7 DEF FinishRunNow, Save, SaveFails
  <2> QED
    BY <1>1, <2>1
<1>8. ASSUME NEW j \in Jobs, NEW kind \in {"due", "force"}, RunNow(j, kind) PROVE faults' > 0
  <2>1. faults' = faults \/ faults' = faults + 1
    BY <1>8, Zenon DEF RunNow, Save, SaveFails
  <2> QED
    BY <1>1, <2>1
<1>9. ASSUME NEW j \in Jobs, NEW what \in {"enable", "disable", "remove"}, Edit(j, what)
      PROVE  faults' > 0
  <2>1. faults' = faults
    BY <1>9, Zenon DEF Edit, Save
  <2> QED
    BY <1>1, <2>1
<1> QED
  BY <1>2, <1>3, <1>4, <1>5, <1>6, <1>7, <1>8, <1>9 DEF Next

\* The runs that were used stay, with their job and kind.
LEMMA RunStays ==
  ASSUME TypeOK, UsedFirst, [Next]_vars, NEW q \in Runs, run[q].phase # "unused"
  PROVE  run'[q].phase # "unused" /\ SameRole(q)
BY RunsChange DEF SameRun, Opens, Advances, Closes, Dies, SameRole

LEMMA SpoiltStays ==
  ASSUME TypeOK, UsedFirst, [Next]_vars, NEW j, Spoilt(j)
  PROVE  Spoilt(j)'
<1>1. PICK f \in Runs :
        run[f].phase # "unused" /\ run[f].job = j /\ (run[f].kind = "force" \/ f \in cut)
  BY DEF Spoilt
<1>2. run'[f].phase # "unused" /\ run'[f].job = j /\ run'[f].kind = run[f].kind
  BY <1>1, RunStays DEF SameRole
<1>3. cut \subseteq cut'
  BY ServicesChange
<1> QED
  BY <1>1, <1>2, <1>3 DEF Spoilt

\* A run that is interfered with spoils its job.
LEMMA CutSpoils ==
  ASSUME TypeOK, UsedFirst, [Next]_vars, NEW q \in Runs, run[q].phase # "unused", q \in cut',
         NEW j, run[q].job = j
  PROVE  Spoilt(j)'
<1>1. run'[q].phase # "unused" /\ run'[q].job = j
  BY RunStays DEF SameRole
<1> QED
  BY <1>1 DEF Spoilt

\* A run of a job that is over is forced, or begun by a service that was replaced.
LEMMA BeginsServed ==
  ASSUME TypeOK, UsedFirst, Phases, [Next]_vars, NEW r \in Runs, Opens(r),
         NEW j \in Jobs, run'[r].job = j, NEW q \in Runs, Succeeded(q), run[q].job = j, Over(j)
  PROVE  Spoilt(j)'
<1>0. now \in 0 .. MaxTime /\ current \in Services /\ disk \in Store /\ mem[current] \in Store
  BY TypeParts
<1>1. /\ OneShot(j) /\ Served(disk[j]) /\ (IsUp(current) => Served(mem[current][j]))
      /\ Caught(r) \/ Fired(r) \/ Asked(r)
  BY BeginsIs DEF Succeeded, Over
<1>2. q \in UsedRuns /\ run[q].phase # "unused"
  BY DEF Succeeded, UsedRuns
<1>3. ASSUME Caught(r) PROVE Spoilt(j)'
  <2>1. /\ phase[run'[r].by] = "marked" /\ j \in Missed(mem[run'[r].by])
        /\ run'[r].by # current => UsedRuns \subseteq cut'
    BY <1>3 DEF Caught
  <2>2. run'[r].by # current
    <3>1. CASE run'[r].by = current
      <4>1. IsUp(current)
        BY <2>1, <3>1 DEF IsUp
      <4>2. Served(mem[current][j]) /\ j \in Missed(mem[current])
        BY <1>1, <2>1, <3>1, <4>1
      <4> QED
        BY <1>1, <4>2 DEF Served, Missed
    <3> QED
      BY <3>1
  <2> QED
    BY <1>2, <2>1, <2>2, CutSpoils
<1>4. ~Fired(r)
  BY <1>1 DEF Fired, Runnable, IsDue, Served
<1>5. ASSUME Asked(r) PROVE Spoilt(j)'
  <2> DEFINE x == mem[current][j]
             y == Maintain(mem[current], FALSE)[j]
  <2>1. /\ run'[r].kind \in {"due", "force"} /\ IsUp(current) /\ y.exists
        /\ run'[r].kind = "due" => IsDue(y)
    BY <1>5 DEF Asked
  <2>2. Repaired(j, x, y) /\ x \in JobState
    BY <1>0, <1>1, MaintainIs DEF Store
  <2> HIDE DEF x, y
  <2>3. Tended(j, x, y)
    BY <2>2, RepairedTended
  <2>4. Served(x)
    BY <1>1, <2>1 DEF x
  <2>5. Served(y)
    BY <1>0, <1>1, <2>2, <2>3, <2>4, TendedServed
  <2>6. run'[r].kind = "force"
    BY <2>1, <2>5 DEF Served, IsDue
  <2>7. run'[r].phase # "unused" /\ run'[r].job = j
    BY DEF Opens
  <2> QED
    BY <2>6, <2>7 DEF Spoilt
<1> QED
  BY <1>1, <1>3, <1>4, <1>5

\* What is written for a job that is over.
LEMMA WrittenServed ==
  ASSUME TypeOK, UsedFirst, Phases, [Next]_vars, NEW j \in Jobs, NEW q \in Runs,
         Succeeded(q), run[q].job = j, Over(j), NEW y, Written(j, y)
  PROVE  Spoilt(j)' \/ Served(y)
<1>0. now \in 0 .. MaxTime /\ current \in Services /\ mem[current] \in Store
  BY TypeParts
<1>1. /\ OneShot(j) /\ Served(disk[j]) /\ (IsUp(current) => Served(mem[current][j]))
      /\ run[q].phase = "done" /\ q \in UsedRuns
      /\ \A p \in Runs : Sound(p) => run[p].job # j
  BY DEF Succeeded, Over, UsedRuns
<1>3. q \in cut' => Spoilt(j)'
  BY <1>1, CutSpoils
<1>4. ASSUME NEW z, Live(j, z) PROVE Served(z)
  BY <1>1, <1>4 DEF Live
<1>5. ASSUME NEW z, Result(j, z) PROVE Spoilt(j)'
  <2>1. PICK p \in Runs :
          /\ run[p].phase = "ended" /\ run[p].job = j
          /\ Exempt(p) => Beside(j) \subseteq cut'
    BY <1>5 DEF Result
  <2>2. Active(p)
    BY <2>1 DEF Active
  <2>3. Exempt(p)
    BY <1>1, <2>1, <2>2, SoundOrExempt
  <2>4. p \in Beside(j)
    BY <2>1 DEF Beside
  <2> QED
    BY <2>1, <2>3, <2>4, CutSpoils
<1>6. PICK x \in JobState : Source(j, x) /\ Tended(j, x, y)
  BY DEF Written
<1>7. ASSUME Stale(j, x) PROVE Spoilt(j)'
  BY <1>1, <1>3, <1>7 DEF Stale
<1>8. ASSUME Unmarked(j, x) PROVE Served(x)
  <2>1. x = [disk[j] EXCEPT !.marker = None] /\ disk[j] \in JobState
    BY <1>8, TypeParts DEF Unmarked, Store
  <2>2. x.exists = disk[j].exists /\ x.last = disk[j].last /\ x.lastRun = disk[j].lastRun
        /\ x.next = disk[j].next
    BY <2>1 DEF JobState
  <2> QED
    BY <1>1, <2>2 DEF Served
<1>9. ASSUME Edited(j, x) PROVE Served(x)
  <2> DEFINE m == mem[current][j]
             n == [m EXCEPT !.enabled = TRUE]
  <2>1. /\ IsUp(current) /\ m.exists /\ x.last = m.last /\ x.lastRun = m.lastRun
        /\ x.next = ComputeNext(j, n) \/ x.next = None
    BY <1>9 DEF Edited
  <2>2. m \in JobState /\ Served(m)
    BY <1>0, <1>1, <2>1 DEF Store
  <2>3. n \in JobState /\ n.enabled /\ n.last = m.last /\ n.lastRun = m.lastRun
    BY <2>2 DEF JobState
  <2>4. m.last = "ok" /\ m.lastRun # None /\ AtTime <= m.lastRun
    BY <2>1, <2>2 DEF Served
  <2> HIDE DEF m, n
  <2>5. ComputeNext(j, n) = IF n.last = "ok" /\ AtTime <= n.lastRun THEN None ELSE AtTime
    BY <1>0, <1>1, <2>3, NextIs
  <2>6. x.next = None
    BY <2>1, <2>3, <2>4, <2>5
  <2> QED
    BY <2>1, <2>4, <2>6 DEF Served
<1>10. ASSUME Deferred(j, x) PROVE Spoilt(j)'
  BY <1>1, <1>3, <1>10 DEF Deferred
<1>11. Spoilt(j)' \/ Served(x)
  BY <1>4, <1>5, <1>6, <1>7, <1>8, <1>9, <1>10 DEF Source
<1>12. Served(x) => Served(y)
  BY <1>0, <1>1, <1>6, TendedServed
<1> QED
  BY <1>11, <1>12

\* The result of a run that ends a one-shot job.
LEMMA ResultServed ==
  ASSUME TypeOK, NEW store \in Store, NEW j \in Jobs, NEW q \in Runs, run[q].job = j,
         OneShot(j), run[q].result = "ok", AtTime <= run[q].at
  PROVE  /\ ApplyResult(store, q) \in Store
         /\ Served(ApplyResult(store, q)[j])
         /\ ~(ApplyResult(store, q)[j].exists /\ ApplyResult(store, q)[j].enabled)
<1> DEFINE x == store[j]
           y == ApplyResult(store, q)[j]
<1>1. now \in 0 .. MaxTime /\ run[q] \in RunState
  BY TypeParts
<1>2. run[q].at # None
  BY <1>1, JobsAndRuns DEF RunState, Times
<1>3. /\ ApplyResult(store, q) \in Store
      /\ ~x.exists => y = x
      /\ x.exists => y.lastRun = run[q].at /\ y.last = "ok" /\ ~y.enabled /\ y.next = None
  BY <1>1, ResultIs
<1> HIDE DEF x, y
<1>4. Served(y) /\ ~(y.exists /\ y.enabled)
  BY <1>2, <1>3 DEF Served
<1> QED
  BY <1>3, <1>4 DEF y

LEMMA MaintainServed ==
  ASSUME TypeOK, NEW store \in Store, NEW expired \in BOOLEAN, NEW j \in Jobs, OneShot(j),
         Served(store[j])
  PROVE  Maintain(store, expired) \in Store /\ Served(Maintain(store, expired)[j])
<1> DEFINE x == store[j]
           y == Maintain(store, expired)[j]
<1>1. now \in 0 .. MaxTime
  BY TypeParts
<1>2. Maintain(store, expired) \in Store /\ Repaired(j, x, y) /\ x \in JobState
  BY <1>1, MaintainIs DEF Store
<1> HIDE DEF x, y
<1>3. Tended(j, x, y)
  BY <1>2, RepairedTended
<1>4. Served(x)
  BY DEF x
<1>5. Served(y)
  BY <1>1, <1>2, <1>3, <1>4, TendedServed
<1> QED
  BY <1>2, <1>5 DEF y

\* A run that nothing interferes with and that succeeds ends its one-shot job.
LEMMA EndsServed ==
  ASSUME TypeOK, UsedFirst, Phases, Alone, [Next]_vars, NEW j \in Jobs, OneShot(j),
         NEW q \in Runs, run[q].job = j, Closes(q), run'[q].phase = "done",
         run[q].result = "ok", AtTime <= run[q].at, q \notin cut', ~(faults' > 0)
  PROVE  /\ Sound(q) /\ current' = current
         /\ Served(disk'[j]) /\ Served(mem'[current][j])
<1> USE DEF storeVars, serviceVars, runVars
<1> DEFINE Goal == /\ Sound(q) /\ current' = current
                   /\ Served(disk'[j]) /\ Served(mem'[current][j])
<1>0. /\ now \in 0 .. MaxTime /\ current \in Services /\ disk \in Store
      /\ mem \in [Services -> Store] /\ run[q] \in RunState /\ faults \in Nat
      /\ now + 1 \in Nat
  <2>1. /\ now \in 0 .. MaxTime /\ current \in Services /\ disk \in Store
        /\ mem \in [Services -> Store] /\ run[q] \in RunState /\ now \in Nat
    BY TypeParts
  <2>2. faults \in Nat
    BY JobsAndRuns DEF TypeOK
  <2> QED
    BY <2>1, <2>2
<1>1. run[q].phase = "ended" /\ Active(q) /\ q \in Beside(j)
  BY DEF Closes, Active, Beside
<1>2. Ending(q)
  BY <1>1, RunsChange DEF SameRun, Opens, Advances, Closes, Dies
<1>3. ASSUME NEW store \in Store, NEW s \in Services, SaveFails(s, store) PROVE FALSE
  <2>1. faults' = faults + 1
    BY <1>3 DEF SaveFails
  <2> QED
    BY <1>0, <2>1
<1>4. ASSUME NEW rs \in SUBSET Runs, q \in rs, Overrun(rs) \subseteq cut', NEW r \in rs,
             run[r].job = j, Active(r)
      PROVE  r = q /\ Sound(q)
  <2>1. Exempt(r) => q \in cut'
    BY <1>1, <1>4 DEF Overrun
  <2>2. Exempt(q) => q \in cut'
    BY <1>1, <1>4 DEF Overrun
  <2>3. Sound(r) /\ Sound(q)
    BY <1>1, <1>4, <2>1, <2>2, SoundOrExempt
  <2> QED
    BY <1>4, <2>3 DEF Alone
\* Among the results that are applied together, that of the run counts.
<1>5. ASSUME NEW rs \in SUBSET Runs, \A r \in rs : run[r].phase = "ended", NEW s \in Services,
             run' = Done(s, rs), \A r \in rs : run[r].by = s, Overrun(rs) \subseteq cut'
      PROVE  /\ q \in rs /\ Sound(q) /\ s = current
             /\ ApplyAll(disk, rs) \in Store /\ Served(ApplyAll(disk, rs)[j])
             /\ ~(ApplyAll(disk, rs)[j].exists /\ ApplyAll(disk, rs)[j].enabled)
  <2>1. q \in rs
    <3>1. q \notin rs => SameRun(run'[q], run[q])
      BY <1>5, DoneIs
    <3> QED
      BY <1>1, <3>1 DEF SameRun
  <2>2. ApplyAll(disk, rs) \in Store
        /\ \E r \in rs : run[r].job = j /\ ApplyAll(disk, rs)[j] = ApplyResult(disk, r)[j]
    BY <1>0, <2>1, ApplyAllIs
  <2>3. \A r \in rs : Active(r)
    BY <1>5 DEF Active
  <2>4. ApplyAll(disk, rs)[j] = ApplyResult(disk, q)[j] /\ Sound(q)
    BY <1>4, <1>5, <2>1, <2>2, <2>3
  <2>5. s = current
    BY <1>5, <2>1, <2>4 DEF Sound
  <2> QED
    BY <1>0, <2>1, <2>2, <2>4, <2>5, ResultServed
<1>6. ASSUME NEW s \in Services, ApplyTick(s) PROVE Goal
  <2> DEFINE rs == Batch(s, Ticks)
             all == ApplyAll(disk, rs)
             expired == FALSE
             store == Maintain(all, expired)
  <2>1. /\ \A r \in rs : run[r].phase = "ended"
        /\ Save(s, store) \/ SaveFails(s, store)
        /\ run' = Done(s, rs) /\ cut' = cut \cup Overrun(rs) /\ current' = current
    BY <1>6 DEF ApplyTick
  <2>2. rs \in SUBSET Runs /\ (\A r \in rs : run[r].by = s) /\ expired \in BOOLEAN
    BY DEF Batch
  <2> HIDE DEF rs
  <2>3. Sound(q) /\ s = current /\ all \in Store /\ Served(all[j])
    BY <1>5, <2>1, <2>2
  <2> HIDE DEF all, expired
  <2>4. store \in Store /\ Served(store[j])
    BY <2>2, <2>3, MaintainServed
  <2> HIDE DEF store
  <2>5. Save(s, store)
    BY <1>3, <2>1, <2>4
  <2>6. disk' = store /\ mem'[s] = store
    BY <2>4, <2>5, SaveType
  <2> QED
    BY <2>1, <2>3, <2>4, <2>6
<1>7. ASSUME NEW s \in Services, ApplyCatchup(s) PROVE Goal
  <2> DEFINE rs == Batch(s, {"catchup"})
             all == ApplyAll(disk, rs)
             deferred == [i \in Jobs |->
               IF i \in skip[s] /\ all[i].exists /\ all[i].enabled
               THEN [all[i] EXCEPT !.next = now + 1] ELSE all[i]]
             expired == FALSE
             store == Maintain(deferred, expired)
  <2>1. /\ \A r \in rs : run[r].phase = "ended"
        /\ Save(s, store)
        /\ run' = Done(s, rs) /\ Overrun(rs) \subseteq cut' /\ current' = current
    BY <1>7 DEF ApplyCatchup
  <2>2. rs \in SUBSET Runs /\ (\A r \in rs : run[r].by = s) /\ expired \in BOOLEAN
    BY DEF Batch
  <2> HIDE DEF rs
  <2>3. Sound(q) /\ s = current /\ all \in Store /\ Served(all[j])
        /\ ~(all[j].exists /\ all[j].enabled)
    BY <1>5, <2>1, <2>2
  <2> HIDE DEF all, expired
  <2>4. deferred \in Store
    <3>1. ASSUME NEW i \in Jobs PROVE deferred[i] \in JobState
      <4>1. all[i] \in JobState
        BY <2>3 DEF Store
      <4>2. [all[i] EXCEPT !.next = now + 1] \in JobState
        BY <1>0, <4>1 DEF JobState
      <4> QED
        BY <4>1, <4>2
    <3> QED
      BY <3>1 DEF Store
  <2>5. Served(deferred[j])
    BY <2>3
  <2> HIDE DEF deferred
  <2>6. store \in Store /\ Served(store[j])
    BY <2>2, <2>4, <2>5, MaintainServed
  <2> HIDE DEF store
  <2>7. disk' = store /\ mem'[s] = store
    BY <2>1, <2>6, SaveType
  <2> QED
    BY <2>1, <2>3, <2>6, <2>7
<1>8. ASSUME FinishRunNow(q) PROVE Goal
  <2> DEFINE s == run[q].by
             results == ApplyResult(mem[s], q)
             merged == [disk EXCEPT ![j] = IF @.exists THEN results[j] ELSE @]
             expired == TRUE
             store == Maintain(merged, expired)
  <2>1. /\ IF mem[s][j].exists
           THEN Save(s, store) \/ SaveFails(s, store)
           ELSE UNCHANGED <<disk, mem>>
        /\ cut' = cut \cup Overrun({q}) /\ current' = current
    BY <1>8 DEF FinishRunNow
  <2>2. Sound(q)
    BY <1>1, <1>4, <2>1
  <2>3. s = current /\ mem[s][j].exists /\ s \in Services /\ mem[s] \in Store
        /\ expired \in BOOLEAN
    BY <1>0, <2>2 DEF Sound, Alone, Held
  <2> HIDE DEF s, expired
  <2>4. results \in Store /\ Served(results[j])
    BY <2>3, ResultServed
  <2> HIDE DEF results
  <2>5. merged \in Store
    BY <1>0, <2>4 DEF Store
  <2>6. Served(merged[j])
    <3>1. merged[j] = IF disk[j].exists THEN results[j] ELSE disk[j]
      BY <1>0 DEF Store
    <3> HIDE DEF merged
    <3> QED
      BY <2>4, <3>1 DEF Served
  <2> HIDE DEF merged
  <2>7. store \in Store /\ Served(store[j])
    BY <2>3, <2>5, <2>6, MaintainServed
  <2> HIDE DEF store
  <2>8. Save(s, store)
    BY <1>3, <2>1, <2>3, <2>7
  <2>9. disk' = store /\ mem'[s] = store
    BY <2>3, <2>7, <2>8, SaveType
  <2> QED
    BY <2>1, <2>2, <2>3, <2>7, <2>9
<1> HIDE DEF Goal
<1>9. Goal
  BY <1>2, <1>6, <1>7, <1>8 DEF Ending
<1> QED
  BY <1>9 DEF Goal

LEMMA InitOnce == Init => Once
BY DEF Init, Once, Succeeded

LEMMA StepOnce ==
  ASSUME TypeOK, UsedFirst, Phases, Alone, Once, [Next]_vars
  PROVE  Once'
<1> SUFFICES ASSUME ~(faults' > 0), NEW q \in Runs, Succeeded(q)'
             PROVE  (Spoilt(run[q].job) \/ Over(run[q].job))'
  BY DEF Once
<1>0. /\ current \in Services /\ disk \in Store /\ mem \in [Services -> Store]
      /\ phase \in [Services -> {"unbuilt", "off", "marked", "catchup", "caught", "on", "dead"}]
      /\ current \in Nat /\ run[q] \in RunState /\ run'[q].job \in Jobs /\ current' \in Services
  <2>1. TypeOK'
    BY StepType
  <2>2. run'[q].job \in Jobs /\ current' \in Services
    <3>1. run'[q] \in RunState /\ current' \in Services
      BY <2>1 DEF TypeOK
    <3> QED
      BY <3>1 DEF RunState
  <2>3. current \in Nat /\ run[q] \in RunState
    BY TypeParts
  <2> QED
    BY <2>2, <2>3, TypeParts
<1> PICK j \in Jobs : run'[q].job = j
  BY <1>0
<1> DEFINE Goal == Spoilt(j)' \/ Over(j)'
<1>1. /\ run[q].job = j /\ OneShot(j) /\ run[q].phase # "unused"
      /\ \/ Succeeded(q)
         \/ /\ Closes(q) /\ run'[q].phase = "done" /\ run[q].result = "ok"
            /\ AtTime <= run[q].at
  <2>1. /\ run'[q].phase = "done" /\ run'[q].result = "ok" /\ OneShot(j) /\ AtTime <= run'[q].at
    BY DEF Succeeded
  <2>2. SameRun(run'[q], run[q]) \/ Closes(q)
    BY <2>1, RunsChange DEF Opens, Advances, Dies
  <2>3. /\ run'[q].job = run[q].job /\ run'[q].at = run[q].at /\ run'[q].result = run[q].result
        /\ run'[q].phase = run[q].phase \/ Closes(q)
        /\ run[q].phase # "unused"
    BY <2>1, <2>2 DEF SameRun, Closes, SameRole
  <2> QED
    BY <2>1, <2>3 DEF Succeeded
<1>2. ~(faults > 0)
  BY FaultsStay
<1>3. Succeeded(q) => Spoilt(j) \/ Over(j)
  BY <1>1, <1>2 DEF Once
<1>4. Spoilt(j) => Spoilt(j)'
  BY SpoiltStays
<1>5. ASSUME Crash, Over(j) PROVE Over(j)'
  <2>1. /\ current' = current + 1 /\ disk' = disk
        /\ phase' = [s \in Services |->
             IF s <= current THEN "dead" ELSE IF s = current + 1 THEN "off" ELSE phase[s]]
    BY <1>5, Zenon DEF Crash
  <2>2. ~(current' <= current)
    BY <1>0, <2>1
  <2>3. phase'[current'] = "off"
    BY <1>0, <2>1, <2>2
  <2>4. ASSUME NEW r \in Runs PROVE ~Sound(r)'
    <3>1. run'[r] = IF run[r].phase \in {"unused", "done"} THEN run[r]
                    ELSE [run[r] EXCEPT !.phase = "dead", !.since = 0, !.fresh = FALSE]
      BY <1>5 DEF Crash
    <3>2. run[r] \in RunState
      BY TypeParts
    <3>3. run'[r].phase \in {"unused", "done", "dead"}
      BY <3>1, <3>2 DEF RunState
    <3> QED
      BY <3>3 DEF Sound, Active
  <2>5. ~IsUp(current)'
    BY <2>3 DEF IsUp
  <2> QED
    BY <1>5, <2>1, <2>4, <2>5 DEF Over
<1>6. ASSUME Crash, Closes(q) PROVE FALSE
  <2>1. run'[q] = [run[q] EXCEPT !.phase = "dead", !.since = 0, !.fresh = FALSE]
    BY <1>6 DEF Crash, Closes
  <2>2. run'[q].phase = "dead"
    BY <1>0, <2>1 DEF RunState
  <2> QED
    BY <1>6, <2>2 DEF Closes
\* The job was over.
<1>7. ASSUME ~Crash, Succeeded(q), Over(j), ~Spoilt(j)' PROVE Over(j)'
  <2>1. Written(j, disk'[j])
        /\ \A t \in Services : Written(j, mem'[t][j]) \/ Tended(j, mem[t][j], mem'[t][j])
    BY <1>7, StoresChange
  <2>2. \A y : Written(j, y) => Served(y)
    BY <1>1, <1>7, WrittenServed
  <2>3. Served(disk'[j])
    BY <2>1, <2>2
  <2>4. ASSUME IsUp(current)' PROVE Served(mem'[current'][j])
    <3>1. ~Reload
      <4>1. ASSUME Reload PROVE FALSE
        <5>1. current' = current + 1 /\ phase' = [phase EXCEPT ![current + 1] = "off"]
          BY <4>1, Zenon DEF Reload
        <5>2. phase'[current'] = "off"
          BY <1>0, <5>1
        <5> QED
          BY <2>4, <5>2 DEF IsUp
      <4> QED
        BY <4>1
    <3>2. current' = current
      BY <1>7, <3>1, ServicesChange
    <3>3. CASE IsUp(current)
      <4>1. Served(mem[current][j]) /\ mem[current][j] \in JobState
        BY <1>0, <1>7, <3>3 DEF Over, Store
      <4>2. now \in 0 .. MaxTime
        BY TypeParts
      <4>3. \A y : Tended(j, mem[current][j], y) => Served(y)
        BY <1>1, <4>1, <4>2, TendedServed
      <4> QED
        BY <1>0, <2>1, <2>2, <3>2, <4>3
    <3>4. CASE ~IsUp(current)
      <4>1. phase'[current] \notin {"unbuilt", "off", "dead"}
        BY <2>4, <3>2 DEF IsUp
      <4>2. phase'[current] # phase[current]
        BY <3>4, <4>1 DEF IsUp
      <4>3. phase[current] \notin {"unbuilt", "dead"}
        BY <1>0, <1>7, <3>1, <4>2, ServicesChange
      <4>4. phase[current] = "off"
        BY <3>4, <4>3 DEF IsUp
      <4>5. Start(current)
        BY <1>0, <1>7, <4>1, <4>4, StartChanges
      <4>6. mem'[current] = disk'
        BY <1>0, <4>5 DEF Start, Save, Memory
      <4> QED
        BY <2>3, <3>2, <4>6
    <3> QED
      BY <3>3, <3>4
  <2>5. ASSUME NEW r \in Runs, Sound(r)' PROVE run'[r].job # j
    <3>1. Opens(r) \/ (Sound(r) /\ run'[r].job = run[r].job)
      BY <1>7, <2>5, SoundBefore
    <3>2. Opens(r) /\ run'[r].job = j => Spoilt(j)'
      BY <1>1, <1>7, BeginsServed
    <3> QED
      BY <1>7, <3>1, <3>2 DEF Over
  <2> QED
    BY <2>3, <2>4, <2>5 DEF Over
\* The run ends the job.
<1>8. ASSUME ~Crash, Closes(q), run'[q].phase = "done", run[q].result = "ok",
             AtTime <= run[q].at, ~Spoilt(j)'
      PROVE  Over(j)'
  <2>1. q \notin cut'
    BY <1>1, <1>8, CutSpoils
  <2>2. /\ Sound(q) /\ current' = current
        /\ Served(disk'[j]) /\ Served(mem'[current][j])
    BY <1>1, <1>8, <2>1, EndsServed
  <2>3. ASSUME NEW r \in Runs, Sound(r)' PROVE run'[r].job # j
    <3>1. Opens(r) \/ (Sound(r) /\ run'[r].job = run[r].job)
      BY <1>8, <2>3, SoundBefore
    <3>2. Active(r)' /\ run'[r].by = current
      BY <2>2, <2>3 DEF Sound
    <3>3. r # q
      BY <1>8, <3>2 DEF Active
    <3>4. Opens(r) => run'[r].job # j
      BY <1>1, <2>1, <2>2, <3>2, BeginsAlone
    <3>5. Sound(r) => run[r].job # j
      BY <1>1, <2>2, <3>3 DEF Alone
    <3> QED
      BY <3>1, <3>4, <3>5
  <2> QED
    BY <2>2, <2>3 DEF Over
<1>9. Spoilt(j)' \/ Over(j)'
  BY <1>1, <1>3, <1>4, <1>5, <1>6, <1>7, <1>8
<1> QED
  BY <1>9 DEF Spoilt, Over

---------------------------------------------------------------------------
(* Theorems *)

CronInv ==
  /\ TypeOK /\ UsedFirst /\ Phases /\ Planned /\ TimerStays
  /\ Alone /\ Replay /\ Once

LEMMA InitCron == Init => CronInv
<1> SUFFICES ASSUME Init PROVE CronInv
  OBVIOUS
<1>1. TimerStays
  BY JobsAndRuns DEF Init, TimerStays
<1> QED
  BY <1>1, InitType, InitPhases, InitPlanned, InitAlone, InitReplay, InitOnce DEF CronInv

LEMMA StepCron == CronInv /\ [Next]_vars => CronInv'
<1> SUFFICES ASSUME CronInv, [Next]_vars PROVE CronInv'
  OBVIOUS
<1>1. TypeOK /\ UsedFirst /\ Phases /\ Planned /\ TimerStays /\ Alone /\ Replay /\ Once
  BY DEF CronInv
<1>2. TypeOK' /\ UsedFirst' /\ Phases' /\ Planned' /\ TimerStays'
  BY <1>1, StepType, RunsChange, StepPhases, StepPlanned, StepTimer
<1>3. Alone' /\ Replay' /\ Once'
  BY <1>1, StepAlone, StepReplay, StepOnce
<1> QED
  BY <1>2, <1>3 DEF CronInv

\* The service in use keeps its timer as long as it has a job to wait for, unless
\* the result of a manual run could not be written (armTimer at every place
\* that changes the jobs).
THEOREM TimerNeverLost == Spec => []TimerStays
<1>1. CronInv => TimerStays
  BY DEF CronInv
<1> QED
  BY <1>1, InitCron, StepCron, PTL DEF Spec

\* A job is executed once at a time, by the markers, and what a crash has cut is
\* not run by the next start, nor its slot by the ticks that follow, with the
\* exceptions that RunsAlone and NotReplayedAtOnce name.
THEOREM OnlyAllowedRuns == Spec => []RunsAllowed
<1>1. CronInv => RunsAllowed
  BY AloneEnough, ReplayEnough DEF CronInv, RunsAllowed
<1> QED
  BY <1>1, InitCron, StepCron, PTL DEF Spec

\* A one-shot job that ran at its time and succeeded is not run again, unless it
\* is forced, or was interfered with, or a write failed.
THEOREM OneShotsRunOnce == Spec => OneShotOnce
<1> DEFINE A ==
      \A q, r \in Runs :
       /\ run[r].phase = "unused" /\ run'[r].phase # "unused"
       /\ run[q].phase = "done" /\ run[q].result = "ok"
       /\ run[q].job = run'[r].job /\ OneShot(run[q].job) /\ AtTime <= run[q].at
       => \/ \E f \in Runs : /\ run'[f].job = run[q].job
                             /\ run'[f].kind = "force" \/ f \in cut'
          \/ faults > 0
<1>1. CronInv /\ [Next]_vars => [A]_vars
  <2> SUFFICES ASSUME CronInv, [Next]_vars, ~(faults > 0), NEW q \in Runs, NEW r \in Runs,
                      run[r].phase = "unused", run'[r].phase # "unused",
                      run[q].phase = "done", run[q].result = "ok",
                      run[q].job = run'[r].job, OneShot(run[q].job), AtTime <= run[q].at
               PROVE  \E f \in Runs : /\ run'[f].job = run[q].job
                                      /\ run'[f].kind = "force" \/ f \in cut'
    OBVIOUS
  <2>1. TypeOK /\ UsedFirst /\ Phases /\ Once
    BY DEF CronInv
  <2>2. Opens(r)
    BY <2>1, RunsChange DEF SameRun, Advances, Closes, Dies
  <2>3. Succeeded(q)
    BY DEF Succeeded
  <2>4. run[q].job \in Jobs
    <3>1. run[q] \in RunState
      BY <2>1, TypeParts
    <3> QED
      BY <3>1 DEF RunState
  <2>5. PICK j \in Jobs : run[q].job = j
    BY <2>4
  <2>6. Spoilt(j) \/ Over(j)
    BY <2>1, <2>3, <2>5 DEF Once
  <2>7. Spoilt(j)'
    BY <2>1, <2>2, <2>3, <2>5, <2>6, SpoiltStays, BeginsServed
  <2> QED
    BY <2>5, <2>7 DEF Spoilt
<1> QED
  BY <1>1, InitCron, StepCron, PTL DEF Spec, OneShotOnce
===========================================================================
