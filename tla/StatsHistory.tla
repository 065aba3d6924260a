---------------------------- MODULE StatsHistory ----------------------------
(***************************************************************************)
(* The stats history behind the dashboard's charts:                        *)
(* collector/stats_history.go, and pipeStatsWithHistory of main.go, which  *)
(* records every snapshot and each minute evicts and downsamples.          *)
(*                                                                         *)
(* A point holds the stats of some containers at a time.  Of the stats the *)
(* model keeps a rate, cpu, which downsampling averages, and a gauge, mem, *)
(* of which it keeps the last; the mem of a recorded sample is the number  *)
(* of its snapshot, so that it says where it comes from.  lo and hi are    *)
(* history: the snapshots a point stands for.                              *)
(***************************************************************************)
EXTENDS Integers, Sequences, FiniteSets, FiniteSetsExt

CONSTANTS
  Name,               \* containers
  Snapshot,           \* what a poll may report: a cpu for some containers
  retention,          \* how long points are kept
  recentFor,          \* how long at full resolution (one hour)
  bucketWidth,        \* the width of a bucket (30 s)
  maxHistorySamples,  \* samples kept at most
  maxQueryCells,      \* values a query returns at most, per metric
  MaxClock            \* bound of this model: the last tick

ASSUME StatsAssumption ==
  /\ IsFiniteSet(Name)
  /\ \A s \in Snapshot : DOMAIN s \subseteq Name
  /\ {retention, recentFor, maxHistorySamples, maxQueryCells, MaxClock} \subseteq Nat
  /\ bucketWidth \in Nat \ {0}

VARIABLES
  clock,
  points,     \* oldest first
  samples,    \* the samples held, as the code counts them
  due,        \* what pipeStatsWithHistory does next for the minute's tick
  recorded    \* every snapshot recorded, with its time (history)

statsVars == <<clock, points, samples, due, recorded>>

StatsInit ==
  /\ clock = 0
  /\ points = <<>>
  /\ samples = 0
  /\ due = "none"
  /\ recorded = <<>>

Names(p) == DOMAIN p.stats
Size(p) == Cardinality(Names(p))

\* The samples of the first points, and of all.
HeldUpto(ps) ==
  LET held[i \in 0..Len(ps)] == IF i = 0 THEN 0 ELSE held[i - 1] + Size(ps[i])
  IN held
Held(ps) == HeldUpto(ps)[Len(ps)]

\* How many points at the front of ps are from before the time.
Before(ps, time) ==
  LET stop == {i \in 1..Len(ps) : ps[i].time >= time}
  IN IF stop = {} THEN Len(ps) ELSE Min(stop) - 1

dropOldest(ps, n) == SubSeq(ps, n + 1, Len(ps))

-----------------------------------------------------------------------------
(* Recording and evicting.                                                 *)

ExcessLoose(ps, held) == 0           \* a mutant: there is always room

\* How many of the oldest points must go for the rest to fit; the newest stays.
Excess(ps, held) ==
  Min({i \in 0..(Len(ps) - 1) :
         held - Held(SubSeq(ps, 1, i)) <= maxHistorySamples \/ i = Len(ps) - 1})

\* A snapshot arrives: Record.  Time passes between two of them.
Record(s) ==
  /\ due = "none"
  /\ \A i \in 1..Len(recorded) : recorded[i].time < clock
  /\ LET id == Len(recorded) + 1
         new == [time |-> clock, lo |-> id, hi |-> id,
                 stats |-> [n \in DOMAIN s |-> [cpu |-> s[n], mem |-> id]]]
         all == Append(points, new)
         held == samples + Size(new)
         n == Excess(all, held)
     IN /\ points' = dropOldest(all, n)
        /\ samples' = held - Held(SubSeq(all, 1, n))
  /\ recorded' = Append(recorded, [time |-> clock, stats |-> s])
  /\ UNCHANGED <<clock, due>>

\* The minute's tick: Evict, then Downsample.
Minute ==
  /\ due = "none"
  /\ due' = "evict"
  /\ UNCHANGED <<clock, points, samples, recorded>>

\* Evict: the points from before the retention period go.
Evict ==
  /\ due = "evict"
  /\ LET n == Before(points, clock - retention)
     IN /\ points' = dropOldest(points, n)
        /\ samples' = samples - Held(SubSeq(points, 1, n))
  /\ due' = "downsample"
  /\ UNCHANGED <<clock, recorded>>

-----------------------------------------------------------------------------
(* Downsampling.                                                           *)

\* Time.Truncate(bucketWidth).
Truncate(t) == (t \div bucketWidth) * bucketWidth

FirstWins(ps) ==                     \* a mutant: the first value stays
  [n \in UNION {Names(ps[i]) : i \in 1..Len(ps)} |->
     LET with == {i \in 1..Len(ps) : n \in Names(ps[i])}
         cpus == MapThenSumSet(LAMBDA i : ps[i].stats[n].cpu, with)
     IN [cpu |-> cpus \div Cardinality(with), mem |-> ps[Min(with)].stats[n].mem]]

\* The stats of a bucket, from its points: the mean of the rates, the last of
\* the gauges.
Merged(ps) ==
  [n \in UNION {Names(ps[i]) : i \in 1..Len(ps)} |->
     LET with == {i \in 1..Len(ps) : n \in Names(ps[i])}
         cpus == MapThenSumSet(LAMBDA i : ps[i].stats[n].cpu, with)
     IN [cpu |-> cpus \div Cardinality(with), mem |-> ps[Max(with)].stats[n].mem]]

\* downsampleBucket, of the points of one bucket.
downsampleBucket(ts, ps) ==
  [time |-> ts, lo |-> ps[1].lo, hi |-> ps[Len(ps)].hi, stats |-> Merged(ps)]

\* The first of the points that are in one bucket with the n-th.
BucketFirst(old, n) == Min({i \in 1..n : Truncate(old[i].time) = Truncate(old[n].time)})

LastBucket(old, n) == downsampleBucket(Truncate(old[n].time), SubSeq(old, BucketFirst(old, n), n))

BucketsSkipEmpty(old) ==             \* a mutant: a bucket needs a container
  LET buckets[n \in 0..Len(old)] ==
        IF n = 0 THEN <<>>
        ELSE IF Names(LastBucket(old, n)) = {} THEN buckets[BucketFirst(old, n) - 1]
        ELSE Append(buckets[BucketFirst(old, n) - 1], LastBucket(old, n))
  IN buckets[Len(old)]

\* The buckets of the first points: those before the last one's first point, and the last.
\* The points are in order, so those of a bucket are next to each other.
BucketsUpto(old) ==
  LET buckets[n \in 0..Len(old)] ==
        IF n = 0 THEN <<>>
        ELSE Append(buckets[BucketFirst(old, n) - 1], LastBucket(old, n))
  IN buckets
Buckets(old) == BucketsUpto(old)[Len(old)]

\* Downsample: points older than recentFor are merged into buckets.
Downsample ==
  /\ due = "downsample"
  /\ LET n == Before(points, clock - recentFor)
         result == Buckets(SubSeq(points, 1, n)) \o dropOldest(points, n)
     IN IF n < 2 THEN UNCHANGED <<points, samples>>
        ELSE /\ points' = result
             /\ samples' = Held(result)
  /\ due' = "none"
  /\ UNCHANGED <<clock, recorded>>

Tick ==
  /\ clock < MaxClock
  /\ clock' = clock + 1
  /\ UNCHANGED <<points, samples, due, recorded>>

StatsNext ==
  \/ \E s \in Snapshot : Record(s)
  \/ Minute \/ Evict \/ Downsample
  \/ Tick

StatsSpec == StatsInit /\ [][StatsNext]_statsVars

-----------------------------------------------------------------------------
(* Query.                                                                  *)

EveryNthFromFirst(ps, step) ==       \* a mutant: counts from the oldest
  [j \in 1..((Len(ps) + step - 1) \div step) |-> ps[1 + (j - 1) * step]]

\* Every step-th point, counting back from the newest.
everyNth(ps, step) ==
  LET n == (Len(ps) + step - 1) \div step
  IN [j \in 1..n |-> ps[Len(ps) - (n - j) * step]]

Series(ps, keep) == UNION {Names(ps[i]) : i \in 1..Len(ps)} \cap keep

\* The points from a time to another.
InRange(from, to) ==
  LET kept[i \in 0..Len(points)] ==
        IF i = 0 THEN <<>>
        ELSE IF from <= points[i].time /\ points[i].time <= to
        THEN Append(kept[i - 1], points[i]) ELSE kept[i - 1]
  IN kept[Len(points)]

Doubled(n) ==
  LET step[k \in 0..n] == IF k = 0 THEN 1 ELSE 2 * step[k - 1]
  IN step

Fits(ps, keep) == Len(ps) <= 1 \/ Cardinality(Series(ps, keep)) * Len(ps) <= maxQueryCells

\* The points and the series Query(from, to, keep) returns: step doubles until
\* they fit.
Query(from, to, keep) ==
  LET inRange == InRange(from, to)
      Every(k) == everyNth(inRange, Doubled(Len(inRange))[k])
      k == CHOOSE k \in 0..Len(inRange) :
             Fits(Every(k), keep) /\ \A j \in 0..(k - 1) : ~Fits(Every(j), keep)
  IN [points |-> Every(k), series |-> Series(Every(k), keep)]

-----------------------------------------------------------------------------
(* Properties.                                                             *)

StatsTypeOK ==
  /\ clock \in 0..MaxClock
  /\ \A i \in 1..Len(points) : Names(points[i]) \subseteq Name
  /\ samples \in Nat
  /\ due \in {"none", "evict", "downsample"}

\* The samples the code counts are those it holds, through drops, evictions and
\* merges, and they fit unless a single snapshot does not
\* (stats_history.go:30-34, 53-54).
SamplesExact ==
  /\ samples = Held(points)
  /\ samples <= maxHistorySamples \/ Len(points) = 1

\* The points are in order, stand for every snapshot from some one on without a
\* gap or an overlap, and none is dated a bucket or more before what it holds.
InOrder ==
  /\ \A i \in 1..(Len(points) - 1) :
       /\ points[i].time < points[i + 1].time
       /\ points[i].hi + 1 = points[i + 1].lo
  /\ \A i \in 1..Len(points) :
       /\ points[i].time <= recorded[points[i].lo].time
       /\ recorded[points[i].hi].time - points[i].time < bucketWidth

\* The snapshots a point stands for that have container n.
Sources(p, n) == {id \in p.lo..p.hi : n \in DOMAIN recorded[id].stats}

\* Merged as often as may be, a gauge is the last value of its point: "Gauges
\* and counters: last value wins" (stats_history.go:149), and a point has the
\* containers of all its snapshots.
GaugesLast ==
  \A i \in 1..Len(points) : \A n \in Name :
    LET p == points[i] IN
    /\ n \in Names(p) <=> Sources(p, n) # {}
    /\ n \in Names(p) => p.stats[n].mem = Max(Sources(p, n))

\* A query's answer fits, unless it is one point; it has the newest point in
\* range; it leaves out none when all of them fit (stats_history.go:182-185).
QueryAnswers ==
  \A to \in 0..clock : \A from \in 0..to : \A keep \in {Name} \cup {{n} : n \in Name} :
    LET q == Query(from, to, keep)
        inRange == InRange(from, to)
    IN /\ \/ Len(q.points) * Cardinality(q.series) <= maxQueryCells
          \/ Len(q.points) = 1
       /\ inRange # <<>> =>
            q.points # <<>> /\ q.points[Len(q.points)] = inRange[Len(inRange)]
       /\ Len(inRange) * Cardinality(Series(inRange, keep)) <= maxQueryCells =>
            q.points = inRange

\* All of it holds however snapshots, merges, evictions and queries follow one another.
HistorySound == SamplesExact /\ InOrder /\ GaugesLast /\ QueryAnswers
=============================================================================
