---------------------------- MODULE HistoryProofs ----------------------------
(***************************************************************************)
(* The histories the server keeps.                                         *)
(*                                                                         *)
(* The stats history (StatsHistory) counts the samples it holds, keeps its *)
(* points in order and without a gap, keeps each gauge's last value        *)
(* through every merge and answers queries that fit, for every set of      *)
(* containers and every retention, bucket width and bound.                 *)
(*                                                                         *)
(* The circular buffer of EventHistory implements RecentLog, for every     *)
(* capacity and every set of events.                                       *)
(***************************************************************************)
EXTENDS StatsHistory, EventHistory, SequenceTheorems, FiniteSetTheorems, WellFoundedInduction, TLAPS

-----------------------------------------------------------------------------
(* Numbers.                                                                *)

\* Numbers none of which is the least are none.
LEMMA NoLeast ==
  ASSUME NEW Bad \in SUBSET Nat,
         \A n \in Bad : \E m \in Bad : m < n
  PROVE  Bad = {}
<1> SUFFICES ASSUME Bad # {} PROVE FALSE
  OBVIOUS
<1>1. PICK n \in Bad : \A m \in Bad : ~(<<m, n>> \in OpToRel(<, Nat))
  BY NatLessThanWellFounded, WFMin
<1>2. PICK m \in Bad : m < n
  OBVIOUS
<1>3. <<m, n>> \in OpToRel(<, Nat)
  <2>1. m \in Nat /\ n \in Nat
    OBVIOUS
  <2> QED
    BY <1>2, <2>1 DEF OpToRel
<1> QED
  BY <1>1, <1>3

\* The least and the greatest of numbers.
LEMMA LeastIs ==
  ASSUME NEW S \in SUBSET Nat, S # {}
  PROVE  Min(S) \in S /\ \A k \in S : Min(S) <= k
<1>1. \E n \in S : \A m \in S : ~(m < n)
  BY NoLeast
<1>2. \E n \in S : \A m \in S : n <= m
  BY <1>1
<1> QED
  BY <1>2 DEF Min

\* A number above all the others is the greatest.
LEMMA GreatestIs ==
  ASSUME NEW S \in SUBSET Int, NEW n \in S, \A k \in S : k <= n
  PROVE  Max(S) = n
<1>1. \A x \in S : (\A y \in S : x >= y) => x = n
  OBVIOUS
<1>2. \E x \in S : \A y \in S : x >= y
  OBVIOUS
<1> QED
  BY <1>1, <1>2 DEF Max

\* Some of the first numbers have a greatest one.
LEMMA GreatestOf ==
  ASSUME NEW n \in Nat, NEW S \in SUBSET (1..n), S # {}
  PROVE  Max(S) \in S /\ \A k \in S : k <= Max(S)
<1> DEFINE below == {m \in 0..n : n - m \in S}
           m == Min(below)
<1>1. below \in SUBSET Nat /\ below # {}
  <2>1. PICK k \in S : TRUE
    OBVIOUS
  <2>2. k \in 1..n /\ n - k \in 0..n /\ n - (n - k) = k
    OBVIOUS
  <2>3. n - k \in below
    BY <2>2
  <2>4. below \in SUBSET Nat
    OBVIOUS
  <2> QED
    BY <2>3, <2>4
<1>2. m \in below /\ \A k \in below : m <= k
  <2> HIDE DEF below
  <2> QED
    BY <1>1, LeastIs
<1>3. n - m \in S /\ m \in 0..n
  BY <1>2
<1>4. \A k \in S : k <= n - m
  <2> TAKE k \in S
  <2>1. k \in 1..n /\ n - k \in 0..n /\ n - (n - k) = k
    OBVIOUS
  <2>2. m <= n - k
    BY <1>2, <2>1
  <2> QED
    BY <1>3, <2>1, <2>2
<1> HIDE DEF m
<1>5. Max(S) = n - m
  <2>1. S \in SUBSET Int /\ n - m \in S
    BY <1>3
  <2> QED
    BY <1>4, <2>1, GreatestIs
<1> QED
  BY <1>3, <1>4, <1>5

-----------------------------------------------------------------------------
(* The samples of points.                                                  *)

\* A point holds containers there are.
Holds(p) == Names(p) \subseteq Name

\* A point has finitely many samples.
LEMMA SizeIs ==
  ASSUME NEW p, Holds(p)
  PROVE  Size(p) \in Nat /\ IsFiniteSet(Names(p))
BY StatsAssumption, FS_Subset, FS_CardinalityType DEF Holds, Size

\* Numbers can be added up.
LEMMA SumExists ==
  ASSUME NEW n \in Nat, NEW size
  PROVE  \E u : u = [i \in 0..n |-> IF i = 0 THEN 0 ELSE u[i - 1] + size[i]]
<1> DEFINE Sums(k, u) == u = [i \in 0..k |-> IF i = 0 THEN 0 ELSE u[i - 1] + size[i]]
           Bad == {k \in Nat : ~\E u : Sums(k, u)}
<1>1. ASSUME NEW k \in Bad PROVE \E m \in Bad : m < k
  <2> SUFFICES ASSUME \A m \in Nat : m < k => m \notin Bad PROVE FALSE
    OBVIOUS
  <2>1. CASE k = 0
    <3>1. Sums(0, [i \in 0..0 |-> 0])
      OBVIOUS
    <3> QED
      BY <2>1, <3>1
  <2>2. CASE k # 0
    <3>1. k - 1 \in Nat /\ k - 1 < k
      BY <2>2
    <3>2. PICK u : Sums(k - 1, u)
      BY <3>1
    <3> DEFINE v == [i \in 0..k |-> IF i = 0 THEN 0 ELSE u[i - 1] + size[i]]
    <3>3. ASSUME NEW i \in 0..(k - 1) PROVE v[i] = u[i]
      BY <3>1, <3>2
    <3>4. ASSUME NEW i \in 0..k
          PROVE  v[i] = IF i = 0 THEN 0 ELSE v[i - 1] + size[i]
      <4>1. CASE i = 0
        BY <4>1
      <4>2. CASE i # 0
        <5>1. i - 1 \in 0..(k - 1)
          BY <4>2
        <5>2. v[i - 1] = u[i - 1]
          BY <3>3, <5>1
        <5> QED
          BY <4>2, <5>2
      <4> QED
        BY <4>1, <4>2
    <3>5. v = [i \in 0..k |-> v[i]]
      OBVIOUS
    <3>6. Sums(k, v)
      <4> HIDE DEF v
      <4> QED
        BY <3>4, <3>5
    <3> QED
      BY <3>6
  <2> QED
    BY <2>1, <2>2
<1>2. Bad = {}
  <2> HIDE DEF Bad
  <2>1. Bad \in SUBSET Nat
    BY DEF Bad
  <2> QED
    BY <1>1, <2>1, NoLeast
<1> QED
  BY <1>2

\* The samples of points are the sums of their sizes.
LEMMA HeldIs ==
  ASSUME NEW S, \A p \in S : Holds(p), NEW ps \in Seq(S)
  PROVE  /\ HeldUpto(ps)[0] = 0
         /\ \A i \in 1..Len(ps) : HeldUpto(ps)[i] = HeldUpto(ps)[i - 1] + Size(ps[i])
         /\ \A i \in 0..Len(ps) : HeldUpto(ps)[i] \in Nat
         /\ \A i \in 1..Len(ps) : Size(ps[i]) \in Nat
<1> DEFINE u == HeldUpto(ps)
           size == [i \in 1..Len(ps) |-> Size(ps[i])]
<1>1. Len(ps) \in Nat
  OBVIOUS
<1>2. u = [i \in 0..Len(ps) |-> IF i = 0 THEN 0 ELSE u[i - 1] + Size(ps[i])]
  <2>1. PICK w : w = [i \in 0..Len(ps) |-> IF i = 0 THEN 0 ELSE w[i - 1] + size[i]]
    <3> HIDE DEF size
    <3> QED
      BY <1>1, SumExists
  <2>2. ASSUME NEW i \in 0..Len(ps), i # 0
        PROVE  size[i] = Size(ps[i])
    BY <1>1, <2>2
  <2>3. w = [i \in 0..Len(ps) |-> IF i = 0 THEN 0 ELSE w[i - 1] + Size(ps[i])]
    <3> HIDE DEF size
    <3> QED
      BY <2>1, <2>2
  <2> QED
    BY <2>3 DEF HeldUpto
<1> HIDE DEF u
<1>3. u[0] = 0 /\ \A i \in 1..Len(ps) : u[i] = u[i - 1] + Size(ps[i])
  BY <1>1, <1>2
<1>4. \A i \in 1..Len(ps) : Size(ps[i]) \in Nat
  BY <1>1, SizeIs
<1> DEFINE Bad == {k \in 0..Len(ps) : u[k] \notin Nat}
<1>5. ASSUME NEW k \in Bad PROVE \E m \in Bad : m < k
  <2>1. k # 0
    BY <1>3
  <2>2. k \in 1..Len(ps) /\ k - 1 \in 0..Len(ps) /\ k - 1 < k
    BY <1>1, <2>1
  <2>3. u[k - 1] \notin Nat
    BY <1>3, <1>4, <2>2
  <2> QED
    BY <2>2, <2>3
<1>6. Bad = {}
  <2> HIDE DEF Bad
  <2>1. Bad \in SUBSET Nat
    BY <1>1 DEF Bad
  <2> QED
    BY <1>5, <2>1, NoLeast
<1> QED
  BY <1>3, <1>4, <1>6 DEF u

\* They are a number.
LEMMA HeldNat ==
  ASSUME NEW S, \A p \in S : Holds(p), NEW ps \in Seq(S)
  PROVE  Held(ps) \in Nat
<1>1. Len(ps) \in 0..Len(ps)
  OBVIOUS
<1> QED
  BY <1>1, HeldIs DEF Held

\* The samples of a part are those up to its end but for those before it.
LEMMA HeldPart ==
  ASSUME NEW S, \A p \in S : Holds(p), NEW ps \in Seq(S), NEW qs \in Seq(S),
         NEW k \in Nat, k + Len(qs) <= Len(ps),
         \A i \in 1..Len(qs) : qs[i] = ps[k + i]
  PROVE  /\ \A i \in 0..Len(qs) : HeldUpto(qs)[i] = HeldUpto(ps)[k + i] - HeldUpto(ps)[k]
         /\ Held(qs) = HeldUpto(ps)[k + Len(qs)] - HeldUpto(ps)[k]
<1> DEFINE u == HeldUpto(ps)
           v == HeldUpto(qs)
           Bad == {i \in 0..Len(qs) : v[i] # u[k + i] - u[k]}
<1>1. Len(ps) \in Nat /\ Len(qs) \in Nat
  OBVIOUS
<1>2. /\ u[0] = 0 /\ \A i \in 1..Len(ps) : u[i] = u[i - 1] + Size(ps[i])
      /\ \A i \in 0..Len(ps) : u[i] \in Nat
      /\ v[0] = 0 /\ \A i \in 1..Len(qs) : v[i] = v[i - 1] + Size(qs[i])
      /\ \A i \in 0..Len(qs) : v[i] \in Nat
      /\ \A i \in 1..Len(qs) : Size(qs[i]) \in Nat
  BY HeldIs
<1> HIDE DEF u, v
<1>3. ASSUME NEW i \in Bad PROVE \E m \in Bad : m < i
  <2>0. k \in 0..Len(ps) /\ u[k] \in Nat
    BY <1>1, <1>2
  <2>1. i # 0
    BY <1>1, <1>2, <2>0
  <2>2. /\ i \in 1..Len(qs) /\ i - 1 \in 0..Len(qs) /\ i - 1 < i
        /\ k + i \in 1..Len(ps) /\ k + i - 1 \in 0..Len(ps) /\ k + (i - 1) = k + i - 1
    BY <1>1, <2>1
  <2>3. Size(qs[i]) = Size(ps[k + i])
    BY <2>2
  <2>4. u[k + i] = u[k + i - 1] + Size(qs[i]) /\ v[i] = v[i - 1] + Size(qs[i])
    BY <1>2, <2>2, <2>3
  <2>5. u[k + i - 1] \in Nat /\ v[i - 1] \in Nat /\ Size(qs[i]) \in Nat
    BY <1>2, <2>2
  <2>6. v[i - 1] # u[k + (i - 1)] - u[k]
    <3>1. v[i] # u[k + i] - u[k] /\ u[k + (i - 1)] = u[k + i - 1]
      BY <2>2
    <3> QED
      BY <2>0, <2>4, <2>5, <3>1
  <2> QED
    BY <2>2, <2>6
<1>4. Bad = {}
  <2> HIDE DEF Bad
  <2>1. Bad \in SUBSET Nat
    BY <1>1 DEF Bad
  <2> QED
    BY <1>3, <2>1, NoLeast
<1>5. Len(qs) \in 0..Len(qs)
  BY <1>1
<1> QED
  BY <1>4, <1>5 DEF Held, u, v

\* One point more, and a part with what follows it.
LEMMA HeldAppend ==
  ASSUME NEW S, \A p \in S : Holds(p), NEW ps \in Seq(S), NEW p \in S
  PROVE  Held(Append(ps, p)) = Held(ps) + Size(p) /\ Held(ps) \in Nat
<1> DEFINE all == Append(ps, p)
<1>1. /\ all \in Seq(S) /\ Len(all) = Len(ps) + 1 /\ Len(ps) \in Nat
      /\ \A i \in 1..Len(ps) : ps[i] = all[0 + i]
      /\ all[Len(ps) + 1] = p
  BY AppendProperties
<1> HIDE DEF all
<1>2. Held(ps) = HeldUpto(all)[0 + Len(ps)] - HeldUpto(all)[0]
  BY <1>1, HeldPart
<1>3. /\ HeldUpto(all)[0] = 0 /\ HeldUpto(all)[Len(ps)] \in Nat
      /\ HeldUpto(all)[Len(ps) + 1] = HeldUpto(all)[Len(ps)] + Size(p)
  <2>1. Len(ps) + 1 \in 1..Len(all) /\ Len(ps) \in 0..Len(all) /\ Len(ps) + 1 - 1 = Len(ps)
    BY <1>1
  <2> DEFINE u == HeldUpto(all)
  <2>2. /\ u[0] = 0 /\ \A i \in 1..Len(all) : u[i] = u[i - 1] + Size(all[i])
        /\ \A i \in 0..Len(all) : u[i] \in Nat
    BY <1>1, HeldIs
  <2> HIDE DEF u
  <2>3. u[Len(ps) + 1] = u[Len(ps) + 1 - 1] + Size(all[Len(ps) + 1])
    BY <2>1, <2>2
  <2> QED
    BY <1>1, <2>1, <2>2, <2>3 DEF u
<1> QED
  BY <1>1, <1>2, <1>3 DEF Held, all

\* The samples of points and of others after them.
LEMMA HeldConcat ==
  ASSUME NEW S, \A p \in S : Holds(p), NEW ps \in Seq(S), NEW qs \in Seq(S)
  PROVE  Held(ps \o qs) = Held(ps) + Held(qs) /\ Held(ps) \in Nat /\ Held(qs) \in Nat
<1> DEFINE all == ps \o qs
<1>1. /\ all \in Seq(S) /\ Len(all) = Len(ps) + Len(qs) /\ Len(ps) \in Nat /\ Len(qs) \in Nat
      /\ \A i \in 1..Len(ps) : ps[i] = all[0 + i]
      /\ \A i \in 1..Len(qs) : qs[i] = all[Len(ps) + i]
  BY ConcatProperties
<1> HIDE DEF all
<1>2. Held(ps) = HeldUpto(all)[0 + Len(ps)] - HeldUpto(all)[0]
  <2>1. 0 + Len(ps) <= Len(all) /\ 0 \in Nat
    BY <1>1
  <2> QED
    BY <1>1, <2>1, HeldPart
<1>3. Held(qs) = HeldUpto(all)[Len(ps) + Len(qs)] - HeldUpto(all)[Len(ps)]
  <2>1. Len(ps) + Len(qs) <= Len(all) /\ Len(ps) \in Nat
    BY <1>1
  <2> QED
    BY <1>1, <2>1, HeldPart
<1>4. /\ HeldUpto(all)[0] = 0 /\ HeldUpto(all)[Len(ps)] \in Nat
      /\ HeldUpto(all)[Len(ps) + Len(qs)] \in Nat
  BY <1>1, HeldIs
<1>5. Held(ps) \in Nat /\ Held(qs) \in Nat
  <2>1. Len(ps) \in 0..Len(ps) /\ Len(qs) \in 0..Len(qs)
    BY <1>1
  <2> QED
    BY <2>1, HeldIs DEF Held
<1> QED
  BY <1>1, <1>2, <1>3, <1>4, <1>5 DEF Held, all

\* All the containers of some points are no more than their samples.
LEMMA NamesFit ==
  ASSUME NEW S, \A p \in S : Holds(p), NEW ps \in Seq(S)
  PROVE  LET all == UNION {Names(ps[i]) : i \in 1..Len(ps)}
         IN /\ all \subseteq Name /\ IsFiniteSet(all)
            /\ Cardinality(all) \in Nat /\ Cardinality(all) <= Held(ps)
<1> DEFINE u == HeldUpto(ps)
           All(n) == UNION {Names(ps[i]) : i \in 1..n}
           Bad == {n \in 0..Len(ps) : ~(Cardinality(All(n)) <= u[n])}
<1>1. Len(ps) \in Nat
  OBVIOUS
<1>2. /\ u[0] = 0 /\ \A i \in 1..Len(ps) : u[i] = u[i - 1] + Size(ps[i])
      /\ \A i \in 0..Len(ps) : u[i] \in Nat
      /\ \A i \in 1..Len(ps) : Size(ps[i]) \in Nat
  BY HeldIs
<1> HIDE DEF u
<1>3. ASSUME NEW n \in 0..Len(ps) PROVE All(n) \subseteq Name /\ IsFiniteSet(All(n))
  <2>1. All(n) \subseteq Name
    <3>1. \A i \in 1..n : Names(ps[i]) \subseteq Name
      BY <1>1 DEF Holds
    <3> QED
      BY <3>1
  <2> HIDE DEF All
  <2> QED
    BY <2>1, StatsAssumption, FS_Subset
<1>4. ASSUME NEW n \in Bad PROVE \E m \in Bad : m < n
  <2>1. n # 0
    <3>1. ASSUME n = 0 PROVE All(n) = {}
      <4>1. 1..n = {}
        BY <3>1
      <4> QED
        BY <4>1
    <3>2. n = 0 => Cardinality(All(n)) = 0 /\ u[n] = 0
      BY <1>2, <3>1, FS_EmptySet
    <3>3. ~(Cardinality(All(n)) <= u[n])
      OBVIOUS
    <3> HIDE DEF All
    <3> QED
      BY <3>2, <3>3
  <2>2. n \in 1..Len(ps) /\ n - 1 \in 0..Len(ps) /\ n - 1 < n /\ n \in 0..Len(ps)
    BY <1>1, <2>1
  <2>3. All(n) = All(n - 1) \union Names(ps[n])
    <3>1. 1..n = (1..(n - 1)) \union {n}
      BY <2>2
    <3> QED
      BY <3>1
  <2>4. IsFiniteSet(All(n)) /\ IsFiniteSet(All(n - 1)) /\ IsFiniteSet(Names(ps[n]))
    <3>1. Holds(ps[n])
      BY <2>2
    <3> HIDE DEF All
    <3> QED
      BY <1>3, <2>2, <3>1, SizeIs
  <2> HIDE DEF All
  <2> DEFINE a == All(n - 1)
             b == Names(ps[n])
  <2>5. /\ Cardinality(a \union b) = Cardinality(a) + Cardinality(b) - Cardinality(a \cap b)
        /\ Cardinality(a) \in Nat /\ Cardinality(b) \in Nat /\ Cardinality(a \cap b) \in Nat
    <3>1. IsFiniteSet(a) /\ IsFiniteSet(b)
      BY <2>4
    <3> HIDE DEF a, b
    <3>2. IsFiniteSet(a \cap b)
      BY <3>1, FS_Subset
    <3> QED
      BY <3>1, <3>2, FS_Union, FS_CardinalityType
  <2>6. Cardinality(All(n)) <= Cardinality(a) + Size(ps[n]) /\ Cardinality(a) \in Nat
    BY <2>3, <2>5 DEF Size
  <2>7. ~(Cardinality(All(n)) <= u[n])
    OBVIOUS
  <2>8. u[n] = u[n - 1] + Size(ps[n]) /\ u[n - 1] \in Nat /\ Size(ps[n]) \in Nat
    BY <1>2, <2>2
  <2>9. Cardinality(All(n)) \in Nat
    BY <2>4, FS_CardinalityType
  <2>10. ~(Cardinality(a) <= u[n - 1])
    <3> HIDE DEF a
    <3> QED
      BY <2>6, <2>7, <2>8, <2>9
  <2> QED
    BY <2>2, <2>10
<1>5. Bad = {}
  <2> HIDE DEF Bad
  <2>1. Bad \in SUBSET Nat
    BY <1>1 DEF Bad
  <2> QED
    BY <1>4, <2>1, NoLeast
<1>6. Len(ps) \in 0..Len(ps)
  BY <1>1
<1>7. Cardinality(All(Len(ps))) <= u[Len(ps)]
  BY <1>5, <1>6
<1>8. All(Len(ps)) \subseteq Name /\ IsFiniteSet(All(Len(ps)))
  <2> HIDE DEF All
  <2> QED
    BY <1>3, <1>6
<1> HIDE DEF All
<1>9. Cardinality(All(Len(ps))) \in Nat
  BY <1>8, FS_CardinalityType
<1> QED
  BY <1>7, <1>8, <1>9 DEF All, Held, u

-----------------------------------------------------------------------------
(* Points that follow one another.                                         *)

\* A time is in its bucket, and a bucket's start is its own.
LEMMA TruncateIs ==
  ASSUME NEW t \in Nat
  PROVE  /\ Truncate(t) \in Nat /\ Truncate(t) <= t /\ t < Truncate(t) + bucketWidth
         /\ Truncate(Truncate(t)) = Truncate(t)
<1> DEFINE w == bucketWidth
           q == t \div w
<1>0. w \in Nat \ {0}
  BY StatsAssumption
<1> HIDE DEF w
<1>1. q \in Nat /\ t = w * q + (t % w) /\ t % w \in 0..(w - 1)
  BY <1>0
<1>2. (w * q) \div w = q
  BY <1>0, <1>1
<1> HIDE DEF q
<1>3. w * q = q * w /\ q * w \in Nat
  BY <1>0, <1>1
<1>4. Truncate(t) = q * w
  BY DEF Truncate, q, w
<1>5. Truncate(q * w) = q * w
  BY <1>2, <1>3 DEF Truncate, w
<1> QED
  BY <1>0, <1>1, <1>3, <1>4, <1>5 DEF w

\* A product grows with its factor.
LEMMA Larger ==
  ASSUME NEW a \in Nat, NEW b \in Nat, NEW w \in Nat, a <= b
  PROVE  w * a <= w * b
<1>1. b - a \in Nat /\ w * (b - a) \in Nat
  OBVIOUS
<1>2. w * (b - a) = w * b - w * a
  OBVIOUS
<1> QED
  BY <1>1, <1>2

\* Later times are in later buckets, or in the same one.
LEMMA TruncateOrder ==
  ASSUME NEW s \in Nat, NEW t \in Nat, s <= t
  PROVE  Truncate(s) <= Truncate(t)
<1> DEFINE w == bucketWidth
           p == s \div w
           q == t \div w
<1>0. w \in Nat \ {0}
  BY StatsAssumption
<1> HIDE DEF w
<1>1. q \in Nat /\ t = w * q + (t % w) /\ t % w \in 0..(w - 1)
  BY <1>0
<1>2. p \in Nat /\ s = w * p + (s % w) /\ s % w \in 0..(w - 1)
  BY <1>0
<1>3. Truncate(s) = p * w /\ Truncate(t) = q * w
  BY DEF Truncate, w
<1> HIDE DEF p, q
<1>4. w * p = p * w /\ w * q = q * w /\ w * p \in Nat /\ w * q \in Nat
  BY <1>0, <1>1, <1>2
<1>5. p <= q
  <2> SUFFICES ASSUME q + 1 <= p PROVE FALSE
    BY <1>1, <1>2
  <2>1. w * (q + 1) <= w * p
    BY <1>0, <1>1, <1>2, Larger
  <2>2. w * (q + 1) = w * q + w
    BY <1>0, <1>1
  <2>3. t < w * q + w
    BY <1>0, <1>1, <1>4
  <2>4. w * p <= s
    BY <1>0, <1>2, <1>4
  <2> QED
    BY <1>0, <1>4, <2>1, <2>2, <2>3, <2>4
<1>6. w * p <= w * q
  BY <1>0, <1>1, <1>2, <1>5, Larger
<1> QED
  BY <1>3, <1>4, <1>6

\* A point stands for snapshots, has their containers, and of each gauge the last value.
PointSound(p) ==
  /\ p.time \in Nat /\ p.lo \in 1..Len(recorded) /\ p.hi \in p.lo..Len(recorded)
  /\ Names(p) \subseteq Name
  /\ p.time <= recorded[p.lo].time /\ Truncate(recorded[p.hi].time) = Truncate(p.time)
  /\ \A n \in Name \ Names(p) : Sources(p, n) = {}
  /\ \A n \in Names(p) : /\ p.stats[n].mem \in Sources(p, n)
                         /\ \A id \in Sources(p, n) : id <= p.stats[n].mem

\* One after another, without a gap or an overlap.
Chained(ps) ==
  \A i \in 1..(Len(ps) - 1) :
    /\ ps[i].time < ps[i + 1].time
    /\ ps[i].hi + 1 = ps[i + 1].lo

Recorded == recorded \in Seq([time : Nat, stats : Snapshot])

\* The numbers of a sound point.
LEMMA PointIs ==
  ASSUME Recorded, NEW p, PointSound(p)
  PROVE  /\ p.time \in Nat /\ p.lo \in Nat /\ p.hi \in Nat /\ 1 <= p.lo /\ p.lo <= p.hi
         /\ p.hi <= Len(recorded) /\ Holds(p)
BY DEF PointSound, Recorded, Holds

\* Of two points of a chain the earlier is older, and stands for earlier snapshots.
LEMMA ChainOrder ==
  ASSUME Recorded, NEW S, \A p \in S : PointSound(p), NEW ps \in Seq(S), Chained(ps)
  PROVE  \A a, b \in 1..Len(ps) : a < b => ps[a].time < ps[b].time /\ ps[a].hi < ps[b].lo
<1> DEFINE Ordered(a, b) == ps[a].time < ps[b].time /\ ps[a].hi < ps[b].lo
           Bad == {b \in 1..Len(ps) : \E a \in 1..Len(ps) : a < b /\ ~Ordered(a, b)}
<1>0. Len(ps) \in Nat
  OBVIOUS
<1>1. \A i \in 1..Len(ps) : /\ ps[i].time \in Nat /\ ps[i].lo \in Nat /\ ps[i].hi \in Nat
                            /\ ps[i].lo <= ps[i].hi
  BY PointIs
<1>2. ASSUME NEW b \in Bad PROVE \E m \in Bad : m < b
  <2>1. PICK a \in 1..Len(ps) : a < b /\ ~Ordered(a, b)
    OBVIOUS
  <2>2. b \in 1..Len(ps) /\ b - 1 \in 1..(Len(ps) - 1) /\ b - 1 \in 1..Len(ps) /\ b - 1 + 1 = b
    BY <1>0, <2>1
  <2>3. ps[b - 1].time < ps[b].time /\ ps[b - 1].hi + 1 = ps[b].lo
    BY <2>2 DEF Chained
  <2>4. a # b - 1
    BY <1>1, <2>1, <2>2, <2>3
  <2>5. a < b - 1
    BY <1>0, <2>1, <2>2, <2>4
  <2>6. ~Ordered(a, b - 1)
    <3>1. /\ ps[a].time \in Nat /\ ps[b - 1].time \in Nat /\ ps[b].time \in Nat
          /\ ps[a].hi \in Nat /\ ps[b - 1].lo \in Nat /\ ps[b - 1].hi \in Nat /\ ps[b].lo \in Nat
          /\ ps[b - 1].lo <= ps[b - 1].hi
      BY <1>1, <2>1, <2>2
    <3>2. ~(ps[a].time < ps[b].time /\ ps[a].hi < ps[b].lo)
      BY <2>1
    <3>3. ps[a].time < ps[b - 1].time => ps[a].time < ps[b].time
      BY <2>3, <3>1
    <3>4. ps[a].hi < ps[b - 1].lo => ps[a].hi < ps[b].lo
      BY <2>3, <3>1
    <3> QED
      BY <3>2, <3>3, <3>4
  <2>7. b - 1 \in Bad /\ b - 1 < b
    BY <2>2, <2>5, <2>6
  <2> QED
    BY <2>7
<1>3. Bad = {}
  <2> HIDE DEF Bad
  <2>1. Bad \in SUBSET Nat
    BY <1>0 DEF Bad
  <2> QED
    BY <1>2, <2>1, NoLeast
<1> QED
  BY <1>3

\* A stretch of a chain leaves no snapshot out.
LEMMA ChainCovers ==
  ASSUME Recorded, NEW S, \A p \in S : PointSound(p), NEW ps \in Seq(S), Chained(ps),
         NEW a \in 1..Len(ps)
  PROVE  \A b \in a..Len(ps) : \A id \in ps[a].lo..ps[b].hi :
           \E i \in a..b : id \in ps[i].lo..ps[i].hi
<1> DEFINE Covered(b) == \A id \in ps[a].lo..ps[b].hi : \E i \in a..b : id \in ps[i].lo..ps[i].hi
           Bad == {b \in a..Len(ps) : ~Covered(b)}
<1>0. Len(ps) \in Nat /\ a \in Nat
  OBVIOUS
<1>1. \A i \in 1..Len(ps) : /\ ps[i].time \in Nat /\ ps[i].lo \in Nat /\ ps[i].hi \in Nat
                            /\ ps[i].lo <= ps[i].hi
  BY PointIs
<1>2. ASSUME NEW b \in Bad PROVE \E m \in Bad : m < b
  <2>1. PICK id \in ps[a].lo..ps[b].hi : \A i \in a..b : id \notin ps[i].lo..ps[i].hi
    OBVIOUS
  <2>2. b # a
    <3>1. a \in a..a
      BY <1>0
    <3> QED
      BY <2>1, <3>1
  <2>3. /\ b \in 1..Len(ps) /\ b - 1 \in 1..(Len(ps) - 1) /\ b - 1 \in a..Len(ps) /\ b - 1 + 1 = b
        /\ b - 1 \in 1..Len(ps) /\ b \in a..b /\ b - 1 < b /\ a..(b - 1) \subseteq a..b
    BY <1>0, <2>2
  <2>4. ps[b - 1].hi + 1 = ps[b].lo
    BY <2>3 DEF Chained
  <2>5. id \notin ps[b].lo..ps[b].hi
    BY <2>1, <2>3
  <2>6. id \in ps[a].lo..ps[b - 1].hi
    BY <1>1, <2>1, <2>3, <2>4, <2>5
  <2>7. ~Covered(b - 1)
    BY <2>1, <2>3, <2>6
  <2> QED
    BY <2>3, <2>7
<1>3. Bad = {}
  <2> HIDE DEF Bad
  <2>1. Bad \in SUBSET Nat
    BY <1>0 DEF Bad
  <2> QED
    BY <1>2, <2>1, NoLeast
<1> QED
  BY <1>3

\* The ends of a chain stand for what is between them.
LEMMA ChainEnds ==
  ASSUME Recorded, NEW S, \A p \in S : PointSound(p), NEW ps \in Seq(S), Chained(ps),
         NEW i \in 1..Len(ps)
  PROVE  /\ ps[1].time <= ps[i].time /\ ps[i].time <= ps[Len(ps)].time
         /\ ps[1].lo <= ps[i].lo /\ ps[i].hi <= ps[Len(ps)].hi
<1>1. Len(ps) \in Nat /\ 1 \in 1..Len(ps) /\ Len(ps) \in 1..Len(ps) /\ i \in Int
  OBVIOUS
<1>2. \A k \in 1..Len(ps) : /\ ps[k].time \in Nat /\ ps[k].lo \in Nat /\ ps[k].hi \in Nat
                            /\ ps[k].lo <= ps[k].hi
  BY PointIs
<1>3. /\ 1 < i => ps[1].time < ps[i].time /\ ps[1].hi < ps[i].lo
      /\ i < Len(ps) => ps[i].time < ps[Len(ps)].time /\ ps[i].hi < ps[Len(ps)].lo
  BY <1>1, ChainOrder
<1>4. ps[1].time <= ps[i].time /\ ps[1].lo <= ps[i].lo
  <2>1. CASE i = 1
    BY <1>1, <1>2, <2>1
  <2>2. CASE 1 < i
    BY <1>1, <1>2, <1>3, <2>2
  <2> QED
    BY <2>1, <2>2
<1>5. ps[i].time <= ps[Len(ps)].time /\ ps[i].hi <= ps[Len(ps)].hi
  <2>1. CASE i = Len(ps)
    BY <1>1, <1>2, <2>1
  <2>2. CASE i < Len(ps)
    BY <1>1, <1>2, <1>3, <2>2
  <2> QED
    BY <1>1, <2>1, <2>2
<1> QED
  BY <1>4, <1>5

\* A bucket stands for what its points stand for.
LEMMA BucketSound ==
  ASSUME Recorded, NEW S, \A p \in S : PointSound(p), NEW ps \in Seq(S), Chained(ps), ps # <<>>,
         NEW ts \in Nat, \A i \in 1..Len(ps) : Truncate(ps[i].time) = ts
  PROVE  LET d == downsampleBucket(ts, ps)
         IN /\ PointSound(d) /\ d.time = ts /\ d.lo = ps[1].lo /\ d.hi = ps[Len(ps)].hi
            /\ Size(d) \in Nat /\ Size(d) <= Held(ps)
<1> DEFINE d == downsampleBucket(ts, ps)
           all == UNION {Names(ps[i]) : i \in 1..Len(ps)}
           m == Len(ps)
<1>1. m \in Nat /\ 1 \in 1..m /\ m \in 1..m
  BY EmptySeq
<1>2. \A i \in 1..m : PointSound(ps[i])
  OBVIOUS
<1>3. /\ d.time = ts /\ d.lo = ps[1].lo /\ d.hi = ps[m].hi /\ d.stats = Merged(ps)
  BY DEF downsampleBucket
<1>4. Names(d) = all
  BY <1>3 DEF Names, Merged
<1>5. Size(d) \in Nat /\ Size(d) <= Held(ps) /\ all \subseteq Name
  <2>1. \A p \in S : Holds(p)
    BY PointIs
  <2> QED
    BY <1>4, <2>1, NamesFit DEF Size
<1>6. \A i \in 1..m : /\ ps[i].time \in Nat /\ ps[i].lo \in Nat /\ ps[i].hi \in Nat
                      /\ 1 <= ps[i].lo /\ ps[i].lo <= ps[i].hi /\ ps[i].hi <= Len(recorded)
  BY PointIs
<1>7. \A i \in 1..m : ps[1].time <= ps[i].time /\ ps[1].lo <= ps[i].lo /\ ps[i].hi <= ps[m].hi
  BY ChainEnds
<1>8. d.lo \in 1..Len(recorded) /\ d.hi \in d.lo..Len(recorded)
  <2>0. Len(recorded) \in Nat
    BY DEF Recorded
  <2> HIDE DEF d, m
  <2>1. ps[1].lo \in Nat /\ 1 <= ps[1].lo /\ ps[1].lo <= ps[1].hi /\ ps[1].hi <= ps[m].hi
        /\ ps[m].hi \in Nat /\ ps[m].hi <= Len(recorded) /\ ps[1].hi \in Nat
    BY <1>1, <1>6, <1>7
  <2> QED
    BY <1>3, <2>0, <2>1
<1>9. d.time <= recorded[d.lo].time
  <2>1. ts <= ps[1].time
    BY <1>1, <1>6, TruncateIs
  <2>2. ps[1].time <= recorded[ps[1].lo].time
    BY <1>1, <1>2 DEF PointSound
  <2>3. recorded[ps[1].lo].time \in Nat
    <3>1. ps[1].lo \in 1..Len(recorded)
      BY <1>1, <1>2 DEF PointSound
    <3> DEFINE k == ps[1].lo
    <3> HIDE DEF k
    <3>2. recorded \in Seq([time : Nat, stats : Snapshot]) /\ k \in 1..Len(recorded)
      BY <3>1 DEF Recorded, k
    <3>3. recorded[k] \in [time : Nat, stats : Snapshot]
      BY <3>2, ElementOfSeq
    <3>4. recorded[k].time \in Nat
      BY <3>3
    <3> QED
      BY <3>4 DEF k
  <2>4. ps[1].time \in Nat
    BY <1>1, <1>6
  <2> HIDE DEF d
  <2> QED
    BY <1>3, <2>1, <2>2, <2>3, <2>4
<1>10. Truncate(recorded[d.hi].time) = Truncate(d.time)
  <2>1. Truncate(recorded[ps[m].hi].time) = Truncate(ps[m].time)
    BY <1>1, <1>2 DEF PointSound
  <2>2. Truncate(ps[m].time) = ts
    BY <1>1
  <2>3. Truncate(Truncate(ps[m].time)) = Truncate(ps[m].time)
    BY <1>1, <1>6, TruncateIs
  <2> HIDE DEF d
  <2> QED
    BY <1>3, <2>1, <2>2, <2>3
\* Whose sources the bucket's are.
<1>11. ASSUME NEW n \in Name, NEW id \in Sources(d, n)
       PROVE  \E i \in 1..m : n \in Names(ps[i]) /\ id \in Sources(ps[i], n)
  <2>1. id \in ps[1].lo..ps[m].hi /\ n \in DOMAIN recorded[id].stats
    BY <1>3 DEF Sources
  <2>2. PICK i \in 1..m : id \in ps[i].lo..ps[i].hi
    BY <1>1, <2>1, ChainCovers
  <2>3. id \in Sources(ps[i], n)
    BY <2>1, <2>2 DEF Sources
  <2>4. n \in Names(ps[i])
    BY <1>2, <2>3 DEF PointSound
  <2> QED
    BY <2>3, <2>4
<1>12. \A n \in Name \ Names(d) : Sources(d, n) = {}
  <2> SUFFICES ASSUME NEW n \in Name \ Names(d), NEW id \in Sources(d, n) PROVE FALSE
    OBVIOUS
  <2>1. PICK i \in 1..m : n \in Names(ps[i])
    BY <1>11
  <2> QED
    BY <1>4, <2>1
<1>13. ASSUME NEW n \in Names(d)
       PROVE  /\ d.stats[n].mem \in Sources(d, n)
              /\ \A id \in Sources(d, n) : id <= d.stats[n].mem
  <2> DEFINE with == {i \in 1..m : n \in Names(ps[i])}
             j == Max(with)
             mem == ps[j].stats[n].mem
  <2>1. n \in Name /\ n \in all
    BY <1>4, <1>5
  <2>2. with \in SUBSET (1..m) /\ with # {}
    BY <2>1
  <2>3. j \in with /\ \A i \in with : i <= j
    <3> HIDE DEF with
    <3> QED
      BY <1>1, <2>2, GreatestOf
  <2>4. d.stats[n].mem = mem
    <3>1. Merged(ps)[n] = [cpu |-> MapThenSumSet(LAMBDA i : ps[i].stats[n].cpu, with) \div Cardinality(with),
                           mem |-> mem]
      BY <2>1 DEF Merged
    <3> HIDE DEF d, mem, with
    <3> QED
      BY <1>3, <3>1
  <2>5. j \in 1..m /\ n \in Names(ps[j])
    <3> HIDE DEF j
    <3> QED
      BY <2>3
  <2> HIDE DEF j, with
  <2>6. /\ mem \in Sources(ps[j], n)
        /\ \A id \in Sources(ps[j], n) : id <= mem
    BY <1>2, <2>5 DEF PointSound
  <2>7. mem \in ps[j].lo..ps[j].hi /\ n \in DOMAIN recorded[mem].stats
    BY <2>6 DEF Sources
  <2> HIDE DEF mem
  <2>8. mem \in Int /\ ps[j].lo <= mem /\ mem <= ps[j].hi
    BY <1>6, <2>5, <2>7
  <2>9. mem \in Sources(d, n)
    <3>1. ps[1].lo <= ps[j].lo /\ ps[j].hi <= ps[m].hi
      BY <1>7, <2>5
    <3>2. ps[1].lo \in Nat /\ ps[j].lo \in Nat /\ ps[j].hi \in Nat /\ ps[m].hi \in Nat
      BY <1>1, <1>6, <2>5
    <3>3. mem \in ps[1].lo..ps[m].hi
      BY <2>8, <3>1, <3>2
    <3> QED
      BY <1>3, <2>7, <3>3 DEF Sources
  <2>10. ASSUME NEW id \in Sources(d, n) PROVE id <= mem
    <3>1. PICK i \in 1..m : n \in Names(ps[i]) /\ id \in Sources(ps[i], n)
      BY <1>11, <2>1
    <3>2. i <= j
      <4>1. i \in with
        BY <3>1 DEF with
      <4> QED
        BY <2>3, <4>1
    <3>3. CASE i = j
      BY <2>6, <3>1, <3>3
    <3>4. CASE i < j
      <4>1. ps[i].hi < ps[j].lo
        BY <2>5, <3>4, ChainOrder
      <4>2. id \in Int /\ id <= ps[i].hi
        BY <1>6, <3>1 DEF Sources
      <4>3. ps[i].hi \in Nat /\ ps[j].lo \in Nat
        BY <1>6, <2>5
      <4> QED
        BY <2>8, <4>1, <4>2, <4>3
    <3>5. i \in Int /\ j \in Int
      BY <1>1, <2>5
    <3> QED
      BY <3>2, <3>3, <3>4, <3>5
  <2> HIDE DEF d
  <2> QED
    BY <2>4, <2>9, <2>10
<1>14. PointSound(d)
  <2> HIDE DEF d, all
  <2>1. d.time \in Nat /\ Names(d) \subseteq Name
    BY <1>3, <1>4, <1>5
  <2> QED
    BY <1>8, <1>9, <1>10, <1>12, <1>13, <2>1 DEF PointSound
<1> QED
  BY <1>3, <1>5, <1>14

\* Chains grow at their end, and have chains as parts.
LEMMA ChainPart ==
  ASSUME NEW S, NEW ps \in Seq(S), NEW qs \in Seq(S), NEW k \in Nat, Chained(ps),
         k + Len(qs) <= Len(ps), \A i \in 1..Len(qs) : qs[i] = ps[k + i]
  PROVE  Chained(qs)
<1> SUFFICES ASSUME NEW i \in 1..(Len(qs) - 1)
             PROVE  qs[i].time < qs[i + 1].time /\ qs[i].hi + 1 = qs[i + 1].lo
  BY DEF Chained
<1>1. Len(ps) \in Nat /\ Len(qs) \in Nat
  OBVIOUS
<1>2. i \in 1..Len(qs) /\ i + 1 \in 1..Len(qs) /\ k + i \in 1..(Len(ps) - 1) /\ k + (i + 1) = k + i + 1
  BY <1>1
<1>3. qs[i] = ps[k + i] /\ qs[i + 1] = ps[k + i + 1]
  BY <1>2
<1> QED
  BY <1>2, <1>3 DEF Chained

\* Two chains are one when the second begins where the first ends.
LEMMA ChainConcat ==
  ASSUME NEW S, NEW ps \in Seq(S), NEW qs \in Seq(S), Chained(ps), Chained(qs),
         ps # <<>> /\ qs # <<>> =>
           ps[Len(ps)].time < qs[1].time /\ ps[Len(ps)].hi + 1 = qs[1].lo
  PROVE  Chained(ps \o qs)
<1> DEFINE all == ps \o qs
           a == Len(ps)
           b == Len(qs)
<1>1. /\ all \in Seq(S) /\ Len(all) = a + b /\ a \in Nat /\ b \in Nat
      /\ \A i \in 1..(a + b) : all[i] = IF i <= a THEN ps[i] ELSE qs[i - a]
  BY ConcatProperties
<1> HIDE DEF all
<1> SUFFICES ASSUME NEW i \in 1..(Len(all) - 1)
             PROVE  all[i].time < all[i + 1].time /\ all[i].hi + 1 = all[i + 1].lo
  BY DEF Chained, all
<1>2. i \in 1..(a + b) /\ i + 1 \in 1..(a + b)
  BY <1>1
<1>3. CASE i + 1 <= a
  <2>1. i \in 1..(a - 1) /\ i <= a
    BY <1>1, <1>2, <1>3
  <2>2. all[i] = ps[i]
    BY <1>1, <1>2, <2>1
  <2>3. all[i + 1] = ps[i + 1]
    BY <1>1, <1>2, <1>3
  <2> QED
    BY <2>1, <2>2, <2>3 DEF Chained
<1>4. CASE i > a
  <2>1. i - a \in 1..(b - 1) /\ ~(i <= a) /\ ~(i + 1 <= a) /\ i + 1 - a = (i - a) + 1
    BY <1>1, <1>2, <1>4
  <2>2. all[i] = qs[i - a]
    BY <1>1, <1>2, <2>1
  <2>3. all[i + 1] = qs[i + 1 - a]
    BY <1>1, <1>2, <2>1
  <2> QED
    BY <2>1, <2>2, <2>3 DEF Chained
<1>5. CASE i = a
  <2>1. /\ i <= a /\ ~(i + 1 <= a) /\ i + 1 - a = 1 /\ a >= 1 /\ b >= 1
    BY <1>1, <1>2, <1>5
  <2>2. all[i] = ps[a] /\ all[i + 1] = qs[1]
    BY <1>1, <1>2, <1>5, <2>1
  <2>3. ps # <<>> /\ qs # <<>>
    BY <2>1
  <2> QED
    BY <2>2, <2>3
<1> QED
  BY <1>1, <1>2, <1>3, <1>4, <1>5

\* A chain with one point more.
LEMMA ChainAppend ==
  ASSUME NEW S, NEW ps \in Seq(S), NEW p \in S, Chained(ps),
         ps # <<>> => ps[Len(ps)].time < p.time /\ ps[Len(ps)].hi + 1 = p.lo
  PROVE  Chained(Append(ps, p))
<1> DEFINE one == <<p>>
<1>1. one \in Seq(S) /\ Len(one) = 1 /\ one[1] = p
  OBVIOUS
<1>2. Chained(one)
  BY <1>1 DEF Chained
<1>3. Append(ps, p) = ps \o one
  BY AppendIsConcat
<1> HIDE DEF one
<1> QED
  BY <1>1, <1>2, <1>3, ChainConcat

-----------------------------------------------------------------------------
(* Buckets.                                                                *)

\* Buckets collected up to the n-th, each after those before its first point.
Collected(u, n, begins, last) ==
  u = [i \in 0..n |-> IF i = 0 THEN <<>> ELSE Append(u[begins[i] - 1], last[i])]

\* Buckets can be collected up to the last.
LEMMA BucketsExist ==
  ASSUME NEW n \in Nat, NEW begins, NEW last, \A i \in 1..n : begins[i] \in 1..i
  PROVE  \E u : Collected(u, n, begins, last)
<1> DEFINE Bad == {k \in 0..n : ~\E u : Collected(u, k, begins, last)}
<1>1. ASSUME NEW k \in Bad PROVE \E m \in Bad : m < k
  <2> SUFFICES ASSUME \A m \in 0..n : m < k => m \notin Bad PROVE FALSE
    OBVIOUS
  <2>1. CASE k = 0
    <3>1. Collected([i \in 0..0 |-> <<>>], 0, begins, last)
      BY DEF Collected
    <3> QED
      BY <2>1, <3>1
  <2>2. CASE k # 0
    <3>1. k - 1 \in 0..n /\ k - 1 < k
      BY <2>2
    <3>2. PICK u : Collected(u, k - 1, begins, last)
      BY <3>1
    <3> DEFINE v == [i \in 0..k |-> IF i = 0 THEN <<>> ELSE Append(u[begins[i] - 1], last[i])]
    <3>3. ASSUME NEW i \in 0..(k - 1) PROVE v[i] = u[i]
      <4>1. u[i] = IF i = 0 THEN <<>> ELSE Append(u[begins[i] - 1], last[i])
        BY <3>2 DEF Collected
      <4>2. i \in 0..k
        BY <3>1
      <4> HIDE <3>2
      <4> QED
        BY <4>1, <4>2
    <3>4. ASSUME NEW i \in 0..k
          PROVE  v[i] = IF i = 0 THEN <<>> ELSE Append(v[begins[i] - 1], last[i])
      <4>1. CASE i = 0
        BY <4>1
      <4>2. CASE i # 0
        <5>1. i \in 1..n
          BY <3>1, <4>2
        <5>2. begins[i] - 1 \in 0..(k - 1)
          <6>1. begins[i] \in 1..i
            BY <5>1
          <6> QED
            BY <3>1, <4>2, <6>1
        <5>3. v[begins[i] - 1] = u[begins[i] - 1]
          <6> HIDE DEF v
          <6> QED
            BY <3>3, <5>2
        <5> QED
          BY <4>2, <5>3
      <4> QED
        BY <4>1, <4>2
    <3>5. v = [i \in 0..k |-> v[i]]
      OBVIOUS
    <3>6. Collected(v, k, begins, last)
      <4> HIDE DEF v
      <4> QED
        BY <3>4, <3>5 DEF Collected
    <3> QED
      BY <3>6
  <2> QED
    BY <2>1, <2>2
<1>2. Bad = {}
  <2> HIDE DEF Bad
  <2>1. Bad \in SUBSET Nat
    BY DEF Bad
  <2> QED
    BY <1>1, <2>1, NoLeast
<1>3. n \in 0..n
  OBVIOUS
<1> QED
  BY <1>2, <1>3

\* The last bucket of the first points begins after a point of another one.
LEMMA LastBucketSound ==
  ASSUME Recorded, NEW S, \A p \in S : PointSound(p), NEW old \in Seq(S), Chained(old),
         NEW n \in 1..Len(old)
  PROVE  LET k == BucketFirst(old, n)
             d == LastBucket(old, n)
         IN /\ k \in 1..n
            /\ PointSound(d) /\ d.time = Truncate(old[n].time) /\ d.hi = old[n].hi /\ d.lo = old[k].lo
            /\ Size(d) \in Nat /\ Size(d) <= HeldUpto(old)[n] - HeldUpto(old)[k - 1]
            /\ k > 1 => Truncate(old[k - 1].time) < Truncate(old[n].time)
<1> DEFINE ts == Truncate(old[n].time)
           Same == {i \in 1..n : Truncate(old[i].time) = ts}
           k == BucketFirst(old, n)
           part == SubSeq(old, k, n)
           m == n - k + 1
<1>1. Len(old) \in Nat /\ n \in Nat /\ \A i \in 1..Len(old) : old[i].time \in Nat
  BY PointIs
<1>2. k \in Same /\ \A i \in Same : k <= i
  <2>1. Same \in SUBSET Nat /\ n \in Same
    BY <1>1
  <2>2. k = Min(Same)
    BY DEF BucketFirst
  <2> HIDE DEF Same, k
  <2> QED
    BY <2>1, <2>2, LeastIs
<1>3. ts \in Nat
  BY <1>1, TruncateIs
<1> HIDE DEF k
<1>4. k \in 1..n /\ Truncate(old[k].time) = ts
  BY <1>2
<1> HIDE DEF ts
<1>5. ASSUME NEW i \in k..n PROVE Truncate(old[i].time) = ts
  <2>1. i \in 1..Len(old) /\ k \in 1..Len(old) /\ k <= i /\ i <= n /\ i \in Int /\ k \in Int
    BY <1>1, <1>4
  <2>2. old[k].time <= old[i].time /\ old[i].time <= old[n].time
    <3>1. /\ k < i => old[k].time < old[i].time
          /\ i < n => old[i].time < old[n].time
      BY <2>1, ChainOrder
    <3>2. old[k].time \in Nat /\ old[i].time \in Nat /\ old[n].time \in Nat
      BY <1>1, <2>1
    <3>3. k < i \/ k = i
      BY <2>1
    <3>4. i < n \/ i = n
      BY <1>1, <2>1
    <3> QED
      BY <3>1, <3>2, <3>3, <3>4
  <2>3. ts <= Truncate(old[i].time) /\ Truncate(old[i].time) <= ts
    <3>1. old[k].time \in Nat /\ old[i].time \in Nat /\ old[n].time \in Nat
      BY <1>1, <2>1
    <3> QED
      BY <1>4, <2>2, <3>1, TruncateOrder DEF ts
  <2>4. Truncate(old[i].time) \in Nat
    BY <1>1, <2>1, TruncateIs
  <2> QED
    BY <1>3, <2>3, <2>4
<1>6. /\ part \in Seq(S) /\ Len(part) = m /\ m \in Nat /\ m >= 1
      /\ \A i \in 1..m : part[i] = old[k + i - 1]
  <2>1. \A i \in k..n : old[i] \in S
    BY <1>1, <1>4
  <2>2. k \in Int /\ n \in Int /\ k <= n
    BY <1>1, <1>4
  <2> QED
    BY <2>1, <2>2, SubSeqProperties
<1> HIDE DEF part, m
<1>7. /\ k - 1 \in Nat /\ (k - 1) + Len(part) <= Len(old)
      /\ \A i \in 1..Len(part) : part[i] = old[(k - 1) + i]
  <2>1. k - 1 \in Nat /\ (k - 1) + Len(part) = n /\ n <= Len(old)
    BY <1>1, <1>4, <1>6 DEF m
  <2>2. \A i \in 1..m : k + i - 1 = (k - 1) + i
    BY <1>4, <1>6
  <2> QED
    BY <1>1, <1>6, <2>1, <2>2
<1>8. Chained(part)
  BY <1>6, <1>7, ChainPart
<1>9. \A i \in 1..Len(part) : Truncate(part[i].time) = ts
  <2> TAKE i \in 1..Len(part)
  <2>1. (k - 1) + i \in k..n
    BY <1>1, <1>4, <1>6 DEF m
  <2>2. part[i] = old[(k - 1) + i]
    BY <1>7
  <2> QED
    BY <1>5, <2>1, <2>2
<1>10. part # <<>>
  BY <1>6
<1> DEFINE d == downsampleBucket(ts, part)
<1>11. /\ PointSound(d) /\ d.time = ts /\ d.lo = part[1].lo /\ d.hi = part[Len(part)].hi
       /\ Size(d) \in Nat /\ Size(d) <= Held(part)
  BY <1>3, <1>6, <1>8, <1>9, <1>10, BucketSound
<1>12. LastBucket(old, n) = d
  BY DEF LastBucket, ts, part, k
<1> HIDE DEF d
<1>13. part[1] = old[k] /\ part[Len(part)] = old[n]
  <2>1. 1 \in 1..m /\ m \in 1..m /\ k + 1 - 1 = k /\ k + m - 1 = n
    BY <1>1, <1>4, <1>6 DEF m
  <2> QED
    BY <1>6, <2>1
<1>14. Held(part) = HeldUpto(old)[n] - HeldUpto(old)[k - 1]
  <2>1. \A p \in S : Holds(p)
    BY PointIs
  <2>2. Held(part) = HeldUpto(old)[(k - 1) + Len(part)] - HeldUpto(old)[k - 1]
    BY <1>6, <1>7, <2>1, HeldPart
  <2>3. (k - 1) + Len(part) = n
    BY <1>1, <1>4, <1>6 DEF m
  <2> QED
    BY <2>2, <2>3
<1>15. k > 1 => Truncate(old[k - 1].time) < ts
  <2> SUFFICES ASSUME k > 1 PROVE Truncate(old[k - 1].time) < ts
    OBVIOUS
  <2>1. k - 1 \in 1..n /\ k - 1 \in 1..Len(old) /\ k \in 1..Len(old) /\ ~(k <= k - 1) /\ k - 1 < k
    BY <1>1, <1>4
  <2>2. Truncate(old[k - 1].time) # ts
    BY <1>2, <2>1 DEF ts
  <2>3. old[k - 1].time < old[k].time
    BY <2>1, ChainOrder
  <2>4. Truncate(old[k - 1].time) <= ts
    <3>1. old[k - 1].time \in Nat /\ old[k].time \in Nat
      BY <1>1, <2>1
    <3>2. old[k - 1].time <= old[k].time
      BY <2>3, <3>1
    <3> QED
      BY <1>4, <3>1, <3>2, TruncateOrder
  <2>5. Truncate(old[k - 1].time) \in Nat
    BY <1>1, <2>1, TruncateIs
  <2> QED
    BY <1>3, <2>2, <2>4, <2>5
<1> QED
  BY <1>4, <1>11, <1>12, <1>13, <1>14, <1>15 DEF k, ts
\* The buckets of the first points, one bucket after another.
LEMMA BucketsIs ==
  ASSUME NEW old, Len(old) \in Nat, \A n \in 1..Len(old) : BucketFirst(old, n) \in 1..n
  PROVE  /\ BucketsUpto(old)[0] = <<>>
         /\ \A n \in 1..Len(old) :
              BucketsUpto(old)[n] = Append(BucketsUpto(old)[BucketFirst(old, n) - 1], LastBucket(old, n))
<1> DEFINE m == Len(old)
           begins == [i \in 1..m |-> BucketFirst(old, i)]
           last == [i \in 1..m |-> LastBucket(old, i)]
<1>1. PICK u : Collected(u, m, begins, last)
  <2>1. m \in Nat
    OBVIOUS
  <2>2. \A i \in 1..m : begins[i] \in 1..i
    OBVIOUS
  <2> HIDE DEF begins, last, m
  <2> QED
    BY <2>1, <2>2, BucketsExist
<1>2. u = [i \in 0..m |-> IF i = 0 THEN <<>>
                          ELSE Append(u[BucketFirst(old, i) - 1], LastBucket(old, i))]
  <2>1. ASSUME NEW i \in 0..m, i # 0
        PROVE  begins[i] = BucketFirst(old, i) /\ last[i] = LastBucket(old, i)
    BY <2>1
  <2> HIDE DEF begins, last
  <2> QED
    BY <1>1, <2>1 DEF Collected
<1> DEFINE b == BucketsUpto(old)
<1>3. b = [i \in 0..m |-> IF i = 0 THEN <<>>
                          ELSE Append(b[BucketFirst(old, i) - 1], LastBucket(old, i))]
  BY <1>2 DEF BucketsUpto
<1> HIDE DEF b
<1>4. b[0] = <<>>
  BY <1>3
<1>5. ASSUME NEW n \in 1..m
      PROVE  b[n] = Append(b[BucketFirst(old, n) - 1], LastBucket(old, n))
  <2>1. n \in 0..m /\ n # 0
    OBVIOUS
  <2> QED
    BY <1>3, <2>1
<1> QED
  BY <1>4, <1>5 DEF b

\* The buckets of points in order are in order, stand for the same snapshots and
\* hold no more samples.
LEMMA BucketsSound ==
  ASSUME Recorded, NEW S, \A p \in S : PointSound(p), NEW old \in Seq(S), Chained(old), old # <<>>
  PROVE  LET b == Buckets(old)
             T == {LastBucket(old, n) : n \in 1..Len(old)}
         IN /\ b \in Seq(T) /\ \A p \in T : PointSound(p)
            /\ b # <<>> /\ Chained(b)
            /\ b[Len(b)].hi = old[Len(old)].hi /\ b[Len(b)].time <= old[Len(old)].time
            /\ Held(b) <= Held(old)
<1> DEFINE m == Len(old)
           T == {LastBucket(old, n) : n \in 1..m}
           b == BucketsUpto(old)
           u == HeldUpto(old)
           first(n) == BucketFirst(old, n)
           Good(n) == /\ b[n] \in Seq(T) /\ Chained(b[n]) /\ Held(b[n]) <= u[n]
                      /\ n # 0 => /\ b[n] # <<>>
                                  /\ b[n][Len(b[n])].hi = old[n].hi
                                  /\ b[n][Len(b[n])].time = Truncate(old[n].time)
                      /\ n = 0 => b[n] = <<>>
           Bad == {n \in 0..m : ~Good(n)}
<1>1. m \in Nat /\ m # 0
  BY EmptySeq
<1>2. /\ \A n \in 1..m : /\ first(n) \in 1..n /\ PointSound(LastBucket(old, n))
                         /\ LastBucket(old, n).time = Truncate(old[n].time)
                         /\ LastBucket(old, n).hi = old[n].hi
                         /\ LastBucket(old, n).lo = old[first(n)].lo
                         /\ Size(LastBucket(old, n)) \in Nat
                         /\ Size(LastBucket(old, n)) <= u[n] - u[first(n) - 1]
                         /\ first(n) > 1 => Truncate(old[first(n) - 1].time) < Truncate(old[n].time)
  BY LastBucketSound
<1>3. b[0] = <<>> /\ \A n \in 1..m : b[n] = Append(b[first(n) - 1], LastBucket(old, n))
  <2>1. \A n \in 1..m : BucketFirst(old, n) \in 1..n
    BY <1>2
  <2> QED
    BY <1>1, <2>1, BucketsIs
<1>4. \A p \in S : Holds(p)
  BY PointIs
<1>5. u[0] = 0 /\ \A i \in 0..m : u[i] \in Nat
  BY <1>4, HeldIs
<1>6. \A p \in T : PointSound(p) /\ Holds(p)
  BY <1>2, PointIs
<1> HIDE DEF b, u
<1>7. ASSUME NEW n \in Bad PROVE \E k \in Bad : k < n
  <2> SUFFICES ASSUME \A k \in 0..m : k < n => Good(k) PROVE FALSE
    OBVIOUS
  <2>1. CASE n = 0
    <3>1. Good(0)
      <4>1. <<>> \in Seq(T) /\ Len(<<>>) = 0
        BY EmptySeq
      <4>2. Held(<<>>) = 0
        <5>1. HeldUpto(<<>>)[0] = 0
          <6> HIDE DEF T
          <6> QED
            BY <1>6, <4>1, HeldIs
        <5> QED
          BY <4>1, <5>1 DEF Held
      <4>3. Chained(<<>>)
        BY <4>1 DEF Chained
      <4> HIDE DEF T
      <4> QED
        BY <1>3, <1>5, <4>1, <4>2, <4>3
    <3> HIDE DEF Good
    <3> QED
      BY <2>1, <3>1
  <2>2. CASE n # 0
    <3> DEFINE f == first(n)
               p == LastBucket(old, n)
               c == b[f - 1]
    <3>1. n \in 1..m /\ f \in 1..n /\ f - 1 \in 0..m /\ f - 1 < n /\ p \in T /\ f - 1 \in Nat
      <4>1. n \in 1..m
        BY <1>1, <2>2
      <4>2. f \in 1..n
        BY <1>2, <4>1
      <4> HIDE DEF f
      <4> QED
        BY <1>1, <4>1, <4>2
    <3>2. Good(f - 1)
      <4> HIDE DEF Good, f
      <4> QED
        BY <3>1
    <3>3. b[n] = Append(c, p) /\ c \in Seq(T) /\ Chained(c)
      BY <1>3, <3>1, <3>2
    <3>4. c # <<>> => c[Len(c)].time < p.time /\ c[Len(c)].hi + 1 = p.lo
      <4> SUFFICES ASSUME c # <<>> PROVE c[Len(c)].time < p.time /\ c[Len(c)].hi + 1 = p.lo
        OBVIOUS
      <4>1. f - 1 # 0
        BY <3>2
      <4>2. c[Len(c)].hi = old[f - 1].hi /\ c[Len(c)].time = Truncate(old[f - 1].time)
        BY <3>2, <4>1
      <4>3. f > 1
        BY <3>1, <4>1
      <4>4. Truncate(old[f - 1].time) < p.time /\ p.lo = old[f].lo
        BY <1>2, <3>1, <4>3
      <4>5. old[f - 1].hi + 1 = old[f].lo
        <5> HIDE DEF f
        <5>1. f - 1 \in 1..(m - 1) /\ f - 1 + 1 = f
          BY <1>1, <3>1, <4>3
        <5> QED
          BY <5>1 DEF Chained
      <4> HIDE DEF c, f, p
      <4> QED
        BY <4>2, <4>4, <4>5
    <3>5. /\ b[n] \in Seq(T) /\ Len(b[n]) = Len(c) + 1 /\ b[n][Len(c) + 1] = p /\ Len(c) \in Nat
      <4> HIDE DEF c, p, T
      <4> QED
        BY <3>1, <3>3, AppendProperties
    <3>6. Chained(b[n])
      <4> HIDE DEF c, p, T
      <4> QED
        BY <3>1, <3>3, <3>4, ChainAppend
    <3>7. Held(b[n]) = Held(c) + Size(p) /\ Held(c) \in Nat
      <4> HIDE DEF c, p, T
      <4> QED
        BY <1>6, <3>1, <3>3, HeldAppend
    <3>8. Held(c) <= u[f - 1] /\ u[f - 1] \in Nat /\ u[n] \in Nat
      BY <1>5, <3>1, <3>2
    <3>9. Size(p) \in Nat /\ Size(p) <= u[n] - u[f - 1]
      BY <1>2, <3>1
    <3>10. Held(b[n]) <= u[n]
      <4> HIDE DEF c, p, f
      <4> QED
        BY <3>7, <3>8, <3>9
    <3>11. b[n] # <<>> /\ b[n][Len(b[n])].hi = old[n].hi /\ b[n][Len(b[n])].time = Truncate(old[n].time)
      <4>1. p.hi = old[n].hi /\ p.time = Truncate(old[n].time)
        BY <1>2, <3>1
      <4>2. b[n][Len(b[n])] = p
        BY <3>5
      <4>3. b[n] # <<>>
        <5> HIDE DEF c, p, T
        <5> QED
          BY <3>5, EmptySeq
      <4> HIDE DEF p
      <4> QED
        BY <4>1, <4>2, <4>3
    <3>12. Good(n)
      <4> HIDE DEF T
      <4> QED
        BY <2>2, <3>5, <3>6, <3>10, <3>11
    <3> QED
      BY <3>12
  <2> QED
    BY <2>1, <2>2
<1>8. Bad = {}
  <2> HIDE DEF Bad
  <2>1. Bad \in SUBSET Nat
    BY <1>1 DEF Bad
  <2> QED
    BY <1>7, <2>1, NoLeast
<1>9. Good(m)
  <2>1. m \in 0..m
    BY <1>1
  <2> HIDE DEF Good
  <2> QED
    BY <1>8, <2>1
<1>10. Truncate(old[m].time) <= old[m].time
  <2>1. m \in 1..m /\ old[m].time \in Nat
    BY <1>1, PointIs
  <2> QED
    BY <2>1, TruncateIs
<1> QED
  BY <1>1, <1>6, <1>9, <1>10 DEF Buckets, Held, b, u

-----------------------------------------------------------------------------
(* The invariant.                                                          *)

Parts(ps) == {ps[i] : i \in 1..Len(ps)}

\* The points are sound, follow one another, and end with the newest snapshot.
PointsSound ==
  /\ points \in Seq(Parts(points)) /\ \A p \in Parts(points) : PointSound(p)
  /\ Chained(points)
  /\ points # <<>> => points[Len(points)].hi = Len(recorded)

StatsInv ==
  /\ clock \in 0..MaxClock /\ due \in {"none", "evict", "downsample"}
  /\ Recorded /\ PointsSound /\ SamplesExact

\* The points are themselves the least set they are points of.
LEMMA PartsOf ==
  ASSUME NEW S, NEW ps \in Seq(S)
  PROVE  ps \in Seq(Parts(ps)) /\ Parts(ps) \subseteq S
<1>1. ps \in Seq(Range(ps))
  BY SeqOfRange
<1>2. Range(ps) = Parts(ps)
  <2>1. DOMAIN ps = 1..Len(ps)
    OBVIOUS
  <2> QED
    BY <2>1 DEF Range, Parts
<1>3. Parts(ps) \subseteq S
  BY DEF Parts
<1> QED
  BY <1>1, <1>2, <1>3

\* What is left of points without the first n.
LEMMA DropIs ==
  ASSUME NEW S, \A p \in S : Holds(p), NEW ps \in Seq(S), NEW n \in 0..Len(ps)
  PROVE  LET q == dropOldest(ps, n)
         IN /\ q \in Seq(S) /\ Len(q) = Len(ps) - n
            /\ \A i \in 1..Len(q) : q[i] = ps[n + i]
            /\ Held(q) = Held(ps) - Held(SubSeq(ps, 1, n))
            /\ Held(q) \in Nat /\ Held(SubSeq(ps, 1, n)) \in Nat
            /\ SubSeq(ps, 1, n) \in Seq(S) /\ Len(SubSeq(ps, 1, n)) = n
            /\ \A i \in 1..n : SubSeq(ps, 1, n)[i] = ps[i]
<1> DEFINE q == dropOldest(ps, n)
           front == SubSeq(ps, 1, n)
<1>1. Len(ps) \in Nat /\ n \in Nat /\ n <= Len(ps)
  OBVIOUS
<1>2. /\ front \in Seq(S) /\ Len(front) = n
      /\ \A i \in 1..n : front[i] = ps[i]
  <2>1. \A i \in 1..n : ps[i] \in S
    BY <1>1
  <2>2. /\ front \in Seq(S) /\ Len(front) = IF 1 <= n THEN n - 1 + 1 ELSE 0
        /\ \A i \in 1..(n - 1 + 1) : front[i] = ps[1 + i - 1]
    BY <1>1, <2>1, SubSeqProperties
  <2> HIDE DEF front
  <2>3. n - 1 + 1 = n /\ \A i \in 1..n : 1 + i - 1 = i
    BY <1>1
  <2> QED
    BY <1>1, <2>2, <2>3
<1>3. /\ q \in Seq(S) /\ Len(q) = Len(ps) - n
      /\ \A i \in 1..(Len(ps) - n) : q[i] = ps[n + i]
  <2>1. \A i \in (n + 1)..Len(ps) : ps[i] \in S
    BY <1>1
  <2>2. /\ q \in Seq(S) /\ Len(q) = IF n + 1 <= Len(ps) THEN Len(ps) - (n + 1) + 1 ELSE 0
        /\ \A i \in 1..(Len(ps) - (n + 1) + 1) : q[i] = ps[(n + 1) + i - 1]
    BY <1>1, <2>1, SubSeqProperties DEF dropOldest
  <2> HIDE DEF q
  <2>3. Len(ps) - (n + 1) + 1 = Len(ps) - n
    BY <1>1
  <2>4. Len(q) = Len(ps) - n
    <3> DEFINE m == Len(ps)
    <3>1. Len(q) = IF n + 1 <= m THEN m - (n + 1) + 1 ELSE 0
      BY <2>2
    <3>2. m \in Nat /\ n \in Nat /\ n <= m
      BY <1>1
    <3> HIDE DEF m
    <3>3. Len(q) = m - n
      BY <3>1, <3>2
    <3> QED
      BY <3>3 DEF m
  <2>5. ASSUME NEW i \in 1..(Len(ps) - n) PROVE q[i] = ps[n + i]
    <3>1. q[i] = ps[(n + 1) + i - 1]
      BY <2>2, <2>3
    <3>2. (n + 1) + i - 1 = n + i
      BY <1>1
    <3> QED
      BY <3>1, <3>2
  <2> QED
    BY <2>2, <2>4, <2>5
<1> HIDE DEF q, front
<1>4. Held(front) = HeldUpto(ps)[0 + n] - HeldUpto(ps)[0]
  <2>1. 0 + Len(front) <= Len(ps) /\ 0 \in Nat /\ \A i \in 1..Len(front) : front[i] = ps[0 + i]
    BY <1>1, <1>2
  <2> QED
    BY <1>2, <2>1, HeldPart
<1>5. Held(q) = HeldUpto(ps)[n + (Len(ps) - n)] - HeldUpto(ps)[n]
  <2>1. n + Len(q) <= Len(ps) /\ \A i \in 1..Len(q) : q[i] = ps[n + i]
    BY <1>1, <1>3
  <2>2. Held(q) = HeldUpto(ps)[n + Len(q)] - HeldUpto(ps)[n]
    BY <1>1, <1>3, <2>1, HeldPart
  <2> QED
    BY <1>3, <2>2
<1>6. /\ HeldUpto(ps)[0] = 0 /\ HeldUpto(ps)[n] \in Nat /\ HeldUpto(ps)[Len(ps)] \in Nat
      /\ 0 + n = n /\ n + (Len(ps) - n) = Len(ps)
  <2>1. n \in 0..Len(ps) /\ Len(ps) \in 0..Len(ps)
    BY <1>1
  <2> QED
    BY <1>1, <2>1, HeldIs
<1>7. Held(q) \in Nat /\ Held(front) \in Nat
  <2>1. Held(q) \in Nat
    <3>1. Len(q) \in 0..Len(q)
      BY <1>1, <1>3
    <3> QED
      BY <1>3, <3>1, HeldIs DEF Held
  <2>2. Held(front) \in Nat
    <3>1. Len(front) \in 0..Len(front)
      BY <1>1, <1>2
    <3> QED
      BY <1>2, <3>1, HeldIs DEF Held
  <2> QED
    BY <2>1, <2>2
<1>8. Held(q) = Held(ps) - Held(front)
  BY <1>4, <1>5, <1>6 DEF Held
<1> QED
  BY <1>2, <1>3, <1>7, <1>8 DEF q, front

\* The points from before a time are the first ones.
LEMMA BeforeIs ==
  ASSUME NEW S, NEW ps \in Seq(S), NEW time
  PROVE  Before(ps, time) \in 0..Len(ps)
<1> DEFINE stop == {i \in 1..Len(ps) : ps[i].time >= time}
<1>1. Len(ps) \in Nat
  OBVIOUS
<1>2. CASE stop = {}
  BY <1>1, <1>2 DEF Before
<1>3. CASE stop # {}
  <2>1. stop \in SUBSET Nat
    BY <1>1
  <2>2. Min(stop) \in 1..Len(ps)
    <3>1. stop \subseteq 1..Len(ps)
      OBVIOUS
    <3> HIDE DEF stop
    <3> QED
      BY <1>3, <2>1, <3>1, LeastIs
  <2>3. Before(ps, time) = Min(stop) - 1
    BY <1>3 DEF Before
  <2> HIDE DEF stop
  <2> QED
    BY <1>1, <2>2, <2>3
<1> QED
  BY <1>2, <1>3

\* What goes is enough for the rest to fit, and the newest point stays.
LEMMA ExcessIs ==
  ASSUME NEW S, NEW ps \in Seq(S), ps # <<>>, NEW held
  PROVE  LET n == Excess(ps, held)
         IN /\ n \in 0..(Len(ps) - 1)
            /\ held - Held(SubSeq(ps, 1, n)) <= maxHistorySamples \/ n = Len(ps) - 1
<1> DEFINE go == {i \in 0..(Len(ps) - 1) :
                    held - Held(SubSeq(ps, 1, i)) <= maxHistorySamples \/ i = Len(ps) - 1}
<1>1. Len(ps) \in Nat /\ Len(ps) # 0
  BY EmptySeq
<1>2. go \in SUBSET Nat /\ Len(ps) - 1 \in go
  BY <1>1
<1>3. Min(go) \in go
  <2> HIDE DEF go
  <2> QED
    BY <1>2, LeastIs
<1>4. Excess(ps, held) = Min(go)
  BY DEF Excess
<1> DEFINE n == Excess(ps, held)
<1>5. n \in go
  BY <1>3, <1>4
<1> HIDE DEF n
<1>6. n \in 0..(Len(ps) - 1) /\ (held - Held(SubSeq(ps, 1, n)) <= maxHistorySamples \/ n = Len(ps) - 1)
  BY <1>5
<1> QED
  BY <1>6 DEF n

-----------------------------------------------------------------------------
(* The steps.                                                              *)

\* What snapshots arrive later changes nothing for a point.
LEMMA StillSound ==
  ASSUME Recorded, NEW e, recorded' = Append(recorded, e), NEW p, PointSound(p)
  PROVE  PointSound(p)'
<1>1. Len(recorded) \in Nat /\ Len(recorded') = Len(recorded) + 1
  BY DEF Recorded
<1>2. \A i \in 1..Len(recorded) : recorded'[i] = recorded[i]
  BY DEF Recorded
<1>3. /\ p.lo \in 1..Len(recorded) /\ p.hi \in p.lo..Len(recorded)
      /\ p.lo \in 1..Len(recorded') /\ p.hi \in p.lo..Len(recorded')
      /\ p.lo..p.hi \subseteq 1..Len(recorded) /\ p.hi \in 1..Len(recorded)
  <2>1. p.lo \in 1..Len(recorded) /\ p.hi \in p.lo..Len(recorded)
    BY DEF PointSound
  <2> QED
    BY <1>1, <2>1
<1>4. \A n : Sources(p, n)' = Sources(p, n)
  <2>1. \A id \in p.lo..p.hi : recorded'[id] = recorded[id]
    BY <1>2, <1>3
  <2> QED
    BY <2>1 DEF Sources
<1>5. recorded'[p.lo] = recorded[p.lo] /\ recorded'[p.hi] = recorded[p.hi]
  BY <1>2, <1>3
<1> QED
  BY <1>3, <1>4, <1>5 DEF PointSound

\* A snapshot's point stands for it.
LEMMA NewSound ==
  ASSUME Recorded, clock \in Nat, NEW s \in Snapshot, NEW id, id = Len(recorded) + 1,
         recorded' = Append(recorded, [time |-> clock, stats |-> s]),
         NEW p, p.time = clock, p.lo = id, p.hi = id,
         p.stats = [n \in DOMAIN s |-> [cpu |-> s[n], mem |-> id]]
  PROVE  PointSound(p)'
<1>1. Len(recorded) \in Nat /\ Len(recorded') = Len(recorded) + 1 /\ id \in Nat /\ id >= 1
  BY DEF Recorded
<1>2. recorded'[id] = [time |-> clock, stats |-> s]
  BY DEF Recorded
<1>3. recorded'[id].time = clock /\ recorded'[id].stats = s
  BY <1>2
<1>4. Names(p) = DOMAIN s /\ DOMAIN s \subseteq Name
  BY StatsAssumption DEF Names
<1>5. id \in 1..Len(recorded') /\ id \in id..Len(recorded') /\ id..id = {id}
  BY <1>1
<1>6. \A n : Sources(p, n)' = IF n \in DOMAIN s THEN {id} ELSE {}
  <2> TAKE n
  <2>1. Sources(p, n)' = {k \in {id} : n \in DOMAIN recorded'[k].stats}
    BY <1>5 DEF Sources
  <2> QED
    BY <1>3, <2>1
<1>7. \A n \in DOMAIN s : p.stats[n].mem = id
  OBVIOUS
<1>8. \A n \in Name \ Names(p) : Sources(p, n)' = {}
  BY <1>4, <1>6
<1>9. \A n \in Names(p) : /\ p.stats[n].mem \in Sources(p, n)'
                          /\ \A k \in Sources(p, n)' : k <= p.stats[n].mem
  <2> TAKE n \in Names(p)
  <2>1. Sources(p, n)' = {id} /\ p.stats[n].mem = id
    BY <1>4, <1>6, <1>7
  <2> QED
    BY <1>1, <2>1
<1>10. p.time \in Nat /\ p.time <= recorded'[p.lo].time
       /\ Truncate(recorded'[p.hi].time) = Truncate(p.time)
  BY <1>3
<1>11. p.lo \in 1..Len(recorded') /\ p.hi \in p.lo..Len(recorded')
  BY <1>5
<1> QED
  BY <1>4, <1>8, <1>9, <1>10, <1>11 DEF PointSound

\* What shows the points sound after a step.
LEMMA PointsAre ==
  ASSUME NEW S, points' \in Seq(S), \A p \in S : PointSound(p)', Chained(points'),
         points' # <<>> => points'[Len(points')].hi = Len(recorded')
  PROVE  PointsSound'
<1>1. points' \in Seq(Parts(points')) /\ Parts(points') \subseteq S
  BY PartsOf
<1>2. Parts(points)' = Parts(points')
  BY DEF Parts
<1>3. Chained(points)' = Chained(points')
  BY DEF Chained
<1>4. (\A p \in Parts(points) : PointSound(p))'
  BY <1>1, <1>2
<1> QED
  BY <1>1, <1>2, <1>3, <1>4 DEF PointsSound

\* The history starts empty.
LEMMA StatsStarts ==
  ASSUME StatsInit
  PROVE  StatsInv
<1>1. <<>> \in Seq({}) /\ Len(<<>>) = 0
  OBVIOUS
<1>2. Held(points) = 0
  <2>1. HeldUpto(<<>>)[0] = 0
    BY <1>1, HeldIs
  <2> QED
    BY <1>1, <2>1 DEF Held, StatsInit
<1>3. Recorded
  BY DEF Recorded, StatsInit
<1>4. PointsSound
  <2>1. Parts(points) = {} /\ points \in Seq({})
    BY <1>1 DEF Parts, StatsInit
  <2>2. Chained(points)
    BY <1>1 DEF Chained, StatsInit
  <2> QED
    BY <2>1, <2>2 DEF PointsSound, StatsInit
<1>5. SamplesExact
  BY <1>2, StatsAssumption DEF SamplesExact, StatsInit
<1>6. clock \in 0..MaxClock /\ due \in {"none", "evict", "downsample"}
  BY StatsAssumption DEF StatsInit
<1> QED
  BY <1>3, <1>4, <1>5, <1>6 DEF StatsInv

\* A snapshot's point comes after the others, and the oldest go to make room.
LEMMA RecordKeeps ==
  ASSUME StatsInv, NEW s \in Snapshot, Record(s)
  PROVE  StatsInv'
<1> DEFINE id == Len(recorded) + 1
           new == [time |-> clock, lo |-> id, hi |-> id,
                   stats |-> [n \in DOMAIN s |-> [cpu |-> s[n], mem |-> id]]]
           S == Parts(points) \union {new}
           all == Append(points, new)
           held == samples + Size(new)
           n == Excess(all, held)
           e == [time |-> clock, stats |-> s]
<1>1. /\ points' = dropOldest(all, n) /\ samples' = held - Held(SubSeq(all, 1, n))
      /\ recorded' = Append(recorded, e)
      /\ clock' = clock /\ due' = due
      /\ \A i \in 1..Len(recorded) : recorded[i].time < clock
  BY DEF Record
<1>2. /\ Recorded /\ clock \in Nat /\ clock \in 0..MaxClock /\ due \in {"none", "evict", "downsample"}
      /\ points \in Seq(Parts(points)) /\ \A p \in Parts(points) : PointSound(p)
      /\ Chained(points)
      /\ points # <<>> => points[Len(points)].hi = Len(recorded)
      /\ samples = Held(points)
  BY DEF StatsInv, PointsSound, SamplesExact
<1>3. Recorded' /\ Len(recorded') = id /\ Len(recorded) \in Nat
  BY <1>1, <1>2 DEF Recorded
<1>4. ASSUME NEW p, p = new PROVE PointSound(p)'
  <2>1. p.time = clock /\ p.lo = id /\ p.hi = id
        /\ p.stats = [k \in DOMAIN s |-> [cpu |-> s[k], mem |-> id]]
    BY <1>4
  <2>2. id = Len(recorded) + 1
    OBVIOUS
  <2> HIDE DEF id, new, all
  <2> QED
    BY <1>1, <1>2, <2>1, <2>2, NewSound
<1>5. ASSUME NEW p \in S PROVE PointSound(p)' /\ Holds(p)
  <2>1. ASSUME p \in Parts(points) PROVE PointSound(p)' /\ Holds(p)
    <3>1. PointSound(p) /\ Recorded
      BY <1>2, <2>1
    <3>2. PointSound(p)'
      BY <1>1, <3>1, StillSound
    <3> QED
      BY <3>1, <3>2, PointIs
  <2>2. ASSUME p = new PROVE PointSound(p)' /\ Holds(p)
    <3>1. Names(p) \subseteq Name
      <4>1. Names(p) = DOMAIN s
        BY <2>2 DEF Names
      <4> QED
        BY <4>1, StatsAssumption
    <3> HIDE DEF new
    <3> QED
      BY <1>4, <2>2, <3>1 DEF Holds
  <2> HIDE DEF new
  <2> QED
    BY <2>1, <2>2
<1>6. points \in Seq(S) /\ new \in S /\ new.time = clock /\ new.lo = id /\ new.hi = id
  <2>1. points \in Seq(Parts(points))
    BY <1>2
  <2>0. Parts(points) \subseteq S
    OBVIOUS
  <2>2. new \in S /\ new.time = clock /\ new.lo = id /\ new.hi = id
    OBVIOUS
  <2> HIDE DEF S
  <2>3. points \in Seq(S)
    BY <2>0, <2>1
  <2> HIDE DEF new
  <2> QED
    BY <2>2, <2>3
<1>7. points # <<>> => points[Len(points)].time < clock /\ points[Len(points)].hi + 1 = id
  <2> SUFFICES ASSUME points # <<>>
               PROVE  points[Len(points)].time < clock /\ points[Len(points)].hi + 1 = id
    OBVIOUS
  <2> DEFINE p == points[Len(points)]
  <2>1. Len(points) \in 1..Len(points)
    BY <1>2, EmptySeq
  <2>2. PointSound(p)
    BY <1>2, <2>1 DEF Parts
  <2>3. p.hi = Len(recorded)
    BY <1>2
  <2> HIDE DEF p
  <2>4. p.time \in Nat /\ p.lo \in 1..Len(recorded) /\ p.time <= recorded[p.lo].time
    BY <2>2 DEF PointSound
  <2>5. recorded[p.lo].time < clock
    BY <1>1, <2>4
  <2>6. recorded[p.lo].time \in Nat
    <3> DEFINE k == p.lo
    <3>1. k \in 1..Len(recorded) /\ recorded \in Seq([time : Nat, stats : Snapshot])
      BY <1>2, <2>4 DEF Recorded
    <3> HIDE DEF k
    <3>2. recorded[k] \in [time : Nat, stats : Snapshot]
      BY <3>1, ElementOfSeq
    <3>3. recorded[k].time \in Nat
      BY <3>2
    <3> QED
      BY <3>3 DEF k
  <2>7. p.time < clock
    BY <1>2, <2>4, <2>5, <2>6
  <2> QED
    BY <2>3, <2>7 DEF p
<1> HIDE DEF id, new, S, all, held, n, e
<1>8. /\ all \in Seq(S) /\ Chained(all) /\ Held(all) = held
      /\ Len(all) \in Nat /\ Len(all) >= 1 /\ all[Len(all)] = new /\ all # <<>>
  <2>1. Chained(all)
    <3>1. points # <<>> => points[Len(points)].time < new.time /\ points[Len(points)].hi + 1 = new.lo
      BY <1>6, <1>7
    <3>2. Chained(Append(points, new))
      BY <1>2, <1>6, <3>1, ChainAppend
    <3> QED
      BY <3>2 DEF all
  <2>2. Held(all) = Held(points) + Size(new)
    BY <1>5, <1>6, HeldAppend DEF all
  <2>3. all \in Seq(S) /\ Len(all) = Len(points) + 1 /\ all[Len(points) + 1] = new
    BY <1>6, AppendProperties DEF all
  <2>4. Len(points) \in Nat
    BY <1>6
  <2>5. Len(all) \in Nat /\ Len(all) >= 1
    BY <2>3, <2>4
  <2>6. all # <<>>
    BY <2>5
  <2> QED
    BY <1>2, <2>1, <2>2, <2>3, <2>5, <2>6 DEF held
<1>9. /\ n \in 0..(Len(all) - 1)
      /\ held - Held(SubSeq(all, 1, n)) <= maxHistorySamples \/ n = Len(all) - 1
  BY <1>8, ExcessIs DEF n
<1>10. /\ points' \in Seq(S) /\ Len(points') = Len(all) - n
       /\ \A i \in 1..Len(points') : points'[i] = all[n + i]
       /\ Held(points') = Held(all) - Held(SubSeq(all, 1, n))
  <2>1. n \in 0..Len(all)
    BY <1>8, <1>9
  <2> QED
    BY <1>1, <1>5, <1>8, <2>1, DropIs
<1>11. Chained(points')
  <2>1. n \in Nat /\ n + Len(points') <= Len(all)
    BY <1>8, <1>9, <1>10
  <2> QED
    BY <1>8, <1>10, <2>1, ChainPart
<1>12. points'[Len(points')].hi = Len(recorded')
  <2>1. Len(points') \in 1..Len(points') /\ n + Len(points') = Len(all)
    BY <1>8, <1>9, <1>10
  <2>2. points'[Len(points')] = new
    BY <1>8, <1>10, <2>1
  <2> QED
    BY <1>3, <1>6, <2>2
<1>13. PointsSound'
  BY <1>5, <1>10, <1>11, <1>12, PointsAre
<1>14. SamplesExact'
  <2>1. samples' = Held(points')
    BY <1>1, <1>8, <1>10
  <2>2. n = Len(all) - 1 => Len(points') = 1
    BY <1>8, <1>9, <1>10
  <2>3. samples' <= maxHistorySamples \/ Len(points') = 1
    BY <1>1, <1>9, <2>2
  <2>4. Held(points)' = Held(points')
    BY DEF Held, HeldUpto
  <2> QED
    BY <2>1, <2>3, <2>4 DEF SamplesExact
<1> QED
  BY <1>1, <1>2, <1>3, <1>13, <1>14 DEF StatsInv

\* A point is as sound after a step that records nothing.
LEMMA SameSound ==
  ASSUME UNCHANGED recorded, NEW p, PointSound(p)
  PROVE  PointSound(p)'
BY DEF PointSound, Sources

\* Nothing but the clock or the task.
LEMMA RestKeeps ==
  ASSUME StatsInv, UNCHANGED <<points, samples, recorded>>, clock' \in 0..MaxClock,
         due' \in {"none", "evict", "downsample"}
  PROVE  StatsInv'
<1>1. /\ Recorded /\ points \in Seq(Parts(points)) /\ \A p \in Parts(points) : PointSound(p)
      /\ Chained(points)
      /\ points # <<>> => points[Len(points)].hi = Len(recorded)
  BY DEF StatsInv, PointsSound
<1>2. \A p \in Parts(points) : PointSound(p)'
  BY <1>1, SameSound
<1>3. points' = points
  OBVIOUS
<1>4. PointsSound'
  BY <1>1, <1>2, <1>3, PointsAre
<1>5. SamplesExact' /\ Recorded'
  BY DEF StatsInv, SamplesExact, Held, HeldUpto, Recorded
<1> QED
  BY <1>4, <1>5 DEF StatsInv

\* The points from before the retention period go.
LEMMA EvictKeeps ==
  ASSUME StatsInv, Evict
  PROVE  StatsInv'
<1> DEFINE S == Parts(points)
           n == Before(points, clock - retention)
<1>1. /\ points' = dropOldest(points, n) /\ samples' = samples - Held(SubSeq(points, 1, n))
      /\ recorded' = recorded /\ clock' = clock /\ due' = "downsample"
  BY DEF Evict
<1>2. /\ Recorded /\ clock \in 0..MaxClock
      /\ points \in Seq(S) /\ \A p \in S : PointSound(p)
      /\ Chained(points)
      /\ points # <<>> => points[Len(points)].hi = Len(recorded)
      /\ samples = Held(points)
      /\ samples <= maxHistorySamples \/ Len(points) = 1
  BY DEF StatsInv, PointsSound, SamplesExact
<1>3. \A p \in S : PointSound(p)' /\ Holds(p)
  BY <1>1, <1>2, SameSound, PointIs
<1> HIDE DEF S
<1>4. n \in 0..Len(points) /\ Len(points) \in Nat
  BY <1>2, BeforeIs
<1> HIDE DEF n
<1>5. /\ points' \in Seq(S) /\ Len(points') = Len(points) - n
      /\ \A i \in 1..Len(points') : points'[i] = points[n + i]
      /\ Held(points') = samples - Held(SubSeq(points, 1, n))
      /\ Held(points') \in Nat /\ Held(SubSeq(points, 1, n)) \in Nat
  BY <1>1, <1>2, <1>3, <1>4, DropIs
<1>6. Chained(points')
  <2>1. n \in Nat /\ n + Len(points') <= Len(points)
    BY <1>4, <1>5
  <2> QED
    BY <1>2, <1>5, <2>1, ChainPart
<1>7. points' # <<>> => points'[Len(points')].hi = Len(recorded')
  <2> SUFFICES ASSUME points' # <<>> PROVE points'[Len(points')].hi = Len(recorded')
    OBVIOUS
  <2>1. Len(points') \in 1..Len(points')
    BY <1>5, EmptySeq
  <2>2. points'[Len(points')] = points[n + Len(points')] /\ n + Len(points') = Len(points)
    BY <1>4, <1>5, <2>1
  <2>3. points # <<>>
    <3>1. Len(points) # 0
      BY <1>4, <1>5, <2>1
    <3> QED
      BY <3>1
  <2> QED
    BY <1>1, <1>2, <2>2, <2>3
<1>8. PointsSound'
  BY <1>3, <1>5, <1>6, <1>7, PointsAre
<1>9. SamplesExact'
  <2>0. samples \in Nat
    BY <1>2, <1>3, HeldNat
  <2>1. samples' = Held(points') /\ samples' \in Nat
    BY <1>1, <1>5
  <2>2. samples' <= samples
    <3> DEFINE h == Held(SubSeq(points, 1, n))
    <3>1. samples' = samples - h /\ h \in Nat
      BY <1>1, <1>5
    <3> HIDE DEF h
    <3> QED
      BY <2>0, <3>1
  <2>3. samples' <= maxHistorySamples \/ Len(points') = 1
    <3>1. CASE Len(points) = 1 /\ Len(points') # 1
      <4>1. Len(points') = 0
        BY <1>4, <1>5, <3>1
      <4>2. HeldUpto(points')[0] = 0
        BY <1>3, <1>5, HeldIs
      <4>3. samples' = 0
        BY <2>1, <4>1, <4>2 DEF Held
      <4> QED
        BY <4>3, StatsAssumption
    <3>2. CASE samples <= maxHistorySamples
      <4>1. samples \in Nat /\ maxHistorySamples \in Nat
        BY <2>0, <2>1, StatsAssumption
      <4> QED
        BY <2>1, <2>2, <3>2, <4>1
    <3> QED
      BY <1>2, <3>1, <3>2
  <2>4. Held(points)' = Held(points')
    BY DEF Held, HeldUpto
  <2> QED
    BY <2>1, <2>3, <2>4 DEF SamplesExact
<1>10. Recorded'
  BY <1>1, <1>2 DEF Recorded
<1> QED
  BY <1>1, <1>2, <1>8, <1>9, <1>10 DEF StatsInv

\* Buckets take the place of the points they merge, and hold no more samples.
LEMMA DownsampleKeeps ==
  ASSUME StatsInv, Downsample
  PROVE  StatsInv'
<1> DEFINE n == Before(points, clock - recentFor)
           old == SubSeq(points, 1, n)
           rest == dropOldest(points, n)
           b == Buckets(old)
           result == b \o rest
           T == {LastBucket(old, i) : i \in 1..Len(old)}
           S == Parts(points)
<1>1. /\ recorded' = recorded /\ clock' = clock /\ due' = "none"
      /\ n < 2 => UNCHANGED <<points, samples>>
      /\ ~(n < 2) => points' = result /\ samples' = Held(result)
  BY DEF Downsample
<1>2. /\ Recorded /\ clock \in 0..MaxClock
      /\ points \in Seq(S) /\ \A p \in S : PointSound(p)
      /\ Chained(points)
      /\ points # <<>> => points[Len(points)].hi = Len(recorded)
      /\ samples = Held(points)
      /\ samples <= maxHistorySamples \/ Len(points) = 1
  BY DEF StatsInv, PointsSound, SamplesExact
<1>3. CASE n < 2
  BY <1>1, <1>2, <1>3, RestKeeps
<1>4. CASE ~(n < 2)
  <2>0. \A p \in S : Holds(p)
    BY <1>2, PointIs
  <2>1. n \in 0..Len(points) /\ Len(points) \in Nat
    BY <1>2, BeforeIs
  <2> HIDE DEF n, S
  <2>2. /\ rest \in Seq(S) /\ Len(rest) = Len(points) - n
        /\ \A i \in 1..Len(rest) : rest[i] = points[n + i]
        /\ Held(rest) = Held(points) - Held(old)
        /\ Held(rest) \in Nat /\ Held(old) \in Nat
        /\ old \in Seq(S) /\ Len(old) = n
        /\ \A i \in 1..n : old[i] = points[i]
    BY <1>2, <2>0, <2>1, DropIs
  <2> HIDE DEF rest, old
  <2>3. Chained(rest)
    <3>1. n \in Nat /\ n + Len(rest) <= Len(points)
      BY <2>1, <2>2
    <3> QED
      BY <1>2, <2>2, <3>1, ChainPart
  <2>4. Chained(old) /\ old # <<>>
    <3>1. 0 \in Nat /\ 0 + Len(old) <= Len(points) /\ \A i \in 1..Len(old) : old[i] = points[0 + i]
      BY <2>1, <2>2
    <3>2. Len(old) # 0
      BY <1>4, <2>1, <2>2
    <3>3. Chained(old)
      BY <1>2, <2>2, <3>1, ChainPart
    <3> QED
      BY <3>2, <3>3
  <2>5. /\ b \in Seq(T) /\ \A p \in T : PointSound(p)
        /\ b # <<>> /\ Chained(b)
        /\ b[Len(b)].hi = old[Len(old)].hi /\ b[Len(b)].time <= old[Len(old)].time
        /\ Held(b) <= Held(old)
    BY <1>2, <2>2, <2>4, BucketsSound
  <2> HIDE DEF b, T
  <2> DEFINE A == S \union T
  <2>6. /\ b \in Seq(A) /\ rest \in Seq(A)
        /\ \A p \in A : PointSound(p)' /\ Holds(p)
    <3>1. S \subseteq A /\ T \subseteq A /\ \A p \in A : PointSound(p)
      BY <1>2, <2>5
    <3> HIDE DEF A
    <3>2. b \in Seq(A) /\ rest \in Seq(A)
      BY <2>2, <2>5, <3>1
    <3>3. \A p \in A : PointSound(p)' /\ Holds(p)
      BY <1>1, <1>2, <3>1, SameSound, PointIs
    <3> QED
      BY <3>2, <3>3
  <2> HIDE DEF A
  <2>7. rest # <<>> => b[Len(b)].time < rest[1].time /\ b[Len(b)].hi + 1 = rest[1].lo
    <3> SUFFICES ASSUME rest # <<>>
                 PROVE  b[Len(b)].time < rest[1].time /\ b[Len(b)].hi + 1 = rest[1].lo
      OBVIOUS
    <3>1. Len(rest) # 0
      BY <2>2, EmptySeq
    <3>2. 1 \in 1..Len(rest) /\ n \in 1..(Len(points) - 1) /\ n \in 1..n
          /\ n \in 1..Len(points) /\ n + 1 \in 1..Len(points)
      BY <1>4, <2>1, <2>2, <3>1
    <3>3. old[n] = points[n] /\ rest[1] = points[n + 1]
      BY <2>2, <3>2
    <3>4. points[n].time < points[n + 1].time /\ points[n].hi + 1 = points[n + 1].lo
      BY <1>2, <3>2 DEF Chained
    <3>5. b[Len(b)].time \in Nat /\ points[n].time \in Nat /\ points[n + 1].time \in Nat
      <4>1. PointSound(points[n]) /\ PointSound(points[n + 1])
        BY <1>2, <3>2 DEF S, Parts
      <4>2. Len(b) \in 1..Len(b)
        BY <2>5, EmptySeq
      <4>3. PointSound(b[Len(b)])
        BY <2>5, <4>2
      <4> QED
        BY <4>1, <4>3 DEF PointSound
    <3>6. b[Len(b)].time <= points[n].time /\ b[Len(b)].hi = points[n].hi
      BY <2>2, <2>5, <3>3
    <3> QED
      BY <3>3, <3>4, <3>5, <3>6
  <2>8. Chained(result) /\ result \in Seq(A)
    BY <2>3, <2>5, <2>6, <2>7, ChainConcat, ConcatProperties
  <2>9. /\ Len(result) = Len(b) + Len(rest) /\ Len(b) \in Nat /\ Len(b) # 0 /\ Len(rest) \in Nat
        /\ rest # <<>> => result[Len(result)] = rest[Len(rest)]
        /\ rest = <<>> => result[Len(result)] = b[Len(b)]
    <3>1. /\ Len(result) = Len(b) + Len(rest) /\ Len(b) \in Nat /\ Len(rest) \in Nat
          /\ \A i \in 1..(Len(b) + Len(rest)) :
               result[i] = IF i <= Len(b) THEN b[i] ELSE rest[i - Len(b)]
      BY <2>6, ConcatProperties
    <3>2. Len(b) # 0
      BY <2>5, EmptySeq
    <3> HIDE DEF result
    <3>3. Len(result) \in 1..(Len(b) + Len(rest))
      BY <3>1, <3>2
    <3>4. result[Len(result)] = IF Len(result) <= Len(b) THEN b[Len(result)]
                                ELSE rest[Len(result) - Len(b)]
      BY <3>1, <3>3
    <3>5. ASSUME rest # <<>> PROVE result[Len(result)] = rest[Len(rest)]
      <4>1. Len(rest) # 0
        BY <2>2, <3>5, EmptySeq
      <4>2. ~(Len(result) <= Len(b)) /\ Len(result) - Len(b) = Len(rest)
        BY <3>1, <4>1
      <4> QED
        BY <3>4, <4>2
    <3>6. ASSUME rest = <<>> PROVE result[Len(result)] = b[Len(b)]
      <4>1. Len(rest) = 0
        BY <3>6
      <4>2. Len(result) = Len(b) /\ Len(b) <= Len(b)
        BY <3>1, <4>1
      <4> QED
        BY <3>4, <4>2
    <3> QED
      BY <3>1, <3>2, <3>5, <3>6
  <2>10. result[Len(result)].hi = Len(recorded')
    <3>1. points[Len(points)].hi = Len(recorded)
      <4>1. Len(points) # 0
        BY <1>4, <2>1
      <4>2. points # <<>>
        BY <4>1
      <4> QED
        BY <1>2, <4>2
    <3>2. CASE rest = <<>>
      <4>1. n = Len(points)
        <5>1. Len(rest) = 0
          BY <3>2
        <5> QED
          BY <2>1, <2>2, <5>1
      <4>2. n \in 1..n
        BY <1>4, <2>1
      <4>3. old[Len(old)] = points[Len(points)]
        BY <2>2, <4>1, <4>2
      <4> QED
        BY <1>1, <2>5, <2>9, <3>1, <3>2, <4>3
    <3>3. CASE rest # <<>>
      <4>1. Len(rest) # 0
        BY <2>2, <3>3, EmptySeq
      <4>2. Len(rest) \in 1..Len(rest) /\ n + Len(rest) = Len(points)
        BY <2>1, <2>2, <4>1
      <4>3. rest[Len(rest)] = points[Len(points)]
        BY <2>2, <4>2
      <4> QED
        BY <1>1, <2>9, <3>1, <3>3, <4>3
    <3> QED
      BY <3>2, <3>3
  <2>11. Held(result) = Held(b) + Held(rest) /\ Held(b) \in Nat
    BY <2>6, HeldConcat
  <2> HIDE DEF result
  <2>12. PointsSound'
    BY <1>1, <1>4, <2>6, <2>8, <2>10, PointsAre
  <2>13. SamplesExact'
    <3>1. samples' = Held(points') /\ samples' = Held(b) + Held(rest)
      BY <1>1, <1>4, <2>11
    <3>2. samples = Held(rest) + Held(old) /\ samples \in Nat
      <4>1. Held(points) \in Nat
        BY <1>2, <2>0, HeldNat
      <4> QED
        BY <1>2, <2>2, <4>1
    <3>3. samples <= maxHistorySamples
      <4> DEFINE m == Len(points)
      <4>1. m \in Nat /\ n \in 0..m /\ ~(n < 2)
        BY <1>4, <2>1
      <4> HIDE DEF m
      <4>2. m # 1
        BY <4>1
      <4> QED
        BY <1>2, <4>2 DEF m
    <3>4. samples' <= maxHistorySamples
      <4>1. Held(b) <= Held(old) /\ Held(b) \in Nat /\ Held(old) \in Nat /\ Held(rest) \in Nat
        BY <2>2, <2>5, <2>11
      <4>2. maxHistorySamples \in Nat
        BY StatsAssumption
      <4> QED
        BY <3>1, <3>2, <3>3, <4>1, <4>2
    <3>5. Held(points)' = Held(points')
      BY DEF Held, HeldUpto
    <3> QED
      BY <3>1, <3>4, <3>5 DEF SamplesExact
  <2>14. Recorded'
    BY <1>1, <1>2 DEF Recorded
  <2> QED
    BY <1>1, <1>2, <2>12, <2>13, <2>14 DEF StatsInv
<1> QED
  BY <1>3, <1>4

-----------------------------------------------------------------------------
(* Queries.                                                                *)

\* The points of some places collected up to the n-th.
Selected(u, n, ps, places) ==
  u = [i \in 0..n |-> IF i = 0 THEN <<>>
                      ELSE IF i \in places THEN Append(u[i - 1], ps[i]) ELSE u[i - 1]]

\* Such points can be collected.
LEMMA SelectedExists ==
  ASSUME NEW n \in Nat, NEW ps, NEW places
  PROVE  \E u : Selected(u, n, ps, places)
<1> DEFINE Bad == {k \in 0..n : ~\E u : Selected(u, k, ps, places)}
<1>1. ASSUME NEW k \in Bad PROVE \E m \in Bad : m < k
  <2> SUFFICES ASSUME \A m \in 0..n : m < k => m \notin Bad PROVE FALSE
    OBVIOUS
  <2>1. CASE k = 0
    <3>1. Selected([i \in 0..0 |-> <<>>], 0, ps, places)
      BY DEF Selected
    <3> QED
      BY <2>1, <3>1
  <2>2. CASE k # 0
    <3>1. k - 1 \in 0..n /\ k - 1 < k
      BY <2>2
    <3>2. PICK u : Selected(u, k - 1, ps, places)
      BY <3>1
    <3> DEFINE v == [i \in 0..k |-> IF i = 0 THEN <<>>
                                    ELSE IF i \in places THEN Append(u[i - 1], ps[i]) ELSE u[i - 1]]
    <3>3. ASSUME NEW i \in 0..(k - 1) PROVE v[i] = u[i]
      <4>1. u[i] = IF i = 0 THEN <<>>
                   ELSE IF i \in places THEN Append(u[i - 1], ps[i]) ELSE u[i - 1]
        BY <3>2 DEF Selected
      <4>2. i \in 0..k
        BY <3>1
      <4> HIDE <3>2
      <4> QED
        BY <4>1, <4>2
    <3>4. ASSUME NEW i \in 0..k
          PROVE  v[i] = IF i = 0 THEN <<>>
                        ELSE IF i \in places THEN Append(v[i - 1], ps[i]) ELSE v[i - 1]
      <4>1. CASE i = 0
        BY <4>1
      <4>2. CASE i # 0
        <5>1. i - 1 \in 0..(k - 1)
          BY <3>1, <4>2
        <5>2. v[i - 1] = u[i - 1]
          <6> HIDE DEF v
          <6> QED
            BY <3>3, <5>1
        <5> QED
          BY <4>2, <5>2
      <4> QED
        BY <4>1, <4>2
    <3>5. v = [i \in 0..k |-> v[i]]
      OBVIOUS
    <3>6. Selected(v, k, ps, places)
      <4> HIDE DEF v
      <4> QED
        BY <3>4, <3>5 DEF Selected
    <3> QED
      BY <3>6
  <2> QED
    BY <2>1, <2>2
<1>2. Bad = {}
  <2> HIDE DEF Bad
  <2>1. Bad \in SUBSET Nat
    BY DEF Bad
  <2> QED
    BY <1>1, <2>1, NoLeast
<1>3. n \in 0..n
  OBVIOUS
<1> QED
  BY <1>2, <1>3

\* The points in range are points.
LEMMA InRangeIs ==
  ASSUME NEW S, points \in Seq(S), NEW from, NEW to
  PROVE  InRange(from, to) \in Seq(S)
<1> DEFINE m == Len(points)
           places == {i \in 1..m : from <= points[i].time /\ points[i].time <= to}
           Kept(u) == u = [i \in 0..m |->
                             IF i = 0 THEN <<>>
                             ELSE IF from <= points[i].time /\ points[i].time <= to
                             THEN Append(u[i - 1], points[i]) ELSE u[i - 1]]
           kept == CHOOSE u : Kept(u)
<1>1. m \in Nat
  OBVIOUS
<1>2. \E u : Kept(u)
  <2>1. PICK u : Selected(u, m, points, places)
    <3> HIDE DEF places, m
    <3> QED
      BY <1>1, SelectedExists
  <2>2. ASSUME NEW i \in 0..m, i # 0
        PROVE  i \in places <=> from <= points[i].time /\ points[i].time <= to
    BY <2>2
  <2> HIDE DEF places, m
  <2>3. u = [i \in 0..m |->
               IF i = 0 THEN <<>>
               ELSE IF from <= points[i].time /\ points[i].time <= to
               THEN Append(u[i - 1], points[i]) ELSE u[i - 1]]
    BY <2>1, <2>2 DEF Selected
  <2> QED
    BY <2>3
<1>3. Kept(kept)
  <2> HIDE DEF Kept
  <2> QED
    BY <1>2
<1>4. InRange(from, to) = kept[m]
  BY DEF InRange
<1> HIDE DEF kept
<1>5. kept[0] = <<>>
  BY <1>1, <1>3
<1>6. \A i \in 1..m : kept[i] = Append(kept[i - 1], points[i]) \/ kept[i] = kept[i - 1]
  <2> TAKE i \in 1..m
  <2>1. i \in 0..m /\ i # 0
    BY <1>1
  <2> QED
    BY <1>3, <2>1
<1> HIDE DEF Kept, places, m
<1> DEFINE Bad == {i \in 0..m : kept[i] \notin Seq(S)}
<1>7. ASSUME NEW i \in Bad PROVE \E j \in Bad : j < i
  <2>1. i # 0
    BY <1>5, EmptySeq
  <2>2. i \in 1..m /\ i - 1 \in 0..m /\ i - 1 < i
    BY <1>1, <2>1
  <2>3. points[i] \in S
    BY <2>2 DEF m
  <2>4. kept[i - 1] \in Seq(S) => kept[i] \in Seq(S)
    BY <1>6, <2>2, <2>3, AppendProperties
  <2> QED
    BY <2>2, <2>4
<1>8. Bad = {}
  <2> HIDE DEF Bad
  <2>1. Bad \in SUBSET Nat
    BY <1>1 DEF Bad
  <2> QED
    BY <1>7, <2>1, NoLeast
<1>9. m \in 0..m
  BY <1>1
<1> QED
  BY <1>4, <1>8, <1>9

\* A step doubled n times is more than n.
LEMMA DoublesExist ==
  ASSUME NEW n \in Nat
  PROVE  \E u : u = [k \in 0..n |-> IF k = 0 THEN 1 ELSE 2 * u[k - 1]]
<1> DEFINE Doubles(k, u) == u = [i \in 0..k |-> IF i = 0 THEN 1 ELSE 2 * u[i - 1]]
           Bad == {k \in Nat : ~\E u : Doubles(k, u)}
<1>1. ASSUME NEW k \in Bad PROVE \E m \in Bad : m < k
  <2> SUFFICES ASSUME \A m \in Nat : m < k => m \notin Bad PROVE FALSE
    OBVIOUS
  <2>1. CASE k = 0
    <3>1. Doubles(0, [i \in 0..0 |-> 1])
      OBVIOUS
    <3> QED
      BY <2>1, <3>1
  <2>2. CASE k # 0
    <3>1. k - 1 \in Nat /\ k - 1 < k
      BY <2>2
    <3>2. PICK u : Doubles(k - 1, u)
      BY <3>1
    <3> DEFINE v == [i \in 0..k |-> IF i = 0 THEN 1 ELSE 2 * u[i - 1]]
    <3>3. ASSUME NEW i \in 0..(k - 1) PROVE v[i] = u[i]
      BY <3>1, <3>2
    <3>4. ASSUME NEW i \in 0..k
          PROVE  v[i] = IF i = 0 THEN 1 ELSE 2 * v[i - 1]
      <4>1. CASE i = 0
        BY <4>1
      <4>2. CASE i # 0
        <5>1. i - 1 \in 0..(k - 1)
          BY <4>2
        <5>2. v[i - 1] = u[i - 1]
          BY <3>3, <5>1
        <5> QED
          BY <4>2, <5>2
      <4> QED
        BY <4>1, <4>2
    <3>5. v = [i \in 0..k |-> v[i]]
      OBVIOUS
    <3>6. Doubles(k, v)
      <4> HIDE DEF v
      <4> QED
        BY <3>4, <3>5
    <3> QED
      BY <3>6
  <2> QED
    BY <2>1, <2>2
<1>2. Bad = {}
  <2> HIDE DEF Bad
  <2>1. Bad \in SUBSET Nat
    BY DEF Bad
  <2> QED
    BY <1>1, <2>1, NoLeast
<1> QED
  BY <1>2

\* The step is 1 at first, and more than the number of doublings.
LEMMA DoubledIs ==
  ASSUME NEW n \in Nat
  PROVE  Doubled(n)[0] = 1 /\ \A k \in 0..n : Doubled(n)[k] \in Nat /\ Doubled(n)[k] > k
<1> DEFINE d == Doubled(n)
<1>1. d = [k \in 0..n |-> IF k = 0 THEN 1 ELSE 2 * d[k - 1]]
  BY DoublesExist DEF Doubled
<1> HIDE DEF d
<1>2. d[0] = 1 /\ \A k \in 1..n : d[k] = 2 * d[k - 1]
  BY <1>1
<1> DEFINE Bad == {k \in 0..n : ~(d[k] \in Nat /\ d[k] > k)}
<1>3. ASSUME NEW k \in Bad PROVE \E m \in Bad : m < k
  <2>1. k # 0
    BY <1>2
  <2>2. k \in 1..n /\ k - 1 \in 0..n /\ k - 1 < k
    BY <2>1
  <2>3. d[k - 1] \in Nat /\ d[k - 1] > k - 1 => d[k] \in Nat /\ d[k] > k
    BY <1>2, <2>2
  <2> QED
    BY <2>2, <2>3
<1>4. Bad = {}
  <2> HIDE DEF Bad
  <2>1. Bad \in SUBSET Nat
    BY DEF Bad
  <2> QED
    BY <1>3, <2>1, NoLeast
<1> QED
  BY <1>2, <1>4 DEF d

\* Every step-th point: the newest is one of them, and all are when the step is 1.
LEMMA EveryNthIs ==
  ASSUME NEW S, NEW ps \in Seq(S), NEW step \in Nat, step >= 1
  PROVE  LET q == everyNth(ps, step)
         IN /\ q \in Seq(S)
            /\ ps # <<>> => q # <<>> /\ q[Len(q)] = ps[Len(ps)]
            /\ step >= Len(ps) => Len(q) <= 1
            /\ step = 1 => q = ps
<1> DEFINE m == Len(ps)
           n == (m + step - 1) \div step
           q == everyNth(ps, step)
<1>1. m \in Nat
  OBVIOUS
<1>2. q = [j \in 1..n |-> ps[m - (n - j) * step]]
  BY DEF everyNth
<1> HIDE DEF q
<1>3. /\ n \in Nat /\ step * n <= m + step - 1 /\ m + step - 1 < step * n + step
  <2> DEFINE a == m + step - 1
  <2>1. a \in Nat /\ step \in Nat \ {0}
    BY <1>1
  <2>2. n = a \div step
    OBVIOUS
  <2> HIDE DEF a, n
  <2>3. n \in Nat /\ a = step * n + (a % step) /\ a % step \in 0..(step - 1)
    BY <2>1, <2>2
  <2>4. step * n \in Nat
    BY <2>1, <2>3
  <2> HIDE <2>2
  <2>5. step * n <= a /\ a < step * n + step
    BY <2>1, <2>3, <2>4
  <2> QED
    BY <2>3, <2>5 DEF a
<1> HIDE DEF m, n
<1>4. ASSUME NEW j \in 1..n PROVE m - (n - j) * step \in 1..m
  <2>1. j \in Nat /\ n - j \in Nat /\ n - j <= n - 1 /\ n - 1 \in Nat
    BY <1>3
  <2>2. step * (n - j) <= step * (n - 1)
    BY <2>1, Larger
  <2>3. step * (n - 1) = step * n - step
    BY <1>3
  <2>4. (n - j) * step = step * (n - j) /\ step * (n - j) \in Nat
    BY <2>1
  <2> DEFINE x == step * (n - j)
             y == step * n
  <2>5. x <= y - step /\ y <= m + step - 1 /\ x \in Nat /\ y \in Nat
    BY <1>3, <2>2, <2>3, <2>4
  <2> HIDE DEF x, y
  <2>6. m - x \in 1..m
    BY <1>1, <2>5
  <2> QED
    BY <2>4, <2>6 DEF x
<1>5. q \in Seq(S) /\ Len(q) = n /\ \A j \in 1..n : q[j] = ps[m - (n - j) * step]
  <2>1. \A j \in 1..n : ps[m - (n - j) * step] \in S
    BY <1>4 DEF m
  <2>2. q \in Seq(S)
    BY <1>2, <1>3, <2>1, IsASeq
  <2>3. Len(q) = n
    BY <1>2, <1>3, <2>2
  <2> QED
    BY <1>2, <2>2, <2>3
<1>6. m >= 1 => n >= 1
  <2> SUFFICES ASSUME m >= 1, n = 0 PROVE FALSE
    BY <1>3
  <2>1. step * n = 0
    OBVIOUS
  <2> QED
    BY <1>1, <1>3, <2>1
<1>7. ps # <<>> => q # <<>> /\ q[Len(q)] = ps[m]
  <2> SUFFICES ASSUME ps # <<>> PROVE q # <<>> /\ q[n] = ps[m]
    BY <1>5
  <2>1. m >= 1
    BY <1>1, EmptySeq DEF m
  <2>2. n \in 1..n /\ n - n = 0
    BY <1>3, <1>6, <2>1
  <2>3. m - 0 * step = m
    BY <1>1
  <2>4. q[n] = ps[m]
    BY <1>5, <2>2, <2>3
  <2>5. q # <<>>
    BY <1>5, <2>2
  <2> QED
    BY <2>4, <2>5
<1>8. step >= m => n <= 1
  <2> SUFFICES ASSUME step >= m, n >= 2 PROVE FALSE
    BY <1>3
  <2>1. step * 2 <= step * n
    BY <1>3, Larger
  <2> DEFINE y == step * n
  <2>2. y \in Nat /\ step * 2 <= y /\ y <= m + step - 1
    BY <1>3, <2>1
  <2> HIDE DEF y
  <2> QED
    BY <1>1, <2>2
<1>9. step = 1 => q = ps
  <2> SUFFICES ASSUME step = 1 PROVE q = ps
    OBVIOUS
  <2>1. n = m
    <3>1. step * n = n
      BY <1>3
    <3> QED
      BY <1>1, <1>3, <3>1
  <2>2. ASSUME NEW j \in 1..m PROVE q[j] = ps[j]
    <3>1. m - (n - j) * step = j
      BY <1>1, <2>1
    <3> QED
      BY <1>5, <2>1, <3>1
  <2> QED
    BY <1>5, <2>1, <2>2, SeqEqual DEF m
<1> QED
  BY <1>5, <1>7, <1>8, <1>9 DEF m, q

\* A query's points fit, and their last is the last there is.
LEMMA QueryIs ==
  ASSUME NEW S, \A p \in S : Holds(p), points \in Seq(S), NEW from, NEW to, NEW keep
  PROVE  LET q == Query(from, to, keep)
             r == InRange(from, to)
         IN /\ \/ Len(q.points) * Cardinality(q.series) <= maxQueryCells
               \/ Len(q.points) = 1
            /\ r # <<>> => q.points # <<>> /\ q.points[Len(q.points)] = r[Len(r)]
            /\ Len(r) * Cardinality(Series(r, keep)) <= maxQueryCells => q.points = r
<1> DEFINE r == InRange(from, to)
           m == Len(r)
           d == Doubled(m)
           Every(k) == everyNth(r, d[k])
           fit == {k \in 0..m : Fits(Every(k), keep)}
           k == CHOOSE k \in 0..m : Fits(Every(k), keep) /\ \A j \in 0..(k - 1) : ~Fits(Every(j), keep)
           answer == Every(k)
<1>1. r \in Seq(S)
  BY InRangeIs
<1>2. Query(from, to, keep) = [points |-> answer, series |-> Series(answer, keep)]
  BY DEF Query
<1> HIDE DEF r
<1>3. m \in Nat
  BY <1>1
<1>4. d[0] = 1 /\ \A i \in 0..m : d[i] \in Nat /\ d[i] > i
  <2> HIDE DEF m
  <2> QED
    BY <1>3, DoubledIs
<1> HIDE DEF d
<1>5. \A i \in 0..m : /\ Every(i) \in Seq(S)
                      /\ r # <<>> => Every(i) # <<>> /\ Every(i)[Len(Every(i))] = r[m]
                      /\ d[i] >= m => Len(Every(i)) <= 1
                      /\ d[i] = 1 => Every(i) = r
  <2> TAKE i \in 0..m
  <2>1. d[i] \in Nat /\ d[i] >= 1
    BY <1>3, <1>4
  <2> QED
    BY <1>1, <2>1, EveryNthIs
<1>6. Every(0) = r
  <2>1. 0 \in 0..m
    BY <1>3
  <2> HIDE DEF Every
  <2> QED
    BY <1>4, <1>5, <2>1
<1>7. m \in fit
  <2>1. m \in 0..m /\ d[m] >= m
    BY <1>3, <1>4
  <2>2. Len(Every(m)) <= 1
    <3> HIDE DEF Every
    <3> QED
      BY <1>5, <2>1
  <2> HIDE DEF Every, m
  <2> QED
    BY <2>1, <2>2 DEF Fits
<1>8. \E i \in 0..m : Fits(Every(i), keep) /\ \A j \in 0..(i - 1) : ~Fits(Every(j), keep)
  <2> DEFINE i == Min(fit)
  <2>1. i \in fit /\ \A j \in fit : i <= j
    <3>1. fit \in SUBSET Nat /\ fit # {}
      BY <1>3, <1>7
    <3> HIDE DEF fit
    <3> QED
      BY <3>1, LeastIs
  <2> HIDE DEF i
  <2>2. i \in 0..m /\ Fits(Every(i), keep)
    BY <2>1
  <2>3. \A j \in 0..(i - 1) : ~Fits(Every(j), keep)
    <3> SUFFICES ASSUME NEW j \in 0..(i - 1), Fits(Every(j), keep) PROVE FALSE
      OBVIOUS
    <3>1. j \in 0..m /\ ~(i <= j)
      BY <1>3, <2>2
    <3>2. j \in fit
      BY <3>1
    <3> HIDE DEF fit
    <3> QED
      BY <2>1, <3>1, <3>2
  <2> HIDE DEF Every
  <2> QED
    BY <2>2, <2>3
<1>9. k \in 0..m /\ Fits(answer, keep) /\ \A j \in 0..(k - 1) : ~Fits(Every(j), keep)
  <2> HIDE DEF Every
  <2> QED
    BY <1>8
<1> HIDE DEF k
<1>10. /\ answer \in Seq(S)
       /\ r # <<>> => answer # <<>> /\ answer[Len(answer)] = r[m]
  <2> HIDE DEF Every
  <2> QED
    BY <1>5, <1>9
<1>11. Fits(r, keep) => answer = r
  <2> SUFFICES ASSUME Fits(r, keep) PROVE answer = r
    OBVIOUS
  <2>1. k = 0
    <3> SUFFICES ASSUME k # 0 PROVE FALSE
      OBVIOUS
    <3>1. 0 \in 0..(k - 1)
      BY <1>3, <1>9
    <3> HIDE DEF Every
    <3> QED
      BY <1>6, <1>9, <3>1
  <2> HIDE DEF Every
  <2> QED
    BY <1>6, <2>1
<1>12. ASSUME NEW ps \in Seq(S)
       PROVE  /\ Len(ps) \in Nat /\ Cardinality(Series(ps, keep)) \in Nat
              /\ Fits(ps, keep) => \/ Len(ps) * Cardinality(Series(ps, keep)) <= maxQueryCells
                                   \/ Len(ps) = 1
              /\ Len(ps) * Cardinality(Series(ps, keep)) <= maxQueryCells => Fits(ps, keep)
  <2> DEFINE a == Len(ps)
             c == Cardinality(Series(ps, keep))
  <2>1. a \in Nat
    OBVIOUS
  <2>2. c \in Nat
    <3>1. Series(ps, keep) \subseteq UNION {Names(ps[i]) : i \in 1..Len(ps)}
      BY DEF Series
    <3>2. IsFiniteSet(UNION {Names(ps[i]) : i \in 1..Len(ps)})
      BY NamesFit
    <3>3. IsFiniteSet(Series(ps, keep))
      BY <3>1, <3>2, FS_Subset
    <3> QED
      BY <3>3, FS_CardinalityType
  <2>3. Fits(ps, keep) <=> a <= 1 \/ c * a <= maxQueryCells
    BY DEF Fits
  <2>4. maxQueryCells \in Nat
    BY StatsAssumption
  <2> HIDE DEF a, c
  <2>5. c * a = a * c
    BY <2>1, <2>2
  <2>6. a = 0 => a * c = 0
    BY <2>2
  <2>7. a <= 1 => a = 0 \/ a = 1
    BY <2>1
  <2>8. a <= 1 => a * c <= maxQueryCells \/ a = 1
    BY <2>4, <2>6, <2>7
  <2> QED
    BY <2>1, <2>2, <2>3, <2>5, <2>8 DEF a, c
<1> HIDE DEF answer, m
<1>13. \/ Len(answer) * Cardinality(Series(answer, keep)) <= maxQueryCells
       \/ Len(answer) = 1
  BY <1>9, <1>10, <1>12
<1>14. Len(r) * Cardinality(Series(r, keep)) <= maxQueryCells => answer = r
  BY <1>1, <1>11, <1>12
<1>15. Query(from, to, keep).points = answer /\ Query(from, to, keep).series = Series(answer, keep)
  BY <1>2
<1> QED
  BY <1>10, <1>13, <1>14, <1>15 DEF r, m

-----------------------------------------------------------------------------

\* The invariant says what the properties say.
LEMMA StatsInvImplies ==
  ASSUME StatsInv
  PROVE  StatsTypeOK /\ HistorySound
<1> DEFINE S == Parts(points)
<1>1. /\ Recorded /\ clock \in 0..MaxClock /\ due \in {"none", "evict", "downsample"}
      /\ points \in Seq(S) /\ \A p \in S : PointSound(p)
      /\ Chained(points)
      /\ SamplesExact /\ samples = Held(points)
  BY DEF StatsInv, PointsSound, SamplesExact
<1>2. \A p \in S : Holds(p)
  BY <1>1, PointIs
<1>3. \A i \in 1..Len(points) : PointSound(points[i])
  BY <1>1 DEF Parts
<1>4. StatsTypeOK
  <2>1. samples \in Nat
    <3> HIDE DEF S
    <3> QED
      BY <1>1, <1>2, HeldNat
  <2> QED
    BY <1>1, <1>3, <2>1 DEF StatsTypeOK, PointSound
<1>5. InOrder
  <2>1. ASSUME NEW i \in 1..Len(points)
        PROVE  /\ points[i].time <= recorded[points[i].lo].time
               /\ recorded[points[i].hi].time - points[i].time < bucketWidth
    <3> DEFINE p == points[i]
    <3>1. PointSound(p)
      BY <1>3
    <3> HIDE DEF p
    <3>2. /\ p.time \in Nat /\ p.hi \in 1..Len(recorded) /\ p.time <= recorded[p.lo].time
          /\ Truncate(recorded[p.hi].time) = Truncate(p.time)
      BY <1>1, <3>1 DEF PointSound, Recorded
    <3> DEFINE t == recorded[p.hi].time
    <3>3. t \in Nat
      <4> DEFINE j == p.hi
      <4>1. j \in 1..Len(recorded) /\ recorded \in Seq([time : Nat, stats : Snapshot])
        BY <1>1, <3>2 DEF Recorded
      <4> HIDE DEF j
      <4>2. recorded[j] \in [time : Nat, stats : Snapshot]
        BY <4>1, ElementOfSeq
      <4>3. recorded[j].time \in Nat
        BY <4>2
      <4> QED
        BY <4>3 DEF j
    <3>4. Truncate(t) = Truncate(p.time)
      BY <3>2
    <3> HIDE DEF t
    <3>5. t < Truncate(t) + bucketWidth /\ Truncate(t) \in Nat
      BY <3>3, TruncateIs
    <3>6. Truncate(p.time) <= p.time
      BY <3>2, TruncateIs
    <3>7. t - p.time < bucketWidth
      BY <3>2, <3>3, <3>4, <3>5, <3>6, StatsAssumption
    <3> QED
      BY <3>2, <3>7 DEF p, t
  <2> QED
    BY <1>1, <2>1 DEF InOrder, Chained
<1>6. GaugesLast
  <2> SUFFICES ASSUME NEW i \in 1..Len(points), NEW n \in Name
               PROVE  LET p == points[i] IN
                      /\ n \in Names(p) <=> Sources(p, n) # {}
                      /\ n \in Names(p) => p.stats[n].mem = Max(Sources(p, n))
    BY DEF GaugesLast
  <2> DEFINE p == points[i]
  <2>1. PointSound(p)
    BY <1>3
  <2> HIDE DEF p
  <2>2. n \notin Names(p) => Sources(p, n) = {}
    BY <2>1 DEF PointSound
  <2>3. n \in Names(p) => /\ p.stats[n].mem \in Sources(p, n)
                          /\ \A id \in Sources(p, n) : id <= p.stats[n].mem
    BY <2>1 DEF PointSound
  <2>4. Sources(p, n) \in SUBSET Int
    BY DEF Sources
  <2>5. n \in Names(p) => p.stats[n].mem = Max(Sources(p, n))
    BY <2>3, <2>4, GreatestIs
  <2> QED
    BY <2>2, <2>3, <2>5 DEF p
<1>7. QueryAnswers
  <2> HIDE DEF S
  <2> QED
    BY <1>1, <1>2, QueryIs DEF QueryAnswers
<1> QED
  BY <1>1, <1>4, <1>5, <1>6, <1>7 DEF HistorySound

\* Every step keeps the invariant.
LEMMA StatsStep ==
  ASSUME StatsInv, [StatsNext]_statsVars
  PROVE  StatsInv'
<1>1. CASE UNCHANGED statsVars
  <2>1. UNCHANGED <<points, samples, recorded>> /\ clock' \in 0..MaxClock
        /\ due' \in {"none", "evict", "downsample"}
    BY <1>1 DEF statsVars, StatsInv
  <2> QED
    BY <2>1, RestKeeps
<1>2. ASSUME NEW s \in Snapshot, Record(s) PROVE StatsInv'
  BY <1>2, RecordKeeps
<1>3. CASE Minute
  <2>1. UNCHANGED <<points, samples, recorded>> /\ clock' \in 0..MaxClock
        /\ due' \in {"none", "evict", "downsample"}
    BY <1>3 DEF Minute, StatsInv
  <2> QED
    BY <2>1, RestKeeps
<1>4. CASE Evict
  BY <1>4, EvictKeeps
<1>5. CASE Downsample
  BY <1>5, DownsampleKeeps
<1>6. CASE Tick
  <2>1. UNCHANGED <<points, samples, recorded>> /\ clock' \in 0..MaxClock
        /\ due' \in {"none", "evict", "downsample"}
    BY <1>6, StatsAssumption DEF Tick, StatsInv
  <2> QED
    BY <2>1, RestKeeps
<1> QED
  BY <1>1, <1>2, <1>3, <1>4, <1>5, <1>6 DEF StatsNext

\* The stats history holds what its types say.
THEOREM StatsTyped == StatsSpec => []StatsTypeOK
<1>1. StatsInit => StatsInv
  BY StatsStarts
<1>2. StatsInv /\ [StatsNext]_statsVars => StatsInv'
  BY StatsStep
<1>3. StatsInv => StatsTypeOK
  BY StatsInvImplies
<1> QED
  BY <1>1, <1>2, <1>3, PTL DEF StatsSpec

\* However snapshots, drops, evictions, merges and queries follow one another, the
\* samples counted are those held, the points are in order and stand for every snapshot
\* from some one on, a merged gauge is the last value, and a query's answer fits
\* and ends with the newest (stats_history.go).
THEOREM HistoryStaysSound == StatsSpec => []HistorySound
<1>1. StatsInit => StatsInv
  BY StatsStarts
<1>2. StatsInv /\ [StatsNext]_statsVars => StatsInv'
  BY StatsStep
<1>3. StatsInv => HistorySound
  BY StatsInvImplies
<1> QED
  BY <1>1, <1>2, <1>3, PTL DEF StatsSpec

-----------------------------------------------------------------------------
(* The event history.                                                      *)

\* The remainder of what is less than twice the divisor.
LEMMA Wrap ==
    ASSUME NEW c \in Nat \ {0}, NEW x \in 0..(2 * c - 1)
    PROVE  x % c = IF x < c THEN x ELSE x - c
<1> DEFINE q == x \div c
<1>1. x = c * q + (x % c) /\ x % c \in 0..(c - 1) /\ q \in Nat
  OBVIOUS
<1>2. CASE x < c
  <2>1. q = 0
    BY <1>1, <1>2
  <2> QED
    BY <1>1, <1>2, <2>1
<1>3. CASE x >= c
  <2>1. q = 1
    BY <1>1, <1>3
  <2> QED
    BY <1>1, <1>3, <2>1
<1> QED
  BY <1>2, <1>3

\* The invariant: every place that was written holds an event.
Written == \A i \in 1..count : buf[Place(i)] \in Event

EventsInv == EventsTypeOK /\ Written

----------------------------------------------------------------------------
(* The places of the buffer.                                               *)

\* An index taken modulo the capacity wraps once at most.
LEMMA WrapCapacity ==
    \A x \in 0..(2 * capacity - 1) :
      x % capacity = IF x < capacity THEN x ELSE x - capacity
  BY HistoryAssumption, Wrap

\* The i-th oldest of c events is c - i + 1 places before h, around the end.
LEMMA AtIs ==
    ASSUME NEW h \in 0..(capacity - 1), NEW c \in 0..capacity, NEW i \in 1..c
    PROVE  /\ At(h, c, i) \in 0..(capacity - 1)
           /\ At(h, c, i) = IF h - c + i - 1 >= 0
                            THEN h - c + i - 1
                            ELSE h - c + i - 1 + capacity
<1> DEFINE x == h - c + i - 1 + capacity
<1>1. capacity \in Nat \ {0} /\ x \in 0..(2 * capacity - 1)
  BY HistoryAssumption
<1>2. x % capacity = IF x < capacity THEN x ELSE x - capacity
  BY <1>1, WrapCapacity
<1> QED
  BY <1>1, <1>2 DEF At

\* A place further, around the end.
LEMMA NextPlace ==
    ASSUME NEW h \in 0..(capacity - 1)
    PROVE  (h + 1) % capacity = IF h + 1 = capacity THEN 0 ELSE h + 1
<1> DEFINE x == h + 1
<1>1. capacity \in Nat \ {0} /\ x \in 0..(2 * capacity - 1)
  BY HistoryAssumption
<1>2. x % capacity = IF x < capacity THEN x ELSE x - capacity
  BY <1>1, WrapCapacity
<1> QED
  BY <1>1, <1>2

\* While there is room every event keeps its place, and the new one goes to h.
LEMMA PlacesWithRoom ==
    ASSUME NEW h \in 0..(capacity - 1), NEW c \in 0..(capacity - 1),
           NEW i \in 1..(c + 1)
    PROVE  At((h + 1) % capacity, c + 1, i) = IF i = c + 1 THEN h ELSE At(h, c, i)
<1> DEFINE g == (h + 1) % capacity
<1>1. /\ capacity \in Nat \ {0}
      /\ g \in 0..(capacity - 1)
      /\ g = IF h + 1 = capacity THEN 0 ELSE h + 1
      /\ c + 1 \in 0..capacity /\ c \in 0..capacity
  BY HistoryAssumption, NextPlace
<1> HIDE DEF g
<1>2. At(g, c + 1, i) = IF g - (c + 1) + i - 1 >= 0
                        THEN g - (c + 1) + i - 1
                        ELSE g - (c + 1) + i - 1 + capacity
  BY <1>1, AtIs
<1>3. i # c + 1 => At(h, c, i) = IF h - c + i - 1 >= 0
                                 THEN h - c + i - 1
                                 ELSE h - c + i - 1 + capacity
  BY <1>1, AtIs
<1>4. At(g, c + 1, i) = IF i = c + 1 THEN h ELSE At(h, c, i)
  BY <1>1, <1>2, <1>3
<1> QED
  BY <1>4 DEF g

\* When there is none each has the place of the one after it.
LEMMA PlacesWhenFull ==
    ASSUME NEW h \in 0..(capacity - 1), NEW i \in 1..capacity
    PROVE  At((h + 1) % capacity, capacity, i) =
             IF i = capacity THEN h ELSE At(h, capacity, i + 1)
<1> DEFINE g == (h + 1) % capacity
<1>1. /\ capacity \in Nat \ {0}
      /\ g \in 0..(capacity - 1)
      /\ g = IF h + 1 = capacity THEN 0 ELSE h + 1
      /\ capacity \in 0..capacity
  BY HistoryAssumption, NextPlace
<1> HIDE DEF g
<1>2. At(g, capacity, i) = IF g - capacity + i - 1 >= 0
                           THEN g - capacity + i - 1
                           ELSE g - capacity + i - 1 + capacity
  BY <1>1, AtIs
<1>3. i # capacity =>
        At(h, capacity, i + 1) = IF h - capacity + (i + 1) - 1 >= 0
                                 THEN h - capacity + (i + 1) - 1
                                 ELSE h - capacity + (i + 1) - 1 + capacity
  BY <1>1, AtIs
<1>4. At(g, capacity, i) = IF i = capacity THEN h ELSE At(h, capacity, i + 1)
  BY <1>1, <1>2, <1>3
<1> QED
  BY <1>4 DEF g

\* An event that stays is not where the next one goes.
LEMMA PlaceNotHead ==
    ASSUME NEW h \in 0..(capacity - 1), NEW c \in 0..capacity, NEW i \in 1..c,
           i # 1 \/ c # capacity
    PROVE  At(h, c, i) # h
<1>1. capacity \in Nat \ {0}
  BY HistoryAssumption
<1>2. At(h, c, i) = IF h - c + i - 1 >= 0
                    THEN h - c + i - 1 ELSE h - c + i - 1 + capacity
  BY AtIs
<1> QED
  BY <1>1, <1>2

----------------------------------------------------------------------------
(* The invariant.                                                          *)

\* Add keeps the buffer and its counters typed.
LEMMA AddTypeOK ==
    ASSUME EventsTypeOK, NEW e \in Event, Add(e)
    PROVE  EventsTypeOK'
<1>1. capacity \in Nat \ {0}
  BY HistoryAssumption
<1>2. buf' \in [0..(capacity - 1) -> Event \cup {NoEvent}]
  BY DEF Add, EventsTypeOK
<1>3. head' \in 0..(capacity - 1)
  BY <1>1, NextPlace DEF Add, EventsTypeOK
<1>4. count' \in 0..capacity
  BY <1>1 DEF Add, EventsTypeOK
<1> QED
  BY <1>2, <1>3, <1>4 DEF EventsTypeOK

\* The buffer after Add, read in order: what was there, without the oldest event
\* if it was full, and then the new one.
LEMMA AddShifts ==
    ASSUME EventsTypeOK, NEW e \in Event, Add(e)
    PROVE  /\ count < capacity =>
                /\ count' = count + 1
                /\ \A i \in 1..count : buf'[At(head', count', i)] = buf[Place(i)]
           /\ count = capacity =>
                /\ count' = count
                /\ \A i \in 1..(count - 1) :
                     buf'[At(head', count', i)] = buf[Place(i + 1)]
           /\ buf'[At(head', count', count')] = e
<1>1. capacity \in Nat \ {0} /\ head \in 0..(capacity - 1) /\ count \in 0..capacity
  BY HistoryAssumption DEF EventsTypeOK
<1>2. head' = (head + 1) % capacity
  BY DEF Add
<1>3. \A j \in 0..(capacity - 1) : buf'[j] = IF j = head THEN e ELSE buf[j]
  BY DEF Add, EventsTypeOK
<1>4. \A i \in 1..count :
        At(head, count, i) \in 0..(capacity - 1) /\ Place(i) = At(head, count, i)
  BY <1>1, AtIs DEF Place
<1>5. CASE count < capacity
  <2>1. count' = count + 1
    BY <1>5 DEF Add
  <2>2. \A i \in 1..(count + 1) :
          At(head', count', i) = IF i = count + 1 THEN head ELSE At(head, count, i)
    BY <1>1, <1>2, <1>5, <2>1, PlacesWithRoom
  <2>3. \A i \in 1..count : At(head, count, i) # head
    BY <1>1, <1>5, PlaceNotHead
  <2>4. \A i \in 1..count : buf'[At(head', count', i)] = buf[Place(i)]
    BY <1>1, <1>3, <1>4, <2>2, <2>3
  <2>5. buf'[At(head', count', count')] = e
    BY <1>1, <1>3, <2>1, <2>2
  <2> QED
    BY <1>1, <1>5, <2>1, <2>4, <2>5
<1>6. CASE count = capacity
  <2>1. count' = count
    BY <1>1, <1>6 DEF Add
  <2>2. \A i \in 1..capacity :
          At(head', count', i) =
            IF i = capacity THEN head ELSE At(head, count, i + 1)
    BY <1>1, <1>2, <1>6, <2>1, PlacesWhenFull
  <2>3. ASSUME NEW i \in 1..(count - 1)
        PROVE  buf'[At(head', count', i)] = buf[Place(i + 1)]
    <3>1. i + 1 \in 1..count /\ i + 1 # 1 /\ i \in 1..capacity /\ i # capacity
      BY <1>1, <1>6
    <3>2. At(head, count, i + 1) # head
      BY <1>1, <3>1, PlaceNotHead
    <3>3. At(head', count', i) = At(head, count, i + 1)
      BY <2>2, <3>1
    <3> QED
      BY <1>3, <1>4, <3>1, <3>2, <3>3
  <2>4. buf'[At(head', count', count')] = e
    BY <1>1, <1>3, <1>6, <2>1, <2>2
  <2> QED
    BY <1>1, <1>6, <2>1, <2>3, <2>4
<1> QED
  BY <1>1, <1>5, <1>6

\* Add keeps the invariant: the new event is the last, and a full buffer gives up its first.
LEMMA AddInv ==
    ASSUME EventsInv, NEW e \in Event, Add(e)
    PROVE  EventsInv'
<1>1. EventsTypeOK /\ Written /\ capacity \in Nat \ {0} /\ count \in 0..capacity
  BY HistoryAssumption DEF EventsInv, EventsTypeOK
<1>2. EventsTypeOK'
  BY <1>1, AddTypeOK
<1>3. ASSUME NEW i \in 1..count' PROVE buf'[At(head', count', i)] \in Event
  <2>1. CASE count < capacity
    <3>1. count' = count + 1 /\ (i \in 1..count \/ i = count')
      BY <1>1, <2>1, AddShifts
    <3> QED
      BY <1>1, <2>1, <3>1, AddShifts DEF Written
  <2>2. CASE count = capacity
    <3>1. count' = count /\ (i \in 1..(count - 1) \/ i = count')
      BY <1>1, <2>2, AddShifts
    <3>2. i \in 1..(count - 1) => i + 1 \in 1..count
      BY <1>1
    <3> QED
      BY <1>1, <2>2, <3>1, <3>2, AddShifts DEF Written
  <2> QED
    BY <1>1, <2>1, <2>2
<1>4. Written'
  BY <1>3 DEF Written, Place
<1> QED
  BY <1>2, <1>4 DEF EventsInv

\* Every state of a history satisfies the invariant.
LEMMA InvHolds == EventsSpec => []EventsInv
<1>1. EventsInit => EventsInv
  <2> SUFFICES ASSUME EventsInit PROVE EventsInv
    OBVIOUS
  <2>1. EventsTypeOK
    BY HistoryAssumption DEF EventsInit, EventsTypeOK
  <2>2. Written
    BY DEF EventsInit, Written
  <2> QED
    BY <2>1, <2>2 DEF EventsInv
<1>2. EventsInv /\ [EventsNext]_eventVars => EventsInv'
  <2> SUFFICES ASSUME EventsInv, [EventsNext]_eventVars PROVE EventsInv'
    OBVIOUS
  <2>1. CASE Keep
    BY <2>1, AddInv DEF Keep
  <2>2. CASE UNCHANGED <<buf, head, count>>
    BY <2>2 DEF EventsInv, EventsTypeOK, Written, Place
  <2>3. Keep \/ UNCHANGED <<buf, head, count>>
    BY DEF EventsNext, eventVars, Emit, Skip, Fail, Reconnect
  <2> QED
    BY <2>1, <2>2, <2>3
<1> QED
  BY <1>1, <1>2, PTL DEF EventsSpec

----------------------------------------------------------------------------
(* The buffer is the log of the last events.                               *)

\* What a reader is given is the buffer's events from the oldest to the newest.
LEMMA InOrderSeq ==
    ASSUME EventsInv
    PROVE  /\ OldestFirst \in Seq(Event)
           /\ Len(OldestFirst) = count
           /\ \A i \in 1..count : OldestFirst[i] = buf[Place(i)]
<1>1. count \in Nat /\ \A i \in 1..count : buf[Place(i)] \in Event
  BY HistoryAssumption DEF EventsInv, EventsTypeOK, Written
<1>2. OldestFirst \in [1..count -> Event]
  BY <1>1 DEF OldestFirst
<1> QED
  BY <1>1, <1>2 DEF OldestFirst

\* The buffer after Add is the log after Add.
LEMMA AddIsLogAdd ==
    ASSUME EventsInv, EventsInv', NEW e \in Event, Add(e)
    PROVE  OldestFirst' = RL!Last(Append(OldestFirst, e), capacity)
<1> DEFINE old == OldestFirst
           new == OldestFirst'
           all == Append(old, e)
<1>1. /\ capacity \in Nat \ {0} /\ count \in 0..capacity /\ count' \in 0..capacity
      /\ EventsTypeOK
  BY HistoryAssumption DEF EventsInv, EventsTypeOK
<1>2. old \in Seq(Event) /\ Len(old) = count
      /\ \A i \in 1..count : old[i] = buf[Place(i)]
  BY InOrderSeq
<1>3. new = [i \in 1..count' |-> buf'[At(head', count', i)]]
  BY DEF OldestFirst, Place
<1>4. \A i \in 1..count' : buf'[At(head', count', i)] \in Event
  BY DEF EventsInv, Written, Place
<1>5. new \in Seq(Event) /\ Len(new) = count'
  BY <1>1, <1>3, <1>4
<1>6. /\ all \in Seq(Event) /\ Len(all) = count + 1
      /\ \A i \in 1..count : all[i] = old[i]
      /\ all[count + 1] = e
  BY <1>1, <1>2
<1> HIDE DEF old, new, all
<1>7. CASE count < capacity
  <2>1. count' = count + 1
    BY <1>1, <1>7, AddShifts
  <2>2. \A i \in 1..Len(new) : new[i] = all[i]
    <3> SUFFICES ASSUME NEW i \in 1..(count + 1) PROVE new[i] = all[i]
      BY <1>5, <2>1
    <3>1. new[i] = buf'[At(head', count', i)]
      BY <1>3, <2>1
    <3>2. CASE i = count + 1
      BY <1>1, <1>6, <2>1, <3>1, <3>2, AddShifts
    <3>3. CASE i # count + 1
      <4>1. i \in 1..count
        BY <1>1, <3>3
      <4>2. buf'[At(head', count', i)] = buf[Place(i)]
        BY <1>1, <1>7, <4>1, AddShifts
      <4> QED
        BY <1>2, <1>6, <3>1, <4>1, <4>2
    <3> QED
      BY <3>2, <3>3
  <2>3. new = all
    BY <1>5, <1>6, <2>1, <2>2, SeqEqual
  <2>4. RL!Last(all, capacity) = all
    BY <1>1, <1>6, <1>7 DEF RL!Last
  <2> QED
    BY <2>3, <2>4 DEF old, new, all
<1>8. CASE count = capacity
  <2>1. count' = capacity
    BY <1>1, <1>8, AddShifts
  <2> DEFINE tail == SubSeq(all, Len(all) - capacity + 1, Len(all))
  <2>2. RL!Last(all, capacity) = tail
    BY <1>1, <1>6, <1>8 DEF RL!Last
  <2>3. Len(all) - capacity + 1 = 2 /\ Len(all) = capacity + 1
    BY <1>1, <1>6, <1>8
  <2>4. \A i \in 2..(capacity + 1) : all[i] \in Event
    BY <1>1, <1>6, <2>3, ElementOfSeq
  <2>5. /\ tail \in Seq(Event) /\ Len(tail) = capacity
        /\ \A i \in 1..capacity : tail[i] = all[i + 1]
    <3>1. tail = SubSeq(all, 2, capacity + 1)
      BY <2>3
    <3> HIDE DEF tail
    <3>2. /\ SubSeq(all, 2, capacity + 1) \in Seq(Event)
          /\ Len(SubSeq(all, 2, capacity + 1)) = capacity
          /\ \A i \in 1..capacity : SubSeq(all, 2, capacity + 1)[i] = all[i + 1]
      BY <1>1, <1>6, <2>3, <2>4
    <3> QED
      BY <3>1, <3>2
  <2> HIDE DEF tail
  <2>6. ASSUME NEW i \in 1..capacity PROVE new[i] = tail[i]
    <3>1. new[i] = buf'[At(head', count', i)]
      BY <1>3, <2>1
    <3>2. CASE i = capacity
      BY <1>1, <1>6, <1>8, <2>1, <2>5, <3>1, <3>2, AddShifts
    <3>3. CASE i # capacity
      <4>1. i \in 1..(count - 1) /\ i + 1 \in 1..count
        BY <1>1, <1>8, <3>3
      <4>2. buf'[At(head', count', i)] = buf[Place(i + 1)]
        BY <1>1, <1>8, <4>1, AddShifts
      <4> QED
        BY <1>2, <1>6, <2>5, <3>1, <4>1, <4>2
    <3> QED
      BY <3>2, <3>3
  <2>7. new = tail
    BY <1>5, <2>1, <2>5, <2>6, SeqEqual
  <2> QED
    BY <2>2, <2>7 DEF old, new, all
<1> QED
  BY <1>1, <1>7, <1>8

\* The circular buffer of event_history.go, read in order, is the log of the last
\* `capacity' events that pipeEvents kept.
THEOREM BufferImplementsLog == EventsSpec => ImplementsLog
<1>1. EventsInit => RL!Init
  BY DEF EventsInit, RL!Init, OldestFirst
<1>2. EventsInv /\ EventsInv' /\ [EventsNext]_eventVars => [RL!Next]_OldestFirst
  <2> SUFFICES ASSUME EventsInv, EventsInv', [EventsNext]_eventVars PROVE [RL!Next]_OldestFirst
    OBVIOUS
  <2>1. CASE Keep
    <3>1. PICK e \in Event : Add(e)
      BY <2>1 DEF Keep
    <3>2. RL!Add(e)
      BY <3>1, AddIsLogAdd DEF RL!Add
    <3> QED
      BY <3>2 DEF RL!Next
  <2>2. CASE UNCHANGED <<buf, head, count>>
    BY <2>2 DEF OldestFirst, Place
  <2>3. Keep \/ UNCHANGED <<buf, head, count>>
    BY DEF EventsNext, eventVars, Emit, Skip, Fail, Reconnect
  <2> QED
    BY <2>1, <2>2, <2>3
<1> QED
  BY <1>1, <1>2, InvHolds, PTL DEF EventsSpec, ImplementsLog, RL!Spec

\* Recent(n) is the last n events of the log, the newest first: none is missing,
\* repeated, or read from a place never written (event_history.go:76-91).
THEOREM RecentIsRight == EventsSpec => []RecentIsNewest
<1>1. ASSUME EventsInv PROVE RecentIsNewest
  <2> SUFFICES ASSUME NEW n \in 0..(capacity + 1), NEW m,
                      m = IF n > count THEN count ELSE n
               PROVE  /\ Len(Recent(n)) = m
                      /\ \A i \in 1..m : Recent(n)[i] = OldestFirst[count - i + 1]
                                         /\ Recent(n)[i] \in Event
    BY DEF RecentIsNewest
  <2>1. /\ count \in 0..capacity /\ capacity \in Nat /\ m \in 0..count
        /\ head \in Int
    BY <1>1, HistoryAssumption DEF EventsInv, EventsTypeOK
  <2>2. Recent(n) = [i \in 1..m |-> buf[(head - i + capacity) % capacity]]
    BY DEF Recent
  <2>3. ASSUME NEW i \in 1..m
        PROVE  Recent(n)[i] = OldestFirst[count - i + 1] /\ Recent(n)[i] \in Event
    <3>1. count - i + 1 \in 1..count
      BY <2>1
    <3>2. head - count + (count - i + 1) - 1 + capacity = head - i + capacity
      BY <2>1
    <3>3. Place(count - i + 1) = (head - i + capacity) % capacity
      BY <3>2 DEF Place, At
    <3>4. OldestFirst[count - i + 1] = buf[Place(count - i + 1)]
      BY <1>1, <3>1, InOrderSeq
    <3> QED
      BY <1>1, <2>2, <3>1, <3>3, <3>4 DEF EventsInv, Written
  <2>4. Len(Recent(n)) = m
    <3>1. m \in Nat
      BY <2>1
    <3>2. Recent(n) \in [1..m -> Event]
      BY <2>2, <2>3
    <3> QED
      BY <3>1, <3>2
  <2> QED
    BY <2>3, <2>4
<1> QED
  BY <1>1, InvHolds, PTL
=============================================================================
