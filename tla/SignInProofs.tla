---------------------------- MODULE SignInProofs ----------------------------
(***************************************************************************)
(* Proofs about signing in: about Sessions, for every length of a second   *)
(* and of a session and any number of logins and restarts, and about       *)
(* LoginLimiter, for every limit, window, size of its table and number of  *)
(* clients and requests.                                                   *)
(***************************************************************************)
EXTENDS Sessions, LoginLimiter, FiniteSetTheorems, SequenceTheorems,
        WellFoundedInduction, TLAPS

----------------------------------------------------------------------------
(* Sessions.                                                               *)

\* A logout is not in the future (auth/session.go:20-25).
LoggedOut == invalidatedAt <= clock

\* The invariant: tokens are what SignToken makes, and neither they nor the last
\* logout are from the future.
Inv == SessionsTypeOK /\ Issued /\ LoggedOut

\* Whole seconds never run ahead of the clock (Unix() in auth/jwt.go:44).
LEMMA UnixBelow ==
    ASSUME NEW t \in Nat
    PROVE  Unix(t) \in Nat /\ Unix(t) <= t
<1>1. second \in Nat /\ second > 0
  BY SessionsAssumption, ClockAssumption
<1>2. t = second * (t \div second) + (t % second) /\ t % second \in 0..(second - 1)
  BY <1>1
<1>3. t \div second \in Nat
  BY <1>1
<1> DEFINE q == t \div second
<1>4. second * q = q * second /\ q * second \in Nat
  BY <1>1, <1>3
<1> QED
  BY <1>2, <1>4, <1>1 DEF Unix

\* SignToken makes a token of the key and time it is given.
LEMMA SignTokenOK ==
    ASSUME NEW at \in Nat, NEW k \in Nat
    PROVE  /\ SignToken(at, k) \in Token
           /\ SignToken(at, k).key = k /\ SignToken(at, k).at = at
<1>1. maxAge \in Nat /\ at + maxAge \in Nat
  BY SessionsAssumption, ClockAssumption
<1>2. Unix(at) \in Nat /\ Unix(at + maxAge) \in Nat
  BY <1>1, UnixBelow
<1> QED
  BY <1>2 DEF SignToken, Token

\* No token is signed, and nobody logged out, when the server starts.
LEMMA InvInit == SessionsInit => Inv
<1> SUFFICES ASSUME SessionsInit PROVE Inv
  OBVIOUS
<1>1. None \in Token
  BY DEF None, Token
<1>2. SessionsTypeOK
  BY <1>1 DEF SessionsInit, SessionsTypeOK, Zero
<1>3. Issued
  <2>1. \A l \in Login : asked[l] = 0 /\ cookie[l].key = 0 /\ cookie[l].at = 0
    BY DEF SessionsInit, Zero, None
  <2>2. clock = 1 /\ signingKey = 1
    BY DEF SessionsInit
  <2>3. ASSUME NEW l \in Login
        PROVE  /\ asked[l] <= clock /\ cookie[l].at <= clock
               /\ cookie[l].key <= signingKey
               /\ ~(cookie[l].key # 0)
    BY <2>1, <2>2
  <2> QED
    BY <2>3, Zenon DEF Issued
<1>4. LoggedOut
  BY DEF SessionsInit, LoggedOut, Zero
<1> QED
  BY <1>2, <1>3, <1>4 DEF Inv

\* Every step of a session keeps the invariant, the clock's included.
LEMMA InvStep == Inv /\ [SessionsNext]_<<clock, sessionVars>> => Inv'
<1> SUFFICES ASSUME Inv, [SessionsNext]_<<clock, sessionVars>> PROVE Inv'
  OBVIOUS
<1> USE DEF Inv, LoggedOut
<1>1. ASSUME NEW l \in Login, TakeNow(l) PROVE Inv'
  <2>1. SessionsTypeOK'
    BY <1>1 DEF TakeNow, SessionsTypeOK
  <2>2. Issued'
    BY <1>1 DEF TakeNow, SessionsTypeOK, Issued
  <2>3. LoggedOut'
    BY <1>1 DEF TakeNow
  <2> QED
    BY <2>1, <2>2, <2>3
<1>2. ASSUME NEW l \in Login, SetCookie(l) PROVE Inv'
  <2>1. asked[l] \in Nat /\ signingKey \in Nat
    BY DEF SessionsTypeOK
  <2> DEFINE t == SignToken(asked[l], signingKey)
  <2>2. t \in Token /\ t.key = signingKey /\ t.at = asked[l]
    BY <2>1, SignTokenOK
  <2>3. /\ cookie' = [cookie EXCEPT ![l] = t]
        /\ asked' = [asked EXCEPT ![l] = Zero]
        /\ UNCHANGED <<clock, signingKey, invalidatedAt>>
    BY <1>2 DEF SetCookie
  <2> HIDE DEF t
  <2>4. SessionsTypeOK'
    BY <2>2, <2>3 DEF SessionsTypeOK, Zero
  <2>5. ASSUME NEW m \in Login
        PROVE  /\ asked'[m] <= clock' /\ cookie'[m].at <= clock'
               /\ cookie'[m].key <= signingKey'
               /\ cookie'[m].key # 0 =>
                    /\ cookie'[m].at # Zero
                    /\ cookie'[m] = SignToken(cookie'[m].at, cookie'[m].key)
    <3>1. asked'[m] <= clock'
      BY <2>3 DEF SessionsTypeOK, Issued, Zero
    <3>2. CASE m = l
      <4>1. cookie'[m] = t
        BY <2>3, <3>2 DEF SessionsTypeOK
      <4>3. t.at <= clock
        BY <2>2 DEF Issued
      <4>2. cookie'[m] = SignToken(cookie'[m].at, cookie'[m].key)
        BY <4>1, <2>2 DEF t
      <4> QED
        BY <1>2, <3>1, <4>1, <4>2, <4>3, <2>1, <2>2, <2>3 DEF SetCookie
    <3>3. CASE m # l
      <4>1. cookie'[m] = cookie[m]
        BY <2>3, <3>3 DEF SessionsTypeOK
      <4> QED
        BY <3>1, <4>1, <2>3 DEF Issued
    <3> QED
      BY <3>2, <3>3
  <2>6. Issued'
    <3>1. \A at, k : SignToken(at, k)' = SignToken(at, k)
      BY DEF SignToken, Unix
    <3> QED
      BY <2>5, <3>1 DEF Issued
  <2>7. LoggedOut'
    BY <2>3
  <2> QED
    BY <2>4, <2>6, <2>7
<1>3. ASSUME NEW l \in Login, Logout(l) PROVE Inv'
  BY <1>3 DEF Logout, SessionsTypeOK, Issued
<1>4. CASE Restart
  <2>1. SessionsTypeOK'
    BY <1>4 DEF Restart, SessionsTypeOK, Zero
  <2>2. Issued'
    <3>1. ASSUME NEW m \in Login PROVE cookie[m].key <= signingKey + 1
      <4>1. cookie[m].key \in Nat /\ cookie[m].key <= signingKey
        BY DEF SessionsTypeOK, Token, Issued
      <4> QED
        BY <4>1 DEF SessionsTypeOK
    <3> QED
      BY <1>4, <3>1 DEF Restart, SessionsTypeOK, Issued, Zero
  <2>3. LoggedOut'
    BY <1>4 DEF Restart, SessionsTypeOK, Zero
  <2> QED
    BY <2>1, <2>2, <2>3
<1>5. CASE SessionsTick
  <2>1. /\ clock' = clock + 1 /\ clock \in Nat \ {0}
        /\ UNCHANGED <<signingKey, invalidatedAt, cookie, asked>>
    BY <1>5 DEF SessionsTick, SessionsTypeOK
  <2>2. SessionsTypeOK'
    BY <2>1 DEF SessionsTypeOK
  <2>3. ASSUME NEW m \in Login
        PROVE  asked[m] <= clock' /\ cookie[m].at <= clock'
    BY <2>1 DEF SessionsTypeOK, Token, Issued
  <2>4. \A at, k : SignToken(at, k)' = SignToken(at, k)
    BY DEF SignToken, Unix
  <2>5. Issued'
    BY <2>1, <2>3, <2>4 DEF Issued
  <2>6. LoggedOut'
    BY <2>1 DEF SessionsTypeOK
  <2> QED
    BY <2>2, <2>5, <2>6
<1>6. CASE UNCHANGED <<clock, sessionVars>>
  BY <1>6 DEF sessionVars, SessionsTypeOK, Issued
<1> QED
  BY <1>1, <1>2, <1>3, <1>4, <1>5, <1>6 DEF SessionsNext

\* Every state satisfies the invariant.
LEMMA InvHolds == SessionsSpec => []Inv
  BY InvInit, InvStep, PTL DEF SessionsSpec

\* Type correctness of the session model.
THEOREM TypeCorrect == SessionsSpec => []SessionsTypeOK
<1>1. Inv => SessionsTypeOK
  BY DEF Inv
<1> QED
  BY <1>1, InvHolds, PTL

\* What the middleware accepts is a token of this process, issued after the last
\* logout and within a session's length (auth/session.go:9, auth/jwt.go:108).
THEOREM OnlyLiveTokens == SessionsSpec => []AcceptedJustly
<1>1. Inv => AcceptedJustly
  <2> SUFFICES ASSUME Inv, NEW l \in Login, validateRequest(cookie[l])
               PROVE  /\ cookie[l].key = signingKey
                      /\ cookie[l].at > invalidatedAt
                      /\ clock <= cookie[l].at + maxAge
    BY DEF AcceptedJustly
  <2> DEFINE t == cookie[l]
  <2>1. /\ t.key = signingKey
        /\ clock <= t.exp
        /\ invalidatedAt = Zero \/ t.iat > invalidatedAt
    BY DEF validateRequest, VerifyToken, IsValid
  <2>2. t = SignToken(t.at, t.key) /\ t.at \in Nat /\ t.at > 0
    BY <2>1 DEF Inv, SessionsTypeOK, Issued, Token, Zero
  <2>3. t.iat = Unix(t.at) /\ t.exp = Unix(t.at + maxAge)
    BY <2>2 DEF SignToken
  <2>4. maxAge \in Nat /\ t.at + maxAge \in Nat
    BY <2>2, SessionsAssumption
  <2>5. /\ t.iat \in Nat /\ t.iat <= t.at
        /\ t.exp \in Nat /\ t.exp <= t.at + maxAge
    BY <2>2, <2>3, <2>4, UnixBelow
  <2>6. clock <= t.at + maxAge
    BY <2>1, <2>4, <2>5 DEF Inv, SessionsTypeOK
  <2>7. t.at > invalidatedAt
    BY <2>1, <2>2, <2>5 DEF Inv, SessionsTypeOK, Zero
  <2> QED
    BY <2>1, <2>6, <2>7
<1> QED
  BY <1>1, InvHolds, PTL

\* A token of the past is from no later than now, and so is the second it was
\* issued in.
LEMMA IssuedBefore ==
    ASSUME Inv, NEW l \in Login, cookie[l].key # 0
    PROVE  cookie[l].iat <= cookie[l].at /\ cookie[l].iat \in Nat
<1> DEFINE t == cookie[l]
<1>1. t = SignToken(t.at, t.key) /\ t.at \in Nat
  BY DEF Inv, SessionsTypeOK, Issued, Token
<1>2. t.iat = Unix(t.at)
  BY <1>1 DEF SignToken
<1> QED
  BY <1>1, <1>2, UnixBelow

\* No session comes back: neither time, nor a logout, a restart or the login of
\* another lets an issued token in that the middleware refused.
THEOREM NoSessionReturns == SessionsSpec => EndedForGood
<1> DEFINE Held == \A l \in Login :
             cookie'[l] = cookie[l] /\ validateRequest(cookie[l])'
               => validateRequest(cookie[l])
<1>1. Inv /\ [SessionsNext]_<<clock, sessionVars>>
        => [Held]_<<clock, sessionVars>>
  <2> SUFFICES ASSUME Inv, SessionsNext, NEW l \in Login,
                      cookie'[l] = cookie[l], validateRequest(cookie[l])'
               PROVE  validateRequest(cookie[l])
    OBVIOUS
  <2> DEFINE t == cookie[l]
  <2>1. /\ t.key = signingKey' /\ clock' <= t.exp
        /\ invalidatedAt' = 0 \/ t.iat > invalidatedAt'
    BY DEF validateRequest, VerifyToken, IsValid, Zero
  <2>2. /\ t.key \in Nat /\ t.iat \in Nat /\ t.exp \in Nat /\ t.key <= signingKey
        /\ t.at \in Nat /\ t.at <= clock
        /\ clock \in Nat \ {0} /\ signingKey \in Nat \ {0} /\ invalidatedAt \in Nat
        /\ invalidatedAt <= clock
    BY DEF Inv, SessionsTypeOK, Token, Issued, LoggedOut
  <2>3. t.key # 0 => t.iat <= t.at
    BY IssuedBefore
  <2>4. SUFFICES t.key = signingKey /\ clock <= t.exp
                   /\ (invalidatedAt = 0 \/ t.iat > invalidatedAt)
    BY DEF validateRequest, VerifyToken, IsValid, Zero
  <2>5. ASSUME NEW m \in Login, TakeNow(m) \/ SetCookie(m)
        PROVE  UNCHANGED <<clock, signingKey, invalidatedAt>>
    BY <2>5 DEF TakeNow, SetCookie
  <2>6. ASSUME NEW m \in Login, Logout(m) PROVE FALSE
    BY <2>6, <2>1, <2>2, <2>3 DEF Logout
  <2>7. CASE Restart
    BY <2>7, <2>1, <2>2 DEF Restart
  <2>8. CASE SessionsTick
    BY <2>8, <2>1, <2>2 DEF SessionsTick
  <2> QED
    BY <2>1, <2>5, <2>6, <2>7, <2>8 DEF SessionsNext
<1> QED
  BY <1>1, InvHolds, PTL DEF SessionsSpec, EndedForGood

----------------------------------------------------------------------------
(* How many elements of a sequence are over a bound.                       *)

Over(s, c) == {i \in 1..Len(s) : s[i] > c}
CountOver(s, c) == Cardinality(Over(s, c))

\* A non-empty set of positions has a first one.
LEMMA FirstOfPositions ==
    ASSUME NEW S, S # {}, S \subseteq Nat
    PROVE  \E f \in S : \A j \in S : f <= j
<1>1. PICK f \in S : \A b \in S : ~(<<b, f>> \in OpToRel(<, Nat))
  BY NatLessThanWellFounded, WFMin
<1>2. ASSUME NEW b \in S PROVE ~(b < f)
  <2>1. b \in Nat /\ f \in Nat
    OBVIOUS
  <2>2. b < f => <<b, f>> \in OpToRel(<, Nat)
    BY <2>1 DEF OpToRel
  <2> QED
    BY <1>1, <2>2
<1>3. \A b \in S : f <= b
  BY <1>2
<1> QED
  BY <1>3

\* And a last one, when there is a bound.
LEMMA LastOfPositions ==
    ASSUME NEW n \in Nat, NEW S, S # {}, S \subseteq 1..n
    PROVE  \E l \in S : \A j \in S : j <= l
<1> DEFINE R == {i \in 0..n : n - i \in S}
<1>0. ASSUME NEW s \in S PROVE n - s \in R
  <2>1. s \in 1..n
    OBVIOUS
  <2>2. n - s \in 0..n /\ n - (n - s) = s
    BY <2>1
  <2> QED
    BY <2>2
<1>1. R \subseteq Nat
  OBVIOUS
<1>5. R # {}
  <2> HIDE DEF R
  <2> QED
    BY <1>0
<1>2. PICK f \in R : \A j \in R : f <= j
  BY <1>1, <1>5, FirstOfPositions
<1>3. n - f \in S /\ f \in 0..n
  BY <1>2
<1>4. ASSUME NEW j \in S PROVE j <= n - f
  <2>1. f <= n - j /\ j \in 1..n
    BY <1>0, <1>2
  <2> QED
    BY <1>3, <2>1
<1> QED
  BY <1>3, <1>4

LEMMA OverFinite ==
    ASSUME NEW s \in Seq(Int), NEW c \in Int
    PROVE  IsFiniteSet(Over(s, c)) /\ CountOver(s, c) \in Nat
<1>1. Len(s) \in Nat
  BY LenProperties
<1>2. IsFiniteSet(1..Len(s))
  BY <1>1, FS_Interval
<1>3. Over(s, c) \subseteq 1..Len(s)
  BY DEF Over
<1> QED
  BY <1>2, <1>3, FS_Subset, FS_CardinalityType DEF CountOver

LEMMA NoneOver ==
    ASSUME NEW s \in Seq(Int), NEW c \in Int, \A i \in 1..Len(s) : s[i] <= c
    PROVE  CountOver(s, c) = 0
<1>1. \A i \in 1..Len(s) : s[i] \in Int
  BY ElementOfSeq
<1>2. Over(s, c) = {}
  BY <1>1 DEF Over
<1> QED
  BY <1>2, FS_EmptySet DEF CountOver

\* One more element counts when it is over the bound.
LEMMA AppendCounts ==
    ASSUME NEW s \in Seq(Int), NEW c \in Int, NEW x \in Int
    PROVE  CountOver(Append(s, x), c) = IF x > c THEN CountOver(s, c) + 1 ELSE CountOver(s, c)
<1> DEFINE t == Append(s, x)
           p == Len(s) + 1
<1>1. Len(s) \in Nat /\ Len(t) = p /\ t[p] = x /\ \A i \in 1..Len(s) : t[i] = s[i]
  BY LenProperties, AppendProperties
<1>2. p \notin Over(s, c)
  BY <1>1 DEF Over
<1>3. Over(t, c) = IF x > c THEN Over(s, c) \cup {p} ELSE Over(s, c)
  <2> HIDE DEF t
  <2>1. \A i : i \in 1..p <=> i \in 1..Len(s) \/ i = p
    BY <1>1
  <2> QED
    BY <1>1, <2>1 DEF Over
<1> QED
  BY <1>2, <1>3, OverFinite, FS_AddElement DEF CountOver

\* A shifted part of a sequence counts no more than the whole.
LEMMA EmbeddingCounts ==
    ASSUME NEW s \in Seq(Int), NEW t \in Seq(Int), NEW c \in Int,
           NEW f \in [Over(s, c) -> Over(t, c)],
           \A i, j \in Over(s, c) : f[i] = f[j] => i = j
    PROVE  CountOver(s, c) <= CountOver(t, c)
<1>1. f \in Injection(Over(s, c), Over(t, c))
  BY DEF Injection, IsInjective
<1> QED
  BY <1>1, OverFinite, FS_Injection DEF CountOver
\* A sequence without one of its elements.
LEMMA RemovedAt ==
    ASSUME NEW S, NEW s \in Seq(S), NEW p \in 1..Len(s)
    PROVE  /\ RemoveAt(s, p) \in Seq(S) /\ Len(RemoveAt(s, p)) = Len(s) - 1
           /\ \A k \in 1..(Len(s) - 1) :
                 RemoveAt(s, p)[k] = IF k < p THEN s[k] ELSE s[k + 1]
<1> DEFINE a == SubSeq(s, 1, p - 1)
           b == SubSeq(s, p + 1, Len(s))
<1>1. Len(s) \in Nat /\ \A i \in 1..Len(s) : s[i] \in S
  BY LenProperties
<1>2. /\ a \in Seq(S) /\ Len(a) = p - 1
      /\ \A k \in 1..(p - 1) : a[k] = s[k]
  <2>1. \A i \in 1..(p - 1) : s[i] \in S
    BY <1>1
  <2>2. 1 \in Int /\ p - 1 \in Int
    BY <1>1
  <2> QED
    BY <1>1, <2>1, <2>2, SubSeqProperties
<1>3. /\ b \in Seq(S) /\ Len(b) = Len(s) - p
      /\ \A k \in 1..(Len(s) - p) : b[k] = s[p + k]
  <2>1. \A i \in (p + 1)..Len(s) : s[i] \in S
    BY <1>1
  <2> QED
    BY <1>1, <2>1, SubSeqProperties
<1>4. RemoveAt(s, p) = a \o b
  BY DEF RemoveAt
<1> HIDE DEF a, b
<1>5. /\ a \o b \in Seq(S) /\ Len(a \o b) = Len(a) + Len(b)
      /\ \A k \in 1..(Len(a) + Len(b)) : (a \o b)[k] = IF k <= Len(a) THEN a[k] ELSE b[k - Len(a)]
  BY <1>2, <1>3, ConcatProperties
<1>6. Len(a) + Len(b) = Len(s) - 1
  BY <1>1, <1>2, <1>3
<1>7. ASSUME NEW k \in 1..(Len(s) - 1)
      PROVE  (a \o b)[k] = IF k < p THEN s[k] ELSE s[k + 1]
  <2>1. CASE k < p
    BY <1>1, <1>2, <1>5, <1>6, <2>1
  <2>2. CASE ~(k < p)
    <3>1. (a \o b)[k] = b[k - Len(a)] /\ k - Len(a) = k - p + 1 /\ k - p + 1 \in 1..(Len(s) - p)
      BY <1>1, <1>2, <1>5, <1>6, <2>2
    <3>2. b[k - p + 1] = s[p + (k - p + 1)]
      BY <1>3, <3>1
    <3>3. p + (k - p + 1) = k + 1
      BY <1>1
    <3>4. (a \o b)[k] = s[k + 1]
      BY <3>1, <3>2, <3>3
    <3> QED
      BY <2>2, <3>4
  <2> QED
    BY <2>1, <2>2
<1> QED
  BY <1>4, <1>5, <1>6, <1>7

\* The attempts that are kept are the part from the first fresh one on.
LEMMA ExpireIs ==
    ASSUME NEW s \in Seq(Int), NEW c \in Int
    PROVE  \/ /\ expire(s, c) = <<>> /\ Over(s, c) = {}
           \/ \E f \in 1..Len(s) :
                /\ s[f] > c /\ \A i \in 1..(f - 1) : s[i] <= c
                /\ expire(s, c) \in Seq(Int) /\ Len(expire(s, c)) = Len(s) - f + 1
                /\ \A i \in 1..(Len(s) - f + 1) : expire(s, c)[i] = s[f + i - 1]
<1>1. Len(s) \in Nat /\ \A i \in 1..Len(s) : s[i] \in Int
  BY LenProperties, ElementOfSeq
<1>2. CASE Over(s, c) = {}
  BY <1>2 DEF expire, Over
<1>3. CASE Over(s, c) # {}
  <2> DEFINE f == CHOOSE i \in Over(s, c) : \A j \in Over(s, c) : i <= j
  <2>1. Over(s, c) \subseteq Nat
    BY <1>1 DEF Over
  <2>2. f \in Over(s, c) /\ \A j \in Over(s, c) : f <= j
    BY <1>3, <2>1, FirstOfPositions
  <2>3. expire(s, c) = SubSeq(s, f, Len(s))
    BY <1>3 DEF expire, Over
  <2> HIDE DEF f
  <2>4. f \in 1..Len(s) /\ s[f] > c
    BY <2>2 DEF Over
  <2>5. \A i \in 1..(f - 1) : s[i] <= c
    <3>1. ASSUME NEW i \in 1..(f - 1) PROVE s[i] <= c
      <4>1. i \in 1..Len(s) /\ ~(f <= i)
        BY <1>1, <2>4
      <4>2. i \notin Over(s, c) /\ s[i] \in Int
        BY <1>1, <2>2, <4>1
      <4> QED
        BY <4>1, <4>2 DEF Over
    <3> QED
      BY <3>1
  <2>6. \A i \in f..Len(s) : s[i] \in Int
    BY <1>1, <2>4
  <2>7. /\ SubSeq(s, f, Len(s)) \in Seq(Int) /\ Len(SubSeq(s, f, Len(s))) = Len(s) - f + 1
        /\ \A i \in 1..(Len(s) - f + 1) : SubSeq(s, f, Len(s))[i] = s[f + i - 1]
    BY <1>1, <2>4, <2>6, SubSeqProperties
  <2> QED
    BY <2>3, <2>4, <2>5, <2>7
<1> QED
  BY <1>2, <1>3

\* So dropping what is out of a window leaves what is in a later one.
LEMMA ExpireCounts ==
    ASSUME NEW s \in Seq(Int), NEW c \in Int, NEW d \in Int, c <= d
    PROVE  CountOver(expire(s, c), d) = CountOver(s, d) /\ expire(s, c) \in Seq(Int)
<1>1. Len(s) \in Nat /\ \A i \in 1..Len(s) : s[i] \in Int
  BY LenProperties, ElementOfSeq
<1>2. CASE expire(s, c) = <<>> /\ Over(s, c) = {}
  <2>1. \A i \in 1..Len(s) : s[i] <= d
    BY <1>1, <1>2 DEF Over
  <2>2. CountOver(s, d) = 0
    BY <2>1, NoneOver
  <2>3. <<>> \in Seq(Int) /\ Len(<<>>) = 0
    BY EmptySeq
  <2>4. CountOver(<<>>, d) = 0
    <3> DEFINE e == <<>>
    <3>1. e \in Seq(Int) /\ Len(e) = 0
      BY <2>3
    <3> HIDE DEF e
    <3>2. \A i \in 1..Len(e) : e[i] <= d
      BY <3>1
    <3>3. CountOver(e, d) = 0
      BY <3>1, <3>2, NoneOver
    <3> QED
      BY <3>3 DEF e
  <2> QED
    BY <1>2, <2>2, <2>3, <2>4
<1>3. CASE \E f \in 1..Len(s) :
                /\ s[f] > c /\ \A i \in 1..(f - 1) : s[i] <= c
                /\ expire(s, c) \in Seq(Int) /\ Len(expire(s, c)) = Len(s) - f + 1
                /\ \A i \in 1..(Len(s) - f + 1) : expire(s, c)[i] = s[f + i - 1]
  <2> DEFINE t == expire(s, c)
  <2>1. PICK f \in 1..Len(s) :
                /\ \A i \in 1..(f - 1) : s[i] <= c
                /\ t \in Seq(Int) /\ Len(t) = Len(s) - f + 1
                /\ \A i \in 1..(Len(s) - f + 1) : t[i] = s[f + i - 1]
    BY <1>3
  <2> HIDE DEF t
  <2>2. CountOver(t, d) <= CountOver(s, d)
    <3> DEFINE m == [i \in Over(t, d) |-> f + i - 1]
    <3>1. ASSUME NEW i \in Over(t, d) PROVE f + i - 1 \in Over(s, d) /\ i \in Int
      BY <1>1, <2>1 DEF Over
    <3>2. m \in [Over(t, d) -> Over(s, d)]
      BY <3>1
    <3>3. \A i, j \in Over(t, d) : m[i] = m[j] => i = j
      BY <3>1
    <3> HIDE DEF m
    <3> QED
      BY <2>1, <3>2, <3>3, EmbeddingCounts
  <2>3. CountOver(s, d) <= CountOver(t, d)
    <3> DEFINE m == [i \in Over(s, d) |-> i - f + 1]
    <3>1. ASSUME NEW i \in Over(s, d) PROVE i - f + 1 \in Over(t, d) /\ i \in Int
      <4>1. i \in 1..Len(s) /\ s[i] > d /\ s[i] \in Int
        BY <1>1 DEF Over
      <4>2. ~(i \in 1..(f - 1))
        BY <2>1, <4>1
      <4>3. i - f + 1 \in 1..(Len(s) - f + 1) /\ f + (i - f + 1) - 1 = i
        BY <1>1, <4>1, <4>2
      <4>4. t[i - f + 1] = s[i]
        BY <2>1, <4>3
      <4> QED
        BY <2>1, <4>1, <4>3, <4>4 DEF Over
    <3>2. m \in [Over(s, d) -> Over(t, d)]
      BY <3>1
    <3>3. \A i, j \in Over(s, d) : m[i] = m[j] => i = j
      BY <3>1
    <3> HIDE DEF m
    <3> QED
      BY <2>1, <3>2, <3>3, EmbeddingCounts
  <2>4. CountOver(t, d) = CountOver(s, d)
    <3>1. CountOver(t, d) \in Nat /\ CountOver(s, d) \in Nat
      BY <2>1, OverFinite
    <3> QED
      BY <2>2, <2>3, <3>1
  <2> QED
    BY <2>1, <2>4 DEF t
<1> QED
  BY <1>2, <1>3, ExpireIs

\* Taking an element out costs at most one.
LEMMA RemoveCounts ==
    ASSUME NEW s \in Seq(Int), NEW p \in 1..Len(s), NEW c \in Int
    PROVE  CountOver(s, c) - 1 <= CountOver(RemoveAt(s, p), c) /\ RemoveAt(s, p) \in Seq(Int)
<1> DEFINE t == RemoveAt(s, p)
           rest == Over(s, c) \ {p}
           m == [i \in rest |-> IF i < p THEN i ELSE i - 1]
<1>1. Len(s) \in Nat /\ \A i \in 1..Len(s) : s[i] \in Int
  BY LenProperties, ElementOfSeq
<1>2. /\ t \in Seq(Int) /\ Len(t) = Len(s) - 1
      /\ \A i \in 1..(Len(s) - 1) : t[i] = IF i < p THEN s[i] ELSE s[i + 1]
  BY RemovedAt
<1> HIDE DEF t
<1>3. ASSUME NEW i \in rest PROVE i \in Int /\ (IF i < p THEN i ELSE i - 1) \in Over(t, c)
  <2>1. i \in 1..Len(s) /\ s[i] > c /\ i # p
    BY DEF Over
  <2>2. CASE i < p
    BY <1>1, <1>2, <2>1, <2>2 DEF Over
  <2>3. CASE ~(i < p)
    <3>1. i - 1 \in 1..(Len(s) - 1) /\ ~(i - 1 < p) /\ i - 1 + 1 = i
      BY <1>1, <2>1, <2>3
    <3>2. t[i - 1] = s[i]
      BY <1>2, <3>1
    <3> QED
      BY <1>2, <2>1, <2>3, <3>1, <3>2 DEF Over
  <2> QED
    BY <2>2, <2>3
<1> HIDE DEF rest
<1>4. m \in [rest -> Over(t, c)]
  BY <1>3
<1>5. ASSUME NEW i \in rest, NEW j \in rest, m[i] = m[j] PROVE i = j
  <2>1. i \in Int /\ j \in Int /\ i # p /\ j # p
    BY <1>3 DEF rest
  <2>2. (IF i < p THEN i ELSE i - 1) = (IF j < p THEN j ELSE j - 1)
    BY <1>5
  <2> QED
    BY <1>1, <2>1, <2>2
<1>6. m \in Injection(rest, Over(t, c))
  <2> HIDE DEF m
  <2> QED
    BY <1>4, <1>5 DEF Injection, IsInjective
<1>7. Cardinality(rest) <= CountOver(t, c)
  <2> HIDE DEF m
  <2> QED
    BY <1>2, <1>6, OverFinite, FS_Injection DEF CountOver
<1>8. CountOver(s, c) - 1 <= Cardinality(rest)
  <2>1. IsFiniteSet(Over(s, c)) /\ CountOver(s, c) \in Nat
    BY OverFinite
  <2>2. Cardinality(rest) = IF p \in Over(s, c) THEN CountOver(s, c) - 1 ELSE CountOver(s, c)
    BY <2>1, FS_RemoveElement DEF CountOver, rest
  <2> QED
    BY <2>1, <2>2
<1>9. CountOver(s, c) \in Nat /\ CountOver(t, c) \in Nat /\ Cardinality(rest) \in Nat
  <2>1. IsFiniteSet(rest)
    BY OverFinite, FS_RemoveElement DEF rest
  <2> QED
    BY <1>2, <2>1, OverFinite, FS_CardinalityType
<1> QED
  BY <1>2, <1>7, <1>8, <1>9 DEF t

\* Taking the last element out of an ascending sequence costs one where any counts.
LEMMA DropLastCounts ==
    ASSUME NEW s \in Seq(Int), Len(s) # 0, NEW c \in Int,
           \A i \in 1..Len(s) : s[i] <= s[Len(s)]
    PROVE  /\ SubSeq(s, 1, Len(s) - 1) \in Seq(Int)
           /\ CountOver(SubSeq(s, 1, Len(s) - 1), c)
                = IF CountOver(s, c) = 0 THEN 0 ELSE CountOver(s, c) - 1
<1> DEFINE t == SubSeq(s, 1, Len(s) - 1)
           n == Len(s)
<1>1. n \in Nat \ {0} /\ \A i \in 1..n : s[i] \in Int
  BY LenProperties, ElementOfSeq
<1>2. /\ t \in Seq(Int) /\ Len(t) = n - 1 /\ \A i \in 1..(n - 1) : t[i] = s[i]
  <2>1. \A i \in 1..(n - 1) : s[i] \in Int
    BY <1>1
  <2>2. 1 \in Int /\ n - 1 \in Int
    BY <1>1
  <2> HIDE DEF n
  <2>3. /\ SubSeq(s, 1, n - 1) \in Seq(Int)
        /\ Len(SubSeq(s, 1, n - 1)) = IF 1 <= n - 1 THEN n - 1 - 1 + 1 ELSE 0
        /\ \A i \in 1..(n - 1 - 1 + 1) : SubSeq(s, 1, n - 1)[i] = s[1 + i - 1]
    BY <2>1, <2>2, SubSeqProperties
  <2>4. t = SubSeq(s, 1, n - 1)
    BY DEF n
  <2> HIDE DEF t
  <2> QED
    BY <1>1, <2>3, <2>4
<1> HIDE DEF t
<1>3. CASE s[n] > c
  <2>1. Over(s, c) = Over(t, c) \cup {n} /\ n \notin Over(t, c)
    <3>1. \A i : i \in 1..n <=> i \in 1..(n - 1) \/ i = n
      BY <1>1
    <3>2. Over(s, c) = {i \in 1..n : s[i] > c} /\ Over(t, c) = {i \in 1..(n - 1) : t[i] > c}
      BY <1>2 DEF Over
    <3>3. \A i \in 1..(n - 1) : i # n
      BY <1>1
    <3> HIDE DEF n
    <3>4. \A i : i \in Over(s, c) <=> i \in Over(t, c) \/ i = n
      BY <1>2, <1>3, <3>1, <3>2
    <3> QED
      BY <3>2, <3>3, <3>4
  <2>2. IsFiniteSet(Over(t, c)) /\ CountOver(t, c) \in Nat
    BY <1>2, OverFinite
  <2>3. CountOver(s, c) = CountOver(t, c) + 1
    BY <2>1, <2>2, FS_AddElement DEF CountOver
  <2>4. CountOver(t, c) = IF CountOver(s, c) = 0 THEN 0 ELSE CountOver(s, c) - 1
    BY <2>2, <2>3
  <2> QED
    BY <1>2, <2>4 DEF t
<1>4. CASE ~(s[n] > c)
  <2>1. \A i \in 1..n : s[i] <= c
    BY <1>1, <1>4
  <2>2. CountOver(s, c) = 0
    BY <2>1, NoneOver
  <2>3. \A i \in 1..Len(t) : t[i] <= c
    BY <1>1, <1>2, <2>1
  <2>4. CountOver(t, c) = 0
    BY <1>2, <2>3, NoneOver
  <2> QED
    BY <1>2, <2>2, <2>4 DEF t
<1> QED
  BY <1>3, <1>4

----------------------------------------------------------------------------
(* The list of buckets.                                                    *)

Buckets(o) ==
  /\ o \in Seq(Bucket)
  /\ \A i, j \in 1..Len(o) : i < j => o[i].key # o[j].key /\ o[i].lastSeen >= o[j].lastSeen

PartOf(p, o) == \A i \in 1..Len(p) : \E j \in 1..Len(o) : p[i] = o[j]

LEMMA BucketIs ==
    ASSUME NEW o, Buckets(o), NEW i \in 1..Len(o)
    PROVE  o[i] \in Bucket /\ o[i].key \in Tracked(o) /\ BucketOf(o, o[i].key) = o[i]
<1>1. o[i] \in Bucket /\ Len(o) \in Nat
  BY ElementOfSeq, LenProperties DEF Buckets
<1>2. o[i].key \in Tracked(o)
  BY DEF Tracked
<1>3. \A j \in 1..Len(o) : o[j].key = o[i].key => j = i
  BY <1>1 DEF Buckets
<1>4. Place(o, o[i].key) = i
  BY <1>3 DEF Place
<1> QED
  BY <1>1, <1>2, <1>4 DEF BucketOf

LEMMA TrackedAt ==
    ASSUME NEW o, Buckets(o), NEW k \in Tracked(o)
    PROVE  /\ Place(o, k) \in 1..Len(o) /\ o[Place(o, k)].key = k
           /\ BucketOf(o, k) = o[Place(o, k)] /\ k \in Key
<1>1. PICK i \in 1..Len(o) : o[i].key = k
  BY DEF Tracked
<1>2. Place(o, k) \in 1..Len(o) /\ o[Place(o, k)].key = k
  BY <1>1 DEF Place
<1>3. o[i] \in Bucket
  BY ElementOfSeq DEF Buckets
<1> QED
  BY <1>1, <1>2, <1>3 DEF BucketOf, Bucket

\* Every client has a bucket of its own, empty if it is not in the list.
LEMMA BucketTyped ==
    ASSUME NEW o, Buckets(o), NEW k \in Key
    PROVE  BucketOf(o, k) \in Bucket /\ BucketOf(o, k).key = k
<1>1. CASE k \in Tracked(o)
  BY <1>1, TrackedAt, BucketIs
<1>2. CASE k \notin Tracked(o)
  <2>1. <<>> \in Seq(Int) /\ Never \in Int
    BY LimiterAssumption, EmptySeq DEF Never
  <2> QED
    BY <1>2, <2>1 DEF BucketOf, EmptyBucket, Bucket
<1> QED
  BY <1>1, <1>2

\* A part of the list has the same buckets for the clients it keeps.
LEMMA PartKeeps ==
    ASSUME NEW o, Buckets(o), NEW p, Buckets(p), PartOf(p, o), NEW k \in Tracked(p)
    PROVE  k \in Tracked(o) /\ BucketOf(p, k) = BucketOf(o, k)
<1>1. Place(p, k) \in 1..Len(p) /\ p[Place(p, k)].key = k /\ BucketOf(p, k) = p[Place(p, k)]
  BY TrackedAt
<1>2. PICK j \in 1..Len(o) : p[Place(p, k)] = o[j]
  BY <1>1 DEF PartOf
<1> QED
  BY <1>1, <1>2, BucketIs

\* Of the clients not seen since cutoff only those at the back go, and all of those do.
LEMMA StaleGone ==
    ASSUME NEW o, Buckets(o), cutoff \in Int
    PROVE  /\ Buckets(removeStale(o)) /\ PartOf(removeStale(o), o)
           /\ Len(removeStale(o)) <= Len(o)
           /\ \A k \in Tracked(o) \ Tracked(removeStale(o)) : BucketOf(o, k).lastSeen <= cutoff
           /\ Len(removeStale(o)) = Len(o) => removeStale(o) = o
           /\ \A i \in 1..Len(removeStale(o)) : removeStale(o)[i].lastSeen > cutoff
<1> DEFINE active == {i \in 1..Len(o) : o[i].lastSeen > cutoff}
           n == IF active = {} THEN 0 ELSE CHOOSE i \in active : \A j \in active : j <= i
           p == removeStale(o)
<1>1. Len(o) \in Nat /\ o \in Seq(Bucket) /\ \A i \in 1..Len(o) : o[i] \in Bucket /\ o[i].lastSeen \in Int
  <2>1. Len(o) \in Nat /\ o \in Seq(Bucket)
    BY LenProperties DEF Buckets
  <2>2. \A i \in 1..Len(o) : o[i] \in Bucket
    BY <2>1, ElementOfSeq
  <2>3. \A b \in Bucket : b.lastSeen \in Int
    BY DEF Bucket
  <2> QED
    BY <2>1, <2>2, <2>3
<1>2. n \in 0..Len(o) /\ (n # 0 => o[n].lastSeen > cutoff)
      /\ \A i \in 1..Len(o) : i > n => o[i].lastSeen <= cutoff
  <2>1. CASE active = {}
    BY <1>1, <2>1
  <2>2. CASE active # {}
    <3>1. \E l \in active : \A j \in active : j <= l
      <4> HIDE DEF active
      <4>1. active \subseteq 1..Len(o)
        BY DEF active
      <4> QED
        BY <1>1, <2>2, <4>1, LastOfPositions
    <3>2. n \in active /\ \A j \in active : j <= n
      <4> HIDE DEF active
      <4> QED
        BY <2>2, <3>1
    <3> HIDE DEF n
    <3>3. ASSUME NEW i \in 1..Len(o), i > n PROVE o[i].lastSeen <= cutoff
      <4>1. i \notin active
        BY <1>1, <3>2, <3>3
      <4> QED
        BY <1>1, <4>1
    <3>4. n \in 1..Len(o) /\ o[n].lastSeen > cutoff
      BY <3>2
    <3> QED
      BY <1>1, <3>3, <3>4
  <2> QED
    BY <2>1, <2>2
<1>3. p = SubSeq(o, 1, n)
  BY DEF removeStale
<1> HIDE DEF n, p, active
<1>4. p \in Seq(Bucket) /\ Len(p) = n /\ \A i \in 1..n : p[i] = o[i]
  <2>1. \A i \in 1..n : o[i] \in Bucket
    BY <1>1, <1>2
  <2>2. 1 \in Int /\ n \in Int
    BY <1>2
  <2>3. /\ SubSeq(o, 1, n) \in Seq(Bucket)
        /\ Len(SubSeq(o, 1, n)) = IF 1 <= n THEN n - 1 + 1 ELSE 0
        /\ \A i \in 1..(n - 1 + 1) : SubSeq(o, 1, n)[i] = o[1 + i - 1]
    BY <2>1, <2>2, SubSeqProperties
  <2> QED
    BY <1>2, <1>3, <2>3
<1>5. Buckets(p)
  BY <1>1, <1>2, <1>4 DEF Buckets
<1>6. PartOf(p, o)
  BY <1>1, <1>2, <1>4 DEF PartOf
<1>7. ASSUME NEW k \in Tracked(o) \ Tracked(p) PROVE BucketOf(o, k).lastSeen <= cutoff
  <2>1. Place(o, k) \in 1..Len(o) /\ o[Place(o, k)].key = k /\ BucketOf(o, k) = o[Place(o, k)]
    BY TrackedAt
  <2>2. ~(Place(o, k) \in 1..n)
    BY <1>4, <2>1 DEF Tracked
  <2> QED
    BY <1>1, <1>2, <2>1, <2>2
<1>8. Len(p) = Len(o) => p = o
  BY <1>1, <1>4, SeqEqual
<1>9. ASSUME NEW i \in 1..Len(p) PROVE p[i].lastSeen > cutoff
  <2>1. i \in 1..n /\ n \in 1..Len(o) /\ i \in 1..Len(o) /\ o[n].lastSeen > cutoff /\ p[i] = o[i]
    BY <1>1, <1>2, <1>4
  <2>2. i = n \/ i < n
    BY <2>1, <1>1
  <2>3. o[i].lastSeen >= o[n].lastSeen
    BY <1>1, <2>1, <2>2 DEF Buckets
  <2> QED
    BY <1>1, <2>1, <2>3
<1> QED
  BY <1>1, <1>2, <1>4, <1>5, <1>6, <1>7, <1>8, <1>9 DEF p

\* Making room: all but the client itself and, when the table is full, the one at the back.
LEMMA OthersStay ==
    ASSUME NEW o, Buckets(o), Len(o) <= maxKeys, NEW k \in Key
    PROVE  /\ Buckets(Others(o, k)) /\ PartOf(Others(o, k), o)
           /\ Len(Others(o, k)) < maxKeys /\ k \notin Tracked(Others(o, k))
           /\ \A j \in Tracked(o) \ Tracked(Others(o, k)) :
                j # k => k \notin Tracked(o) /\ Len(o) = maxKeys /\ j = o[Len(o)].key
<1> DEFINE p == Others(o, k)
           n == Len(o)
<1>1. n \in Nat /\ o \in Seq(Bucket) /\ \A i \in 1..n : o[i] \in Bucket
  BY ElementOfSeq, LenProperties DEF Buckets
<1>2. maxKeys \in Nat \ {0}
  BY LimiterAssumption
<1>3. CASE k \in Tracked(o)
  <2> DEFINE at == Place(o, k)
  <2>1. at \in 1..n /\ o[at].key = k
    BY <1>3, TrackedAt
  <2> HIDE DEF at
  <2>2. p = RemoveAt(o, at)
    BY <1>3 DEF Others, at
  <2>3. /\ p \in Seq(Bucket) /\ Len(p) = n - 1
        /\ \A i \in 1..(n - 1) : p[i] = IF i < at THEN o[i] ELSE o[i + 1]
    BY <1>1, <2>1, <2>2, RemovedAt
  <2> HIDE DEF p, n
  <2>4. Buckets(p)
    <3>1. ASSUME NEW i \in 1..(n - 1), NEW j \in 1..(n - 1), i < j
          PROVE  p[i].key # p[j].key /\ p[i].lastSeen >= p[j].lastSeen
      <4>1. PICK a \in 1..n, b \in 1..n : p[i] = o[a] /\ p[j] = o[b] /\ a < b
        <5>1. CASE j < at
          <6>1. i < at /\ i \in 1..n /\ j \in 1..n
            BY <1>1, <2>1, <3>1, <5>1
          <6> QED
            BY <2>3, <3>1, <5>1, <6>1
        <5>2. CASE ~(j < at)
          <6>1. j + 1 \in 1..n /\ i \in 1..n /\ i + 1 \in 1..n /\ i < j + 1 /\ i + 1 < j + 1
            BY <1>1, <3>1
          <6> QED
            BY <2>3, <5>2, <6>1
        <5> QED
          BY <5>1, <5>2
      <4> QED
        BY <4>1 DEF Buckets, n
    <3> QED
      BY <2>3, <3>1 DEF Buckets
  <2>5. PartOf(p, o)
    <3>1. ASSUME NEW i \in 1..(n - 1) PROVE i \in 1..n /\ i + 1 \in 1..n
      BY <1>1
    <3> QED
      BY <2>3, <3>1 DEF PartOf, n
  <2>6. k \notin Tracked(p)
    <3>1. ASSUME NEW i \in 1..(n - 1) PROVE p[i].key # k
      <4>1. PICK a \in 1..n : p[i] = o[a] /\ a # at
        <5>1. i \in 1..n /\ i + 1 \in 1..n
          BY <1>1
        <5>2. i < at => i # at
          BY <2>1, <1>1
        <5>3. ~(i < at) => i + 1 # at
          BY <2>1, <1>1
        <5> QED
          BY <2>3, <5>1, <5>2, <5>3
      <4>2. a < at \/ at < a
        BY <1>1, <2>1, <4>1
      <4> QED
        BY <2>1, <4>1, <4>2 DEF Buckets, n
    <3> QED
      BY <2>3, <3>1 DEF Tracked
  <2>7. ASSUME NEW j \in Tracked(o), j # k PROVE j \in Tracked(p)
    <3>1. PICK a \in 1..n : o[a].key = j
      BY DEF Tracked, n
    <3>2. a # at
      BY <2>1, <2>7, <3>1
    <3>3. \E i \in 1..(n - 1) : p[i] = o[a]
      <4>1. CASE a < at
        <5>1. a \in 1..(n - 1)
          BY <1>1, <2>1, <4>1
        <5> QED
          BY <2>3, <4>1, <5>1
      <4>2. CASE ~(a < at)
        <5>1. a - 1 \in 1..(n - 1) /\ ~(a - 1 < at) /\ a - 1 + 1 = a
          BY <1>1, <2>1, <3>2, <4>2
        <5> QED
          BY <2>3, <5>1
      <4> QED
        BY <4>1, <4>2
    <3> QED
      BY <2>3, <3>1, <3>3 DEF Tracked
  <2>8. Len(p) < maxKeys
    BY <1>1, <1>2, <2>3 DEF n
  <2> QED
    BY <2>4, <2>5, <2>6, <2>7, <2>8 DEF p
<1>4. CASE k \notin Tracked(o) /\ n >= maxKeys
  <2>1. n = maxKeys /\ n - 1 \in Nat
    BY <1>1, <1>2, <1>4
  <2>2. p = SubSeq(o, 1, n - 1)
    BY <1>4 DEF Others
  <2> HIDE DEF p, n
  <2>3. p \in Seq(Bucket) /\ Len(p) = n - 1 /\ \A i \in 1..(n - 1) : p[i] = o[i] /\ i \in 1..n
    <3>1. \A i \in 1..(n - 1) : o[i] \in Bucket /\ i \in 1..n
      BY <1>1
    <3>2. 1 \in Int /\ n - 1 \in Int
      BY <1>1
    <3>3. /\ SubSeq(o, 1, n - 1) \in Seq(Bucket)
          /\ Len(SubSeq(o, 1, n - 1)) = IF 1 <= n - 1 THEN n - 1 - 1 + 1 ELSE 0
          /\ \A i \in 1..(n - 1 - 1 + 1) : SubSeq(o, 1, n - 1)[i] = o[1 + i - 1]
      BY <3>1, <3>2, SubSeqProperties
    <3> QED
      BY <2>1, <2>2, <3>1, <3>3
  <2>4. Buckets(p)
    BY <2>3 DEF Buckets, n
  <2>5. PartOf(p, o)
    BY <2>3 DEF PartOf, n
  <2>6. k \notin Tracked(p)
    BY <1>4, <2>3 DEF Tracked, n
  <2>7. ASSUME NEW j \in Tracked(o) \ Tracked(p) PROVE j = o[n].key
    <3>1. PICK a \in 1..n : o[a].key = j
      BY DEF Tracked, n
    <3>2. ~(a \in 1..(n - 1))
      BY <2>3, <3>1 DEF Tracked
    <3>3. a = n
      BY <1>1, <3>2
    <3> QED
      BY <3>1, <3>3
  <2>8. Len(p) < maxKeys
    BY <1>2, <2>1, <2>3
  <2> QED
    BY <1>4, <2>1, <2>4, <2>5, <2>6, <2>7, <2>8 DEF p, n
<1>5. CASE k \notin Tracked(o) /\ ~(n >= maxKeys)
  <2>1. p = o
    BY <1>5 DEF Others
  <2>2. n < maxKeys
    BY <1>1, <1>2, <1>5
  <2>3. PartOf(o, o)
    BY DEF PartOf
  <2> HIDE DEF p, n
  <2> QED
    BY <1>5, <2>1, <2>2, <2>3 DEF p, n
<1> QED
  BY <1>3, <1>4, <1>5

\* A bucket put in front of a list that does not have its client.
LEMMA PutInFront ==
    ASSUME NEW o, Buckets(o), NEW b \in Bucket, b.key \notin Tracked(o),
           \A i \in 1..Len(o) : o[i].lastSeen <= b.lastSeen
    PROVE  /\ Buckets(<<b>> \o o) /\ Len(<<b>> \o o) = Len(o) + 1
           /\ (<<b>> \o o)[1] = b /\ Tail(<<b>> \o o) = o
           /\ Tracked(<<b>> \o o) = Tracked(o) \cup {b.key}
           /\ BucketOf(<<b>> \o o, b.key) = b
           /\ \A k \in Tracked(o) : BucketOf(<<b>> \o o, k) = BucketOf(o, k)
<1> DEFINE q == <<b>> \o o
<1>1. Len(o) \in Nat /\ o \in Seq(Bucket)
  BY LenProperties DEF Buckets
<1>2. <<b>> \in Seq(Bucket) /\ Len(<<b>>) = 1 /\ <<b>>[1] = b
  OBVIOUS
<1>3. /\ q \in Seq(Bucket) /\ Len(q) = Len(o) + 1
      /\ q[1] = b /\ \A i \in 1..Len(o) : q[i + 1] = o[i]
  <2> DEFINE f == <<b>>
  <2>1. f \in Seq(Bucket) /\ Len(f) = 1 /\ f[1] = b
    BY <1>2
  <2> HIDE DEF f
  <2>2. /\ f \o o \in Seq(Bucket) /\ Len(f \o o) = 1 + Len(o)
        /\ \A i \in 1..(1 + Len(o)) : (f \o o)[i] = IF i <= 1 THEN f[i] ELSE o[i - 1]
    BY <1>1, <2>1, ConcatProperties
  <2>3. (f \o o)[1] = b
    BY <1>1, <2>1, <2>2
  <2>4. ASSUME NEW i \in 1..Len(o) PROVE (f \o o)[i + 1] = o[i]
    <3>1. i + 1 \in 1..(1 + Len(o)) /\ ~(i + 1 <= 1) /\ i + 1 - 1 = i
      BY <1>1
    <3> QED
      BY <2>2, <3>1
  <2>5. Len(f \o o) = Len(o) + 1
    BY <1>1, <2>2
  <2> QED
    BY <2>2, <2>3, <2>4, <2>5 DEF f
<1> HIDE DEF q
<1>4. \A i \in 1..Len(q) : i = 1 \/ (i - 1 \in 1..Len(o) /\ q[i] = o[i - 1])
  <2>1. ASSUME NEW i \in 1..Len(q), i # 1 PROVE i - 1 \in 1..Len(o) /\ q[i] = o[i - 1]
    <3>1. i - 1 \in 1..Len(o) /\ i - 1 + 1 = i
      BY <1>1, <1>3, <2>1
    <3> QED
      BY <1>3, <3>1
  <2> QED
    BY <2>1
<1>5. \A i \in 1..Len(o) : o[i] \in Bucket /\ o[i].lastSeen \in Int /\ o[i].key # b.key
  <2>1. \A i \in 1..Len(o) : o[i] \in Bucket
    BY <1>1, ElementOfSeq
  <2> QED
    BY <2>1 DEF Bucket, Tracked
<1>6. Buckets(q)
  <2>1. ASSUME NEW i \in 1..Len(q), NEW j \in 1..Len(q), i < j
        PROVE  q[i].key # q[j].key /\ q[i].lastSeen >= q[j].lastSeen
    <3>1. j # 1 /\ j - 1 \in 1..Len(o) /\ q[j] = o[j - 1]
      BY <1>1, <1>3, <1>4, <2>1
    <3>2. CASE i = 1
      <4>1. b.lastSeen \in Int
        BY DEF Bucket
      <4>2. q[i] = b /\ o[j - 1].lastSeen <= b.lastSeen
        BY <1>3, <3>1, <3>2
      <4> QED
        BY <1>5, <3>1, <4>1, <4>2
    <3>3. CASE i # 1
      <4>1. i - 1 \in 1..Len(o) /\ q[i] = o[i - 1] /\ i - 1 < j - 1
        BY <1>1, <1>4, <2>1, <3>3
      <4> QED
        BY <3>1, <4>1 DEF Buckets
    <3> QED
      BY <3>2, <3>3
  <2> QED
    BY <1>3, <2>1 DEF Buckets
<1>7. Tail(q) = o
  <2>1. q # <<>>
    BY <1>1, <1>3, EmptySeq
  <2>2. /\ Tail(q) \in Seq(Bucket) /\ Len(Tail(q)) = Len(q) - 1
        /\ \A i \in 1..Len(Tail(q)) : Tail(q)[i] = q[i + 1]
    BY <1>3, <2>1, HeadTailProperties
  <2>3. Len(Tail(q)) = Len(o)
    BY <1>1, <1>3, <2>2
  <2>4. \A i \in 1..Len(Tail(q)) : Tail(q)[i] = o[i]
    BY <1>3, <2>2, <2>3
  <2> QED
    BY <1>1, <2>2, <2>3, <2>4, SeqEqual
<1>8. 1 \in 1..Len(q) /\ \A i \in 1..Len(o) : i + 1 \in 1..Len(q)
  BY <1>1, <1>3
<1>9. Tracked(q) = Tracked(o) \cup {b.key}
  BY <1>3, <1>4, <1>8 DEF Tracked
<1>10. BucketOf(q, b.key) = b
  BY <1>3, <1>6, <1>8, BucketIs
<1>11. ASSUME NEW k \in Tracked(o) PROVE BucketOf(q, k) = BucketOf(o, k)
  <2>1. PartOf(o, q)
    <3>1. \A i \in 1..Len(o) : i + 1 \in 1..Len(q) /\ o[i] = q[i + 1]
      BY <1>3, <1>8
    <3> QED
      BY <3>1 DEF PartOf
  <2> QED
    BY <1>6, <2>1, PartKeeps
<1> QED
  BY <1>3, <1>6, <1>7, <1>9, <1>10, <1>11 DEF q

\* Withdrawing the newest attempt of a client touches nobody else's bucket.
LEMMA ForgetIs ==
    ASSUME NEW o, Buckets(o), Len(o) <= maxKeys, NEW k \in Key
    PROVE  /\ Buckets(Forget(o, k)) /\ Len(Forget(o, k)) <= maxKeys
           /\ Tracked(Forget(o, k)) \subseteq Tracked(o)
           /\ \A j \in Key \ {k} : BucketOf(Forget(o, k), j) = BucketOf(o, j)
           /\ BucketOf(Forget(o, k), k).times =
                IF BucketOf(o, k).times = <<>> THEN <<>>
                ELSE SubSeq(BucketOf(o, k).times, 1, Len(BucketOf(o, k).times) - 1)
           /\ k \in Tracked(Forget(o, k)) =>
                BucketOf(Forget(o, k), k).lastSeen = BucketOf(o, k).lastSeen
<1> DEFINE p == Forget(o, k)
           b == BucketOf(o, k)
           n == Len(b.times)
           at == Place(o, k)
<1>1. b \in Bucket /\ b.times \in Seq(Int) /\ n \in Nat /\ b.key = k
  <2>1. b \in Bucket /\ b.key = k
    BY BucketTyped
  <2>2. b.times \in Seq(Int)
    BY <2>1 DEF Bucket
  <2> QED
    BY <2>1, <2>2, LenProperties
<1>2. n = 0 <=> b.times = <<>>
  BY <1>1, EmptySeq
<1>3. CASE n = 0
  <2>1. p = o
    BY <1>3 DEF Forget
  <2> QED
    BY <1>2, <1>3, <2>1
<1>4. CASE n # 0
  <2>1. k \in Tracked(o)
    <3>1. k \notin Tracked(o) => b.times = <<>>
      BY DEF BucketOf, EmptyBucket
    <3> QED
      BY <1>2, <1>4, <3>1
  <2>2. at \in 1..Len(o) /\ o[at] = b
    BY <2>1, TrackedAt
  <2>3. o \in Seq(Bucket) /\ Len(o) \in Nat
    BY LenProperties DEF Buckets
  <2>4. CASE n = 1
    <3>1. p = Others(o, k)
      BY <2>1, <2>4 DEF Forget, Others
    <3>2. /\ Buckets(p) /\ PartOf(p, o) /\ Len(p) <= maxKeys /\ k \notin Tracked(p)
          /\ \A j \in Tracked(o) \ Tracked(p) : j = k
      <4>1. /\ Buckets(p) /\ PartOf(p, o) /\ Len(p) < maxKeys /\ k \notin Tracked(p)
            /\ \A j \in Tracked(o) \ Tracked(p) : j = k
        BY <2>1, <3>1, OthersStay
      <4>2. p \in Seq(Bucket) /\ maxKeys \in Nat
        BY <4>1, LimiterAssumption DEF Buckets
      <4> QED
        BY <4>1, <4>2, LenProperties
    <3> HIDE DEF p
    <3>3. \A j \in Tracked(p) : j \in Tracked(o) /\ BucketOf(p, j) = BucketOf(o, j)
      BY <3>2, PartKeeps
    <3>4. \A j \in Key \ {k} : BucketOf(p, j) = BucketOf(o, j)
      BY <3>2, <3>3 DEF BucketOf
    <3>5. BucketOf(p, k).times = <<>>
      BY <3>2 DEF BucketOf, EmptyBucket
    <3>6. SubSeq(b.times, 1, n - 1) = <<>>
      BY <2>4, SubSeqEmpty
    <3> QED
      BY <1>2, <1>4, <3>2, <3>3, <3>4, <3>5, <3>6 DEF p
  <2>5. CASE n # 1
    <3> DEFINE less == SubSeq(b.times, 1, n - 1)
               c == [b EXCEPT !.times = less]
    <3>1. less \in Seq(Int)
      <4>1. \A i \in 1..(n - 1) : b.times[i] \in Int
        <5>1. \A i \in 1..n : b.times[i] \in Int
          BY <1>1, ElementOfSeq
        <5> QED
          BY <1>1, <5>1
      <4>2. 1 \in Int /\ n - 1 \in Int
        BY <1>1
      <4> QED
        BY <4>1, <4>2, SubSeqProperties
    <3> HIDE DEF less
    <3>2. c \in Bucket /\ c.key = b.key /\ c.lastSeen = b.lastSeen /\ c.times = less
      BY <1>1, <3>1 DEF Bucket
    <3>3. p = [o EXCEPT ![at] = c]
      <4>1. p = [o EXCEPT ![at].times = SubSeq(@, 1, Len(@) - 1)]
        BY <1>4, <2>5 DEF Forget
      <4>2. [o EXCEPT ![at].times = SubSeq(@, 1, Len(@) - 1)]
              = [o EXCEPT ![at] = [o[at] EXCEPT !.times = SubSeq(o[at].times, 1, Len(o[at].times) - 1)]]
        OBVIOUS
      <4> QED
        BY <2>2, <4>1, <4>2 DEF less
    <3> HIDE DEF p, c, at, b
    <3>4. /\ p \in Seq(Bucket) /\ Len(p) = Len(o)
          /\ \A i \in 1..Len(o) : p[i] = IF i = at THEN c ELSE o[i]
      BY <2>2, <2>3, <3>2, <3>3, ExceptSeq
    <3>5. \A i \in 1..Len(o) : p[i].key = o[i].key /\ p[i].lastSeen = o[i].lastSeen
      BY <2>2, <3>2, <3>4
    <3>6. Buckets(p) /\ Tracked(p) = Tracked(o)
      BY <3>4, <3>5 DEF Buckets, Tracked
    <3>7. p[at].key = k /\ p[at] = c /\ at \in 1..Len(p) /\ b.key = k
      BY <1>1, <2>2, <3>2, <3>4
    <3>8. BucketOf(p, k) = c
      BY <3>6, <3>7, BucketIs
    <3>9. ASSUME NEW j \in Key \ {k} PROVE BucketOf(p, j) = BucketOf(o, j)
      <4>1. CASE j \in Tracked(o)
        <5>1. Place(o, j) \in 1..Len(o) /\ o[Place(o, j)].key = j /\ BucketOf(o, j) = o[Place(o, j)]
          BY <4>1, TrackedAt
        <5>2. Place(o, j) # at
          BY <1>1, <2>2, <5>1
        <5>3. p[Place(o, j)] = o[Place(o, j)]
          BY <3>4, <5>1, <5>2
        <5> QED
          BY <3>4, <3>6, <5>1, <5>3, BucketIs
      <4>2. CASE j \notin Tracked(o)
        BY <3>6, <4>2 DEF BucketOf
      <4> QED
        BY <4>1, <4>2
    <3>10. b.times # <<>>
      BY <1>2, <1>4
    <3> QED
      BY <3>2, <3>4, <3>6, <3>8, <3>9, <3>10 DEF p, less, b
  <2> QED
    BY <2>4, <2>5
<1> QED
  BY <1>3, <1>4

----------------------------------------------------------------------------
(* The invariant.                                                          *)

\* A bucket's attempts are in the order they were made, none after the client was last
\* seen, and no more than the limit.
Ascending(s) == \A i, j \in 1..Len(s) : i < j => s[i] <= s[j]

Sound(b, now) ==
  /\ Len(b.times) <= limit
  /\ Ascending(b.times)
  /\ \A i \in 1..Len(b.times) : b.times[i] <= b.lastSeen
  /\ b.lastSeen <= now

TableOK(o, now) ==
  Buckets(o) /\ Len(o) <= maxKeys /\ \A k \in Key : Sound(BucketOf(o, k), now)

\* A bucket says when its client was last seen, or is out of the window with it.
Dated(o, now, t) ==
  \A k \in Tracked(o) :
    \/ BucketOf(o, k).lastSeen = t[k]
    \/ BucketOf(o, k).lastSeen <= now - window /\ t[k] <= now - window

\* Not just the last window: no window from cutoff on holds more attempts in a bucket than
\* its client is to be counted for.
Dominated(o, now, c) ==
  \A k \in Key, d \in Int :
    d >= now - window => CountOver(BucketOf(o, k).times, d) <= CountOver(c[k], d)

\* A client that was told when to come back was told a time when its oldest attempt is out.
Promised(o, t) ==
  \A k \in Key :
    t[k] # Never => BucketOf(o, k).times = <<>> \/ t[k] > BucketOf(o, k).times[1] + window

Counted(c, r, t) ==
  c \in [Key -> Seq(Int)] /\ r \in [Key -> Int] /\ t \in [Key -> Int]

Visiting(v, s) ==
  /\ v \in [Visitor -> Visit] /\ s \in Visitor \union {NoOne}
  /\ \A h \in Visitor : v[h].pc \in {"reading", "refused"} => v[h].key \in Key

LimiterInv ==
  /\ clock \in Nat
  /\ TableOK(order, clock)
  /\ Visiting(handler, slot)
  /\ Counted(counted, tried, told)
  /\ Dated(order, clock, tried)
  /\ Dominated(order, clock, counted)
  /\ Promised(order, told)

LEMMA LimiterInvTyped == LimiterInv => LimiterTypeOK
<1> SUFFICES ASSUME LimiterInv PROVE LimiterTypeOK
  OBVIOUS
<1>1. Buckets(order) /\ Len(order) <= maxKeys /\ \A k \in Key : Sound(BucketOf(order, k), clock)
  BY DEF LimiterInv, TableOK
<1>2. ASSUME NEW i \in 1..Len(order) PROVE Len(order[i].times) <= limit
  <2>1. order[i] \in Bucket /\ BucketOf(order, order[i].key) = order[i]
    BY <1>1, BucketIs
  <2>2. order[i].key \in Key
    BY <2>1 DEF Bucket
  <2> QED
    BY <1>1, <2>1, <2>2 DEF Sound
<1> QED
  BY <1>1, <1>2 DEF LimiterInv, LimiterTypeOK, Buckets, Visiting, Counted

\* A client with no attempts counts for none.
LEMMA NoTimes ==
    ASSUME NEW d \in Int
    PROVE  CountOver(<<>>, d) = 0
<1> DEFINE e == <<>>
<1>1. e \in Seq(Int) /\ Len(e) = 0
  BY EmptySeq
<1> HIDE DEF e
<1>2. \A i \in 1..Len(e) : e[i] <= d
  BY <1>1
<1>3. CountOver(e, d) = 0
  BY <1>1, <1>2, NoneOver
<1> QED
  BY <1>3 DEF e

\* A client with no bucket has a sound one.
LEMMA EmptySound ==
    ASSUME NEW k, NEW now \in Nat
    PROVE  Sound(EmptyBucket(k), now) /\ EmptyBucket(k).times = <<>>
<1> DEFINE b == EmptyBucket(k)
<1>1. b.times = <<>> /\ b.lastSeen = Never
  BY DEF EmptyBucket
<1>2. Len(b.times) = 0
  BY <1>1, EmptySeq
<1>3. Never <= now /\ 0 <= limit
  BY LimiterAssumption DEF Never
<1> HIDE DEF b
<1>4. Sound(b, now)
  BY <1>1, <1>2, <1>3 DEF Sound, Ascending
<1> QED
  BY <1>1, <1>4 DEF b

LEMMA LimiterStart == clock = 1 /\ LimiterInit => LimiterInv
<1> SUFFICES ASSUME clock = 1, LimiterInit PROVE LimiterInv
  OBVIOUS
<1> USE DEF LimiterInit
<1>1. <<>> \in Seq(Int) /\ <<>> \in Seq(Bucket) /\ Len(<<>>) = 0
  BY EmptySeq
<1>2. Never \in Int /\ Never <= clock /\ window \in Nat /\ maxKeys \in Nat /\ limit \in Nat
  BY LimiterAssumption DEF Never
<1>3. order = <<>> /\ order \in Seq(Bucket) /\ Len(order) = 0
  BY <1>1
<1>4. Tracked(order) = {}
  BY <1>3 DEF Tracked
<1>5. \A k \in Key : BucketOf(order, k) = EmptyBucket(k)
  BY <1>4 DEF BucketOf
<1>6. TableOK(order, clock)
  <2>1. Buckets(order)
    BY <1>3 DEF Buckets
  <2>2. ASSUME NEW k \in Key PROVE Sound(BucketOf(order, k), clock)
    BY <1>5, EmptySound
  <2> QED
    BY <1>2, <1>3, <2>1, <2>2 DEF TableOK
<1>7. Visiting(handler, slot)
  <2>1. Idle \in Visit /\ Idle.pc = "idle"
    BY <1>2 DEF Idle, Visit
  <2> QED
    BY <2>1 DEF Visiting
<1>8. Counted(counted, tried, told)
  BY <1>1, <1>2 DEF Counted
<1>9. Dated(order, clock, tried)
  BY <1>4 DEF Dated
<1>10. Dominated(order, clock, counted)
  <2>1. ASSUME NEW k \in Key, NEW d \in Int
        PROVE  CountOver(BucketOf(order, k).times, d) <= CountOver(counted[k], d)
    <3>1. BucketOf(order, k).times = <<>> /\ counted[k] = <<>>
      BY <1>5 DEF EmptyBucket
    <3>2. CountOver(<<>>, d) = 0
      BY NoTimes
    <3> QED
      BY <3>1, <3>2
  <2> QED
    BY <2>1 DEF Dominated
<1>11. Promised(order, told)
  BY DEF Promised
<1> QED
  BY <1>6, <1>7, <1>8, <1>9, <1>10, <1>11 DEF LimiterInv

\* What an attempt does to the list: the client comes to the front with its attempts of the
\* last window, and this one if there was room; the others are as they were, or gone.
LEMMA AttemptOn ==
    ASSUME LimiterInv, NEW h \in Visitor, NEW k \in Key, Attempt(h, k)
    PROVE  \E times \in {BucketOf(order, k).times, <<>>} :
             LET kept == expire(times, cutoff) IN
             /\ Buckets(order') /\ Len(order') <= maxKeys
             /\ k \in Tracked(order')
             /\ \A j \in Tracked(order') \ {k} :
                  j \in Tracked(order) /\ BucketOf(order', j) = BucketOf(order, j)
             /\ BucketOf(order', k).lastSeen = clock
             /\ \/ /\ Len(kept) >= limit /\ BucketOf(order', k).times = kept
                   /\ handler' = [handler EXCEPT ![h] = [pc |-> "refused", key |-> k, at |-> Never]]
                   /\ counted'[k] = counted[k] /\ told'[k] = told[k]
                \/ /\ ~(Len(kept) >= limit) /\ BucketOf(order', k).times = Append(kept, clock)
                   /\ handler' = [handler EXCEPT ![h] = [pc |-> "reading", key |-> k, at |-> clock]]
                   /\ counted'[k] = Append(counted[k], clock) /\ told'[k] = Never
             /\ \A j \in Tracked(order) \ Tracked(order') :
                  \/ BucketOf(order, j).lastSeen <= cutoff
                  \/ /\ Len(order) >= 1 /\ j = order[Len(order)].key
                     /\ \A i \in 1..Len(order) : order[i].lastSeen > cutoff
             /\ counted' \in [Key -> Seq(Int)] /\ told' \in [Key -> Int]
             /\ \A j \in Key \ {k} : /\ told'[j] = told[j]
                                     /\ counted'[j] = counted[j] \/ j \notin Tracked(order')
<1> DEFINE some == removeStale(order)
           old == BucketOf(some, k)
           rest == Others(some, k)
           front == [old EXCEPT !.lastSeen = clock]
           list == touch(some, k)
           kept == expire(old.times, cutoff)
           b == [list[1] EXCEPT !.times = expire(list[1].times, cutoff)]
           refused == Len(b.times) >= limit
           new == IF refused THEN b ELSE [b EXCEPT !.times = Append(@, clock)]
           forgotten == {j \in Key \ {k} : j \in Tracked(some)} \ Tracked(list)
<1>1. /\ clock \in Int /\ cutoff \in Int /\ maxKeys \in Nat
      /\ Buckets(order) /\ Len(order) <= maxKeys /\ \A j \in Key : Sound(BucketOf(order, j), clock)
  BY LimiterAssumption DEF LimiterInv, TableOK, cutoff
<1>2. /\ order' = <<new>> \o Tail(list)
      /\ handler' = [handler EXCEPT ![h] =
             [pc |-> IF refused THEN "refused" ELSE "reading",
              key |-> k, at |-> IF refused THEN Never ELSE clock]]
      /\ counted' = [j \in Key |->
             CASE j \in forgotten -> <<>>
               [] j = k /\ ~refused -> Append(counted[k], clock)
               [] OTHER -> counted[j]]
      /\ told' = [told EXCEPT ![k] = IF refused THEN @ ELSE Never]
  BY DEF Attempt
<1>3. /\ Buckets(some) /\ PartOf(some, order) /\ Len(some) <= Len(order)
      /\ \A j \in Tracked(order) \ Tracked(some) : BucketOf(order, j).lastSeen <= cutoff
      /\ Len(some) = Len(order) => some = order
      /\ \A i \in 1..Len(some) : some[i].lastSeen > cutoff
  BY <1>1, StaleGone
<1>4. Len(order) \in Nat /\ Len(some) \in Nat /\ Len(some) <= maxKeys
  BY <1>1, <1>3, LenProperties DEF Buckets
<1> HIDE DEF some
<1>5. /\ Buckets(rest) /\ PartOf(rest, some) /\ Len(rest) < maxKeys /\ k \notin Tracked(rest)
      /\ \A j \in Tracked(some) \ Tracked(rest) :
           j # k => k \notin Tracked(some) /\ Len(some) = maxKeys /\ j = some[Len(some)].key
  BY <1>3, <1>4, OthersStay
<1>6. \A j \in Tracked(some) : j \in Tracked(order) /\ BucketOf(some, j) = BucketOf(order, j)
  BY <1>1, <1>3, PartKeeps
<1>7. \A j \in Tracked(rest) :
        j \in Tracked(order) /\ BucketOf(rest, j) = BucketOf(order, j) /\ j # k /\ j \in Tracked(some)
  BY <1>3, <1>5, <1>6, PartKeeps
<1>8. old \in Bucket /\ old.key = k /\ old.times \in {BucketOf(order, k).times, <<>>}
  <2>1. old \in Bucket /\ old.key = k
    BY <1>3, BucketTyped
  <2>2. old.times \in {BucketOf(order, k).times, <<>>}
    BY <1>6 DEF BucketOf, EmptyBucket
  <2> QED
    BY <2>1, <2>2
<1> HIDE DEF rest, old
<1>9. \A i \in 1..Len(rest) : rest[i].lastSeen <= clock /\ rest[i] \in Bucket
  <2>1. ASSUME NEW i \in 1..Len(rest) PROVE rest[i].lastSeen <= clock /\ rest[i] \in Bucket
    <3>1. rest[i] \in Bucket /\ rest[i].key \in Tracked(rest) /\ BucketOf(rest, rest[i].key) = rest[i]
      BY <1>5, BucketIs
    <3>2. rest[i].key \in Key
      BY <3>1 DEF Bucket
    <3> QED
      BY <1>1, <1>7, <3>1, <3>2 DEF Sound
  <2> QED
    BY <2>1
<1>10. front \in Bucket /\ front.key = k /\ front.lastSeen = clock /\ front.times = old.times
  BY <1>1, <1>8 DEF Bucket
<1>11. list[1] = front /\ Tail(list) = rest /\ Tracked(list) = Tracked(rest) \cup {k}
  <2>1. list = <<front>> \o rest
    BY DEF touch, old, rest
  <2> HIDE DEF front, list
  <2> QED
    BY <1>5, <1>9, <1>10, <2>1, PutInFront
<1> HIDE DEF front, list
<1>12. kept \in Seq(Int) /\ b.times = kept /\ b.key = k /\ b.lastSeen = clock /\ b \in Bucket
  <2>1. old.times \in Seq(Int)
    BY <1>8 DEF Bucket
  <2>2. kept \in Seq(Int)
    BY <1>1, <2>1, ExpireCounts
  <2> HIDE DEF kept
  <2>3. b = [front EXCEPT !.times = kept]
    BY <1>10, <1>11 DEF kept
  <2> HIDE DEF b
  <2> QED
    BY <1>10, <2>2, <2>3 DEF Bucket
<1> HIDE DEF b, kept
<1>13. new \in Bucket /\ new.key = k /\ new.lastSeen = clock
       /\ new.times = IF refused THEN kept ELSE Append(kept, clock)
  <2>1. Append(kept, clock) \in Seq(Int)
    BY <1>1, <1>12, AppendProperties
  <2> QED
    BY <1>12, <2>1 DEF Bucket
<1> HIDE DEF new
<1>14. order' = <<new>> \o rest
  BY <1>2, <1>11
<1>15. /\ Buckets(order') /\ Len(order') = Len(rest) + 1
       /\ Tracked(order') = Tracked(rest) \cup {k}
       /\ BucketOf(order', k) = new
       /\ \A j \in Tracked(rest) : BucketOf(order', j) = BucketOf(rest, j)
  BY <1>5, <1>9, <1>13, <1>14, PutInFront
<1>16. Len(order') <= maxKeys
  <2>1. Len(rest) \in Nat
    BY <1>5, LenProperties DEF Buckets
  <2> QED
    BY <1>1, <1>5, <1>15, <2>1
<1>17. \A j \in Tracked(order') \ {k} :
         j \in Tracked(order) /\ BucketOf(order', j) = BucketOf(order, j)
  BY <1>7, <1>15
<1>18. ASSUME NEW j \in Tracked(order) \ Tracked(order')
       PROVE  \/ BucketOf(order, j).lastSeen <= cutoff
              \/ /\ Len(order) >= 1 /\ j = order[Len(order)].key
                 /\ \A i \in 1..Len(order) : order[i].lastSeen > cutoff
  <2>1. CASE j \notin Tracked(some)
    BY <1>3, <2>1
  <2>2. CASE j \in Tracked(some)
    <3>1. Len(some) = maxKeys /\ j = some[Len(some)].key
      BY <1>5, <1>15, <2>2
    <3>2. Len(some) = Len(order) /\ some = order
      BY <1>1, <1>3, <1>4, <3>1
    <3>3. Len(order) >= 1
      BY <1>1, <1>4, <3>1, <3>2, LimiterAssumption
    <3> QED
      BY <1>3, <3>1, <3>2, <3>3
  <2> QED
    BY <2>1, <2>2
<1>19. counted \in [Key -> Seq(Int)] /\ told \in [Key -> Int]
  BY DEF LimiterInv, Counted
<1>20. k \notin forgotten
  BY <1>11
<1>21. \A j \in forgotten : j \notin Tracked(order') /\ j # k
  BY <1>11, <1>15
<1> HIDE DEF forgotten, refused
<1>22. counted' \in [Key -> Seq(Int)]
  <2>1. Append(counted[k], clock) \in Seq(Int) /\ <<>> \in Seq(Int)
    BY <1>1, <1>19, AppendProperties, EmptySeq
  <2> QED
    BY <1>2, <1>19, <2>1
<1>23. \A j \in Key \ {k} : /\ told'[j] = told[j]
                            /\ counted'[j] = counted[j] \/ j \notin Tracked(order')
  BY <1>2, <1>19, <1>21
<1>24. counted'[k] = IF refused THEN counted[k] ELSE Append(counted[k], clock)
  BY <1>2, <1>20
<1>25. told'[k] = IF refused THEN told[k] ELSE Never
  BY <1>2, <1>19
<1>26. refused <=> Len(kept) >= limit
  BY <1>12 DEF refused
<1>30. told' \in [Key -> Int]
  BY <1>2, <1>19, LimiterAssumption DEF Never
<1>27. k \in Tracked(order')
  BY <1>15
<1>28. \/ /\ Len(kept) >= limit /\ BucketOf(order', k).times = kept
          /\ handler' = [handler EXCEPT ![h] = [pc |-> "refused", key |-> k, at |-> Never]]
          /\ counted'[k] = counted[k] /\ told'[k] = told[k]
       \/ /\ ~(Len(kept) >= limit) /\ BucketOf(order', k).times = Append(kept, clock)
          /\ handler' = [handler EXCEPT ![h] = [pc |-> "reading", key |-> k, at |-> clock]]
          /\ counted'[k] = Append(counted[k], clock) /\ told'[k] = Never
  <2>1. CASE refused
    BY <1>2, <1>13, <1>15, <1>24, <1>25, <1>26, <2>1
  <2>2. CASE ~refused
    BY <1>2, <1>13, <1>15, <1>24, <1>25, <1>26, <2>2
  <2> QED
    BY <2>1, <2>2
<1>29. BucketOf(order', k).lastSeen = clock
  BY <1>13, <1>15
<1> USE <1>8
<1> WITNESS old.times \in {BucketOf(order, k).times, <<>>}
<1> QED
  BY <1>15, <1>16, <1>17, <1>18, <1>22, <1>23, <1>27, <1>28, <1>29, <1>30 DEF kept

\* What expire keeps is as ascending as it was, starts in the window and, if nothing was
\* dropped, is what there was.
LEMMA KeptSound ==
    ASSUME NEW s \in Seq(Int), Ascending(s), NEW top \in Int, \A i \in 1..Len(s) : s[i] <= top,
           NEW c \in Int
    PROVE  /\ expire(s, c) \in Seq(Int) /\ Len(expire(s, c)) <= Len(s)
           /\ Ascending(expire(s, c)) /\ \A i \in 1..Len(expire(s, c)) : expire(s, c)[i] <= top
           /\ Len(expire(s, c)) # 0 => expire(s, c)[1] > c
           /\ Len(expire(s, c)) >= Len(s) => expire(s, c) = s
<1> DEFINE t == expire(s, c)
<1>1. Len(s) \in Nat /\ \A i \in 1..Len(s) : s[i] \in Int
  BY LenProperties, ElementOfSeq
<1>2. CASE t = <<>> /\ Over(s, c) = {}
  <2>1. t \in Seq(Int) /\ Len(t) = 0
    BY <1>2, EmptySeq
  <2> HIDE DEF t
  <2>2. 0 >= Len(s) => t = s
    <3>1. Len(s) <= 0 => Len(s) = 0
      BY <1>1
    <3>2. Len(s) = 0 => s = <<>>
      BY EmptySeq
    <3> QED
      BY <1>1, <1>2, <3>1, <3>2
  <2> QED
    BY <1>1, <2>1, <2>2 DEF t, Ascending
<1>3. CASE \E f \in 1..Len(s) :
                /\ s[f] > c /\ \A i \in 1..(f - 1) : s[i] <= c
                /\ t \in Seq(Int) /\ Len(t) = Len(s) - f + 1
                /\ \A i \in 1..(Len(s) - f + 1) : t[i] = s[f + i - 1]
  <2> HIDE DEF t
  <2>1. PICK f \in 1..Len(s) :
                /\ s[f] > c
                /\ t \in Seq(Int) /\ Len(t) = Len(s) - f + 1
                /\ \A i \in 1..(Len(s) - f + 1) : t[i] = s[f + i - 1]
    BY <1>3
  <2>2. \A i \in 1..Len(t) : f + i - 1 \in 1..Len(s) /\ t[i] = s[f + i - 1] /\ i \in Int
    BY <1>1, <2>1
  <2>3. Ascending(t)
    <3>1. ASSUME NEW i \in 1..Len(t), NEW j \in 1..Len(t), i < j PROVE t[i] <= t[j]
      <4>1. f + i - 1 < f + j - 1
        BY <2>1, <2>2, <3>1
      <4> QED
        BY <2>2, <4>1 DEF Ascending
    <3> QED
      BY <3>1 DEF Ascending
  <2>4. \A i \in 1..Len(t) : t[i] <= top
    BY <2>2
  <2>5. t[1] > c
    <3>1. 1 \in 1..(Len(s) - f + 1) /\ f + 1 - 1 = f
      BY <1>1, <2>1
    <3> QED
      BY <2>1, <3>1
  <2>6. Len(t) >= Len(s) => t = s
    <3>1. SUFFICES ASSUME Len(t) >= Len(s) PROVE t = s
      OBVIOUS
    <3>2. f = 1 /\ Len(t) = Len(s)
      BY <1>1, <2>1, <3>1
    <3>3. \A i \in 1..Len(t) : t[i] = s[i]
      BY <2>2, <3>2
    <3> QED
      BY <2>1, <3>2, <3>3, SeqEqual
  <2>7. Len(t) <= Len(s)
    BY <1>1, <2>1
  <2> QED
    BY <2>1, <2>3, <2>4, <2>5, <2>6, <2>7 DEF t
<1> QED
  BY <1>2, <1>3, ExpireIs

LEMMA AppendSound ==
    ASSUME NEW s \in Seq(Int), Ascending(s), NEW x \in Int, \A i \in 1..Len(s) : s[i] <= x
    PROVE  /\ Append(s, x) \in Seq(Int) /\ Len(Append(s, x)) = Len(s) + 1
           /\ Ascending(Append(s, x)) /\ \A i \in 1..Len(Append(s, x)) : Append(s, x)[i] <= x
<1> DEFINE t == Append(s, x)
<1>1. Len(s) \in Nat /\ \A i \in 1..Len(s) : s[i] \in Int
  BY LenProperties, ElementOfSeq
<1>2. t \in Seq(Int) /\ Len(t) = Len(s) + 1 /\ t[Len(s) + 1] = x /\ \A i \in 1..Len(s) : t[i] = s[i]
  BY <1>1, AppendProperties
<1> HIDE DEF t
<1>3. \A i \in 1..Len(t) : i \in Int /\ ((i \in 1..Len(s) /\ t[i] = s[i]) \/ (i = Len(s) + 1 /\ t[i] = x))
  BY <1>1, <1>2
<1>4. \A i \in 1..Len(t) : t[i] <= x
  BY <1>1, <1>3
<1>5. Ascending(t)
  <2>1. ASSUME NEW i \in 1..Len(t), NEW j \in 1..Len(t), i < j PROVE t[i] <= t[j]
    <3>1. CASE t[j] = x
      BY <1>4, <3>1
    <3>2. CASE t[j] # x
      <4>1. j \in 1..Len(s) /\ t[j] = s[j]
        BY <1>3, <3>2
      <4>2. i \in 1..Len(s) /\ t[i] = s[i]
        BY <1>1, <1>2, <1>3, <2>1, <4>1
      <4> QED
        BY <2>1, <4>1, <4>2 DEF Ascending
    <3> QED
      BY <3>1, <3>2
  <2> QED
    BY <2>1 DEF Ascending
<1> QED
  BY <1>2, <1>4, <1>5 DEF t

\* The attempts of one client, in a state of the invariant.
LEMMA TimesOf ==
    ASSUME LimiterInv, NEW k \in Key, NEW times \in {BucketOf(order, k).times, <<>>}
    PROVE  /\ times \in Seq(Int) /\ Len(times) <= limit /\ Ascending(times)
           /\ \A i \in 1..Len(times) : times[i] <= clock
           /\ \A d \in Int : d >= cutoff => CountOver(times, d) <= CountOver(counted[k], d)
<1>1. BucketOf(order, k) \in Bucket /\ Sound(BucketOf(order, k), clock) /\ clock \in Int
  BY BucketTyped DEF LimiterInv, TableOK
<1>2. counted[k] \in Seq(Int)
  BY DEF LimiterInv, Counted
<1>3. CASE times = BucketOf(order, k).times
  <2>1. times \in Seq(Int) /\ BucketOf(order, k).lastSeen \in Int
    BY <1>1, <1>3 DEF Bucket
  <2>2. \A i \in 1..Len(times) : times[i] \in Int
    BY <2>1, ElementOfSeq
  <2>3. \A d \in Int : d >= cutoff => CountOver(times, d) <= CountOver(counted[k], d)
    BY <1>3 DEF LimiterInv, Dominated, cutoff
  <2> QED
    BY <1>1, <1>3, <2>1, <2>2, <2>3 DEF Sound
<1>4. CASE times = <<>>
  <2>1. times \in Seq(Int) /\ Len(times) = 0
    BY <1>4, EmptySeq
  <2>2. ASSUME NEW d \in Int PROVE CountOver(times, d) <= CountOver(counted[k], d)
    <3>1. CountOver(counted[k], d) \in Nat /\ CountOver(times, d) = 0
      BY <1>2, <1>4, OverFinite, NoTimes
    <3> QED
      BY <3>1
  <2>3. 0 <= limit
    BY LimiterAssumption
  <2> QED
    BY <2>1, <2>2, <2>3 DEF Ascending
<1> QED
  BY <1>3, <1>4

LEMMA AttemptKeeps ==
    ASSUME LimiterInv, NEW h \in Visitor, NEW k \in Key, Attempt(h, k)
    PROVE  LimiterInv'
<1>1. PICK times \in {BucketOf(order, k).times, <<>>} :
             LET kept == expire(times, cutoff) IN
             /\ Buckets(order') /\ Len(order') <= maxKeys
             /\ k \in Tracked(order')
             /\ \A j \in Tracked(order') \ {k} :
                  j \in Tracked(order) /\ BucketOf(order', j) = BucketOf(order, j)
             /\ BucketOf(order', k).lastSeen = clock
             /\ \/ /\ Len(kept) >= limit /\ BucketOf(order', k).times = kept
                   /\ handler' = [handler EXCEPT ![h] = [pc |-> "refused", key |-> k, at |-> Never]]
                   /\ counted'[k] = counted[k] /\ told'[k] = told[k]
                \/ /\ ~(Len(kept) >= limit) /\ BucketOf(order', k).times = Append(kept, clock)
                   /\ handler' = [handler EXCEPT ![h] = [pc |-> "reading", key |-> k, at |-> clock]]
                   /\ counted'[k] = Append(counted[k], clock) /\ told'[k] = Never
             /\ counted' \in [Key -> Seq(Int)] /\ told' \in [Key -> Int]
             /\ \A j \in Key \ {k} : /\ told'[j] = told[j]
                                     /\ counted'[j] = counted[j] \/ j \notin Tracked(order')
  BY AttemptOn
<1> DEFINE kept == expire(times, cutoff)
           mine == BucketOf(order', k)
<1>2. clock \in Nat /\ cutoff \in Int /\ cutoff = clock - window /\ limit \in Nat \ {0}
  BY LimiterAssumption DEF LimiterInv, cutoff
<1>3. clock' = clock /\ slot' = slot /\ tried' = [tried EXCEPT ![k] = clock]
  BY DEF Attempt
<1>4. /\ times \in Seq(Int) /\ Len(times) <= limit /\ Ascending(times)
      /\ \A i \in 1..Len(times) : times[i] <= clock
      /\ \A d \in Int : d >= cutoff => CountOver(times, d) <= CountOver(counted[k], d)
  BY TimesOf
<1>5. /\ kept \in Seq(Int) /\ Len(kept) <= Len(times) /\ Ascending(kept)
      /\ \A i \in 1..Len(kept) : kept[i] <= clock
      /\ Len(kept) >= Len(times) => kept = times
  <2>1. clock \in Int
    BY <1>2
  <2>2. times \in Seq(Int) /\ Ascending(times) /\ \A i \in 1..Len(times) : times[i] <= clock
    BY <1>4
  <2> QED
    BY <1>2, <2>1, <2>2, KeptSound
<1>6. /\ Append(kept, clock) \in Seq(Int) /\ Len(Append(kept, clock)) = Len(kept) + 1
      /\ Ascending(Append(kept, clock))
      /\ \A i \in 1..Len(Append(kept, clock)) : Append(kept, clock)[i] <= clock
  BY <1>2, <1>5, AppendSound
<1>7. \A d \in Int : d >= cutoff => CountOver(kept, d) = CountOver(times, d)
  BY <1>2, <1>4, ExpireCounts
<1> HIDE DEF kept
<1>8. /\ Buckets(order') /\ Len(order') <= maxKeys /\ k \in Tracked(order')
      /\ \A j \in Tracked(order') \ {k} :
           j \in Tracked(order) /\ BucketOf(order', j) = BucketOf(order, j)
      /\ mine.lastSeen = clock
      /\ counted' \in [Key -> Seq(Int)] /\ told' \in [Key -> Int]
      /\ \A j \in Key \ {k} : /\ told'[j] = told[j]
                              /\ counted'[j] = counted[j] \/ j \notin Tracked(order')
  BY <1>1
<1>9. \/ /\ Len(kept) >= limit /\ mine.times = kept
         /\ handler' = [handler EXCEPT ![h] = [pc |-> "refused", key |-> k, at |-> Never]]
         /\ counted'[k] = counted[k] /\ told'[k] = told[k]
      \/ /\ ~(Len(kept) >= limit) /\ mine.times = Append(kept, clock)
         /\ handler' = [handler EXCEPT ![h] = [pc |-> "reading", key |-> k, at |-> clock]]
         /\ counted'[k] = Append(counted[k], clock) /\ told'[k] = Never
  BY <1>1 DEF kept
<1> HIDE DEF mine
<1>10. \A j \in Key \ Tracked(order') : BucketOf(order', j) = EmptyBucket(j)
  BY DEF BucketOf
<1>11. TableOK(order', clock')
  <2>1. ASSUME NEW j \in Key PROVE Sound(BucketOf(order', j), clock)
    <3>1. CASE j = k
      <4>1. Len(kept) \in Nat /\ Len(times) \in Nat
        BY <1>4, <1>5, LenProperties
      <4>3. mine.lastSeen = clock /\ mine.lastSeen <= clock
        BY <1>2, <1>8
      <4>2. Sound(mine, clock)
        <5>1. CASE mine.times = kept
          <6>1. Len(kept) <= limit
            BY <1>2, <1>4, <1>5, <4>1
          <6> QED
            BY <1>5, <4>3, <5>1, <6>1 DEF Sound
        <5>2. CASE ~(Len(kept) >= limit) /\ mine.times = Append(kept, clock)
          <6>1. Len(Append(kept, clock)) <= limit
            BY <1>2, <1>6, <4>1, <5>2
          <6> QED
            BY <1>6, <4>3, <5>2, <6>1 DEF Sound
        <5> QED
          BY <1>9, <5>1, <5>2
      <4> QED
        BY <3>1, <4>2 DEF mine
    <3>2. CASE j # k /\ j \in Tracked(order')
      BY <1>8, <3>2 DEF LimiterInv, TableOK
    <3>3. CASE j \notin Tracked(order')
      BY <1>2, <1>10, <3>3, EmptySound
    <3> QED
      BY <3>1, <3>2, <3>3
  <2> QED
    BY <1>3, <1>8, <2>1 DEF TableOK
<1>12. Visiting(handler', slot')
  <2>1. Visiting(handler, slot)
    BY DEF LimiterInv
  <2>2. Never \in Int
    BY LimiterAssumption DEF Never
  <2>3. \E v \in Visit : v.key \in Key /\ handler' = [handler EXCEPT ![h] = v]
    <3>1. /\ [pc |-> "refused", key |-> k, at |-> Never] \in Visit
          /\ [pc |-> "reading", key |-> k, at |-> clock] \in Visit
      BY <1>2, <2>2 DEF Visit
    <3> QED
      BY <1>9, <3>1
  <2> QED
    BY <1>3, <2>1, <2>3 DEF Visiting
<1>13. Counted(counted', tried', told')
  <2>1. tried \in [Key -> Int] /\ clock \in Int
    BY <1>2 DEF LimiterInv, Counted
  <2>2. tried' \in [Key -> Int]
    BY <1>3, <2>1
  <2> QED
    BY <1>8, <2>2 DEF Counted
<1>14. Dated(order', clock', tried')
  <2>1. tried \in [Key -> Int] /\ Tracked(order') \subseteq Key
    BY <1>8, TrackedAt DEF LimiterInv, Counted
  <2>2. ASSUME NEW j \in Tracked(order')
        PROVE  \/ BucketOf(order', j).lastSeen = tried'[j]
               \/ BucketOf(order', j).lastSeen <= clock - window /\ tried'[j] <= clock - window
    <3>1. CASE j = k
      BY <1>3, <1>8, <2>1, <3>1 DEF mine
    <3>2. CASE j # k
      BY <1>3, <1>8, <2>1, <3>2 DEF LimiterInv, Dated
    <3> QED
      BY <3>1, <3>2
  <2> QED
    BY <1>3, <2>2 DEF Dated
<1>15. Dominated(order', clock', counted')
  <2>1. ASSUME NEW j \in Key, NEW d \in Int, d >= clock - window
        PROVE  CountOver(BucketOf(order', j).times, d) <= CountOver(counted'[j], d)
    <3>0. counted'[j] \in Seq(Int) /\ counted[j] \in Seq(Int)
      BY <1>8 DEF LimiterInv, Counted
    <3>1. CASE j = k
      <4>1. CountOver(kept, d) <= CountOver(counted[k], d)
        BY <1>2, <1>4, <1>7, <2>1
      <4>2. CASE mine.times = kept /\ counted'[k] = counted[k]
        BY <3>1, <4>1, <4>2 DEF mine
      <4>3. CASE mine.times = Append(kept, clock) /\ counted'[k] = Append(counted[k], clock)
        <5>1. /\ CountOver(Append(kept, clock), d)
                   = IF clock > d THEN CountOver(kept, d) + 1 ELSE CountOver(kept, d)
              /\ CountOver(Append(counted[k], clock), d)
                   = IF clock > d THEN CountOver(counted[k], d) + 1 ELSE CountOver(counted[k], d)
          BY <1>2, <1>5, <3>0, <3>1, AppendCounts
        <5>2. CountOver(kept, d) \in Nat /\ CountOver(counted[k], d) \in Nat
          BY <1>5, <3>0, <3>1, OverFinite
        <5>3. CountOver(Append(kept, clock), d) <= CountOver(Append(counted[k], clock), d)
          BY <4>1, <5>1, <5>2
        <5> QED
          BY <3>1, <4>3, <5>3 DEF mine
      <4> QED
        BY <1>9, <4>2, <4>3
    <3>2. CASE j # k /\ j \in Tracked(order')
      BY <1>8, <2>1, <3>2 DEF LimiterInv, Dominated
    <3>3. CASE j \notin Tracked(order')
      <4>1. BucketOf(order', j).times = <<>>
        BY <1>2, <1>10, <3>3, EmptySound
      <4>2. CountOver(<<>>, d) = 0 /\ CountOver(counted'[j], d) \in Nat
        BY <3>0, NoTimes, OverFinite
      <4> QED
        BY <4>1, <4>2
    <3> QED
      BY <3>1, <3>2, <3>3
  <2> QED
    BY <1>3, <2>1 DEF Dominated
<1>16. Promised(order', told')
  <2>1. ASSUME NEW j \in Key, told'[j] # Never
        PROVE  BucketOf(order', j).times = <<>> \/ told'[j] > BucketOf(order', j).times[1] + window
    <3>1. CASE j = k
      <4>1. Len(kept) >= limit /\ mine.times = kept /\ told'[k] = told[k]
        BY <1>9, <2>1, <3>1
      <4>2. Len(kept) \in Nat /\ Len(times) \in Nat
        BY <1>4, <1>5, LenProperties
      <4>3. kept = times /\ Len(kept) # 0
        BY <1>2, <1>4, <1>5, <4>1, <4>2
      <4>4. times = BucketOf(order, k).times
        BY <4>3, EmptySeq
      <4>5. BucketOf(order', k).times = BucketOf(order, k).times
        BY <4>1, <4>3, <4>4 DEF mine
      <4>6. told[k] # Never =>
              BucketOf(order, k).times = <<>> \/ told[k] > BucketOf(order, k).times[1] + window
        BY DEF LimiterInv, Promised
      <4> HIDE DEF mine, kept
      <4> QED
        BY <2>1, <3>1, <4>1, <4>5, <4>6
    <3>2. CASE j # k /\ j \in Tracked(order')
      <4>1. BucketOf(order', j) = BucketOf(order, j) /\ told'[j] = told[j]
        BY <1>8, <3>2
      <4>2. told[j] # Never =>
              BucketOf(order, j).times = <<>> \/ told[j] > BucketOf(order, j).times[1] + window
        BY DEF LimiterInv, Promised
      <4> QED
        BY <2>1, <4>1, <4>2
    <3>3. CASE j \notin Tracked(order')
      BY <1>2, <1>10, <3>3, EmptySound
    <3> QED
      BY <3>1, <3>2, <3>3
  <2> QED
    BY <2>1 DEF Promised
<1> QED
  BY <1>2, <1>3, <1>11, <1>12, <1>13, <1>14, <1>15, <1>16 DEF LimiterInv

LEMMA CleanupKeeps == ASSUME LimiterInv, Cleanup PROVE LimiterInv'
<1>1. /\ order' = removeStale(order)
      /\ UNCHANGED <<clock, handler, slot, counted, tried, told>>
  BY DEF Cleanup
<1>2. clock \in Nat /\ cutoff \in Int /\ Buckets(order) /\ Len(order) <= maxKeys /\ maxKeys \in Nat
  BY LimiterAssumption DEF LimiterInv, TableOK, cutoff
<1>3. Buckets(order') /\ PartOf(order', order) /\ Len(order') <= Len(order)
  BY <1>1, <1>2, StaleGone
<1>4. Len(order') <= maxKeys
  <2>1. Len(order) \in Nat /\ Len(order') \in Nat
    BY <1>2, <1>3, LenProperties DEF Buckets
  <2> QED
    BY <1>2, <1>3, <2>1
<1>5. \A j \in Tracked(order') : j \in Tracked(order) /\ BucketOf(order', j) = BucketOf(order, j)
  BY <1>2, <1>3, PartKeeps
<1>6. \A j \in Key \ Tracked(order') : BucketOf(order', j) = EmptyBucket(j)
  BY DEF BucketOf
<1>7. \A j \in Key \ Tracked(order') :
        Sound(BucketOf(order', j), clock) /\ BucketOf(order', j).times = <<>>
  BY <1>2, <1>6, EmptySound
<1>8. TableOK(order', clock')
  BY <1>1, <1>3, <1>4, <1>5, <1>7 DEF LimiterInv, TableOK
<1>9. Dated(order', clock', tried')
  BY <1>1, <1>5 DEF LimiterInv, Dated
<1>10. Dominated(order', clock', counted')
  <2>1. ASSUME NEW j \in Key, NEW d \in Int, d >= clock - window
        PROVE  CountOver(BucketOf(order', j).times, d) <= CountOver(counted[j], d)
    <3>1. CASE j \in Tracked(order')
      BY <1>5, <2>1, <3>1 DEF LimiterInv, Dominated
    <3>2. CASE j \notin Tracked(order')
      <4>1. counted[j] \in Seq(Int)
        BY DEF LimiterInv, Counted
      <4>2. CountOver(<<>>, d) = 0 /\ CountOver(counted[j], d) \in Nat
        BY <4>1, NoTimes, OverFinite
      <4> QED
        BY <1>7, <3>2, <4>2
    <3> QED
      BY <3>1, <3>2
  <2> QED
    BY <1>1, <2>1 DEF Dominated
<1>11. Promised(order', told')
  <2>1. ASSUME NEW j \in Key, told[j] # Never
        PROVE  BucketOf(order', j).times = <<>> \/ told[j] > BucketOf(order', j).times[1] + window
    BY <1>5, <1>7, <2>1 DEF LimiterInv, Promised
  <2> QED
    BY <1>1, <2>1 DEF Promised
<1> QED
  BY <1>1, <1>8, <1>9, <1>10, <1>11 DEF LimiterInv

\* A request that waits or is idle again is one the handlers may have.
LEMMA NextVisit ==
    ASSUME NEW v, NEW s, Visiting(v, s), NEW h \in Visitor, NEW pc \in {"idle", "checking"},
           NEW t \in Visitor \union {NoOne}
    PROVE  Visiting([v EXCEPT ![h] = [Idle EXCEPT !.pc = pc]], t)
           /\ [Idle EXCEPT !.pc = "idle"] = Idle
<1>1. Never \in Int
  BY LimiterAssumption DEF Never
<1>2. [Idle EXCEPT !.pc = pc] = [pc |-> pc, key |-> NoOne, at |-> Never]
  BY DEF Idle
<1>3. [Idle EXCEPT !.pc = pc] \in Visit /\ [Idle EXCEPT !.pc = pc].pc \notin {"reading", "refused"}
  BY <1>1, <1>2 DEF Visit
<1>4. [Idle EXCEPT !.pc = "idle"] = Idle
  BY DEF Idle
<1> QED
  BY <1>3, <1>4 DEF Visiting

\* Whole seconds fall short of the ticks by less than one second.
LEMMA TruncNear ==
    ASSUME NEW x \in Int
    PROVE  Trunc(x) \in Int /\ Trunc(x) + second > x
<1>1. second \in Nat /\ second > 0
  BY ClockAssumption
<1>2. x = second * (x \div second) + (x % second) /\ x % second \in 0..(second - 1)
  BY <1>1
<1>3. x \div second \in Int
  BY <1>1
<1> DEFINE q == x \div second
<1>4. second * q = q * second /\ q * second \in Int
  BY <1>1, <1>3
<1> QED
  BY <1>2, <1>4, <1>1 DEF Trunc

\* What a refused client is told is after its oldest attempt is out.
LEMMA RetryIsLate ==
    ASSUME LimiterInv, NEW k \in Key
    PROVE  LET wait == IF RetryAfter(k) = 0 THEN second ELSE RetryAfter(k)
           IN /\ wait \in Int
              /\ BucketOf(order, k).times = <<>> \/ clock + wait > BucketOf(order, k).times[1] + window
<1> DEFINE b == BucketOf(order, k)
           x == b.times[1] + window - clock
           left == Trunc(x) + second
           wait == IF RetryAfter(k) = 0 THEN second ELSE RetryAfter(k)
<1>1. second \in Nat \ {0} /\ clock \in Nat /\ window \in Nat
  BY ClockAssumption, LimiterAssumption DEF LimiterInv
<1>2. CASE b.times = <<>>
  <2>1. RetryAfter(k) = 0
    BY <1>2 DEF RetryAfter
  <2> QED
    BY <1>1, <1>2, <2>1
<1>3. CASE b.times # <<>>
  <2>1. b.times \in Seq(Int)
    BY TimesOf
  <2>2. 1 \in 1..Len(b.times)
    BY <1>3, <2>1, EmptySeq
  <2>3. b.times[1] \in Int
    BY <2>1, <2>2, ElementOfSeq
  <2>4. RetryAfter(k) = IF left < second THEN second ELSE left
    BY <1>3 DEF RetryAfter
  <2> HIDE DEF b
  <2>5. x \in Int
    BY <1>1, <2>3
  <2>6. left \in Int /\ left > x
    BY <1>1, <2>5, TruncNear
  <2> HIDE DEF left
  <2>7. wait \in Int /\ wait > x
    <3>1. CASE left < second
      BY <1>1, <2>4, <2>5, <2>6, <3>1
    <3>2. CASE ~(left < second)
      BY <1>1, <2>4, <2>5, <2>6, <3>2
    <3> QED
      BY <3>1, <3>2
  <2> HIDE DEF wait
  <2>8. clock + wait > b.times[1] + window
    BY <1>1, <2>3, <2>7
  <2> QED
    BY <2>7, <2>8 DEF b, wait
<1> QED
  BY <1>2, <1>3

LEMMA TellRetryKeeps == ASSUME LimiterInv, NEW h \in Visitor, TellRetry(h) PROVE LimiterInv'
<1> DEFINE k == handler[h].key
           wait == IF RetryAfter(k) = 0 THEN second ELSE RetryAfter(k)
<1>1. /\ handler[h].pc = "refused"
      /\ told' = [told EXCEPT ![k] = clock + wait]
      /\ handler' = [handler EXCEPT ![h] = Idle]
      /\ UNCHANGED <<clock, order, slot, counted, tried>>
  BY DEF TellRetry
<1>2. k \in Key /\ Visiting(handler, slot)
  BY <1>1 DEF LimiterInv, Visiting
<1>3. /\ wait \in Int
      /\ BucketOf(order, k).times = <<>> \/ clock + wait > BucketOf(order, k).times[1] + window
  BY <1>2, RetryIsLate
<1> HIDE DEF k, wait
<1>4. told \in [Key -> Int] /\ clock \in Int
  BY DEF LimiterInv, Counted
<1>5. clock + wait \in Int
  BY <1>3, <1>4
<1>6. told' \in [Key -> Int]
  BY <1>1, <1>4, <1>5
<1>7. Promised(order', told')
  <2>1. ASSUME NEW j \in Key, told'[j] # Never
        PROVE  BucketOf(order, j).times = <<>> \/ told'[j] > BucketOf(order, j).times[1] + window
    <3>1. CASE j = k
      BY <1>1, <1>3, <1>4, <3>1
    <3>2. CASE j # k
      BY <1>1, <1>4, <2>1, <3>2 DEF LimiterInv, Promised
    <3> QED
      BY <3>1, <3>2
  <2> QED
    BY <1>1, <2>1 DEF Promised
<1>8. Visiting(handler', slot')
  <2>1. slot \in Visitor \union {NoOne}
    BY <1>2 DEF Visiting
  <2>2. Idle = [Idle EXCEPT !.pc = "idle"]
    BY <1>2, <2>1, NextVisit
  <2>3. Visiting([handler EXCEPT ![h] = [Idle EXCEPT !.pc = "idle"]], slot)
    BY <1>2, <2>1, NextVisit
  <2> QED
    BY <1>1, <2>2, <2>3
<1> QED
  BY <1>1, <1>6, <1>7, <1>8 DEF LimiterInv, Counted

\* A step of a request that has nothing to do with the list.
LEMMA VisitKeeps ==
    ASSUME LimiterInv, NEW h \in Visitor, BadBody(h) \/ GetSlot(h) \/ CheckDone(h)
    PROVE  LimiterInv'
<1>1. UNCHANGED <<clock, order, counted, tried, told>>
  BY DEF BadBody, GetSlot, CheckDone
<1>2. \E pc \in {"idle", "checking"} : handler' = [handler EXCEPT ![h] = [Idle EXCEPT !.pc = pc]]
  <2>1. [Idle EXCEPT !.pc = "idle"] = Idle
    BY DEF Idle
  <2> QED
    BY <2>1 DEF BadBody, GetSlot, CheckDone
<1>3. Visiting(handler, slot) /\ slot \in Visitor \union {NoOne}
  BY DEF LimiterInv, Visiting
<1>4. slot' \in Visitor \union {NoOne}
  BY <1>3 DEF BadBody, GetSlot, CheckDone
<1>5. Visiting(handler', slot')
  <2>1. PICK pc \in {"idle", "checking"} : handler' = [handler EXCEPT ![h] = [Idle EXCEPT !.pc = pc]]
    BY <1>2
  <2>2. Visiting([handler EXCEPT ![h] = [Idle EXCEPT !.pc = pc]], slot')
    BY <1>3, <1>4, NextVisit
  <2> QED
    BY <2>1, <2>2
<1> QED
  BY <1>1, <1>5 DEF LimiterInv, Counted

LEMMA LimiterTickKeeps == ASSUME LimiterInv, LimiterTick PROVE LimiterInv'
<1>1. /\ clock' = clock + 1
      /\ counted' = [k \in Key |-> expire(counted[k], clock' - window)]
      /\ tried' = [k \in Key |-> IF tried[k] > clock' - window THEN tried[k] ELSE Never]
      /\ UNCHANGED <<order, handler, slot, told>>
  BY DEF LimiterTick, cutoff
<1>2. /\ clock \in Nat /\ clock' \in Nat /\ clock' - window \in Int /\ clock - window \in Int
      /\ Never \in Int /\ Never <= clock' - window /\ clock <= clock'
      /\ clock - window <= clock' - window
  BY <1>1, LimiterAssumption DEF LimiterInv, Never
<1>3. counted \in [Key -> Seq(Int)] /\ tried \in [Key -> Int] /\ told \in [Key -> Int]
  BY DEF LimiterInv, Counted
<1>4. Counted(counted', tried', told')
  <2>1. \A k \in Key : expire(counted[k], clock' - window) \in Seq(Int)
    BY <1>2, <1>3, ExpireCounts
  <2>2. counted' \in [Key -> Seq(Int)]
    BY <1>1, <2>1
  <2>3. tried' \in [Key -> Int]
    BY <1>1, <1>2, <1>3
  <2> QED
    BY <1>1, <1>3, <2>2, <2>3 DEF Counted
<1>5. Buckets(order) /\ \A k \in Key : BucketOf(order, k).lastSeen \in Int
  <2>1. Buckets(order)
    BY DEF LimiterInv, TableOK
  <2> QED
    BY <2>1, BucketTyped DEF Bucket
<1>6. TableOK(order', clock')
  <2>1. ASSUME NEW k \in Key PROVE Sound(BucketOf(order, k), clock')
    <3>1. Sound(BucketOf(order, k), clock)
      BY DEF LimiterInv, TableOK
    <3>2. BucketOf(order, k).lastSeen <= clock'
      BY <1>2, <1>5, <3>1 DEF Sound
    <3> QED
      BY <3>1, <3>2 DEF Sound
  <2> QED
    BY <1>1, <2>1 DEF LimiterInv, TableOK
<1>7. Dated(order', clock', tried')
  <2>1. ASSUME NEW k \in Tracked(order)
        PROVE  \/ BucketOf(order, k).lastSeen = tried'[k]
               \/ BucketOf(order, k).lastSeen <= clock' - window /\ tried'[k] <= clock' - window
    <3>1. k \in Key /\ BucketOf(order, k).lastSeen \in Int /\ tried[k] \in Int
      BY <1>3, <1>5, TrackedAt
    <3>2. \/ BucketOf(order, k).lastSeen = tried[k]
          \/ BucketOf(order, k).lastSeen <= clock - window /\ tried[k] <= clock - window
      BY DEF LimiterInv, Dated
    <3>3. tried'[k] = IF tried[k] > clock' - window THEN tried[k] ELSE Never
      BY <1>1, <3>1
    <3> QED
      BY <1>2, <3>1, <3>2, <3>3
  <2> QED
    BY <1>1, <2>1 DEF Dated
<1>8. Dominated(order', clock', counted')
  <2>1. ASSUME NEW k \in Key, NEW d \in Int, d >= clock' - window
        PROVE  CountOver(BucketOf(order, k).times, d) <= CountOver(counted'[k], d)
    <3>1. CountOver(BucketOf(order, k).times, d) <= CountOver(counted[k], d)
      BY <1>2, <2>1 DEF LimiterInv, Dominated
    <3>2. CountOver(expire(counted[k], clock' - window), d) = CountOver(counted[k], d)
      BY <1>2, <1>3, <2>1, ExpireCounts
    <3> QED
      BY <1>1, <3>1, <3>2
  <2> QED
    BY <1>1, <2>1 DEF Dominated
<1>9. Promised(order', told')
  BY <1>1 DEF LimiterInv, Promised
<1> QED
  BY <1>1, <1>2, <1>4, <1>6, <1>7, <1>8, <1>9 DEF LimiterInv

\* A withdrawn attempt is the newest of the bucket, and one less to be counted for.
LEMMA TurnAwayKeeps == ASSUME LimiterInv, NEW h \in Visitor, TurnAway(h) PROVE LimiterInv'
<1> DEFINE k == handler[h].key
           at == handler[h].at
           c == counted[k]
           mine == {i \in 1..Len(c) : c[i] = at}
           T == BucketOf(order, k).times
<1>1. /\ handler[h].pc = "reading"
      /\ order' = Forget(order, k)
      /\ counted' = [counted EXCEPT ![k] = IF mine = {} THEN c ELSE RemoveAt(c, CHOOSE i \in mine : TRUE)]
      /\ handler' = [handler EXCEPT ![h] = Idle]
      /\ UNCHANGED <<clock, slot, tried, told>>
  BY DEF TurnAway
<1>2. k \in Key /\ Visiting(handler, slot) /\ slot \in Visitor \union {NoOne}
  BY <1>1 DEF LimiterInv, Visiting
<1>3. counted \in [Key -> Seq(Int)] /\ c \in Seq(Int)
  BY <1>2 DEF LimiterInv, Counted
<1>4. /\ counted'[k] \in Seq(Int)
      /\ \A d \in Int : CountOver(c, d) - 1 <= CountOver(counted'[k], d)
  <2>1. CASE mine = {}
    <3>1. counted'[k] = c
      BY <1>1, <1>2, <1>3, <2>1
    <3>2. \A d \in Int : CountOver(c, d) \in Nat
      BY <1>3, OverFinite
    <3> QED
      BY <1>3, <3>1, <3>2
  <2>2. CASE mine # {}
    <3> DEFINE p == CHOOSE i \in mine : TRUE
    <3>1. p \in 1..Len(c)
      BY <2>2
    <3>2. counted'[k] = RemoveAt(c, p)
      BY <1>1, <1>2, <1>3, <2>2
    <3> HIDE DEF p, c
    <3> QED
      BY <1>3, <3>1, <3>2, RemoveCounts DEF c
  <2> QED
    BY <2>1, <2>2
<1>5. counted' \in [Key -> Seq(Int)] /\ \A j \in Key \ {k} : counted'[j] = counted[j]
  <2> DEFINE new == IF mine = {} THEN c ELSE RemoveAt(c, CHOOSE i \in mine : TRUE)
  <2>1. counted' = [counted EXCEPT ![k] = new]
    BY <1>1
  <2> HIDE DEF new, k
  <2> QED
    BY <1>3, <1>4, <2>1
<1>6. Buckets(order) /\ Len(order) <= maxKeys /\ clock \in Nat
  BY DEF LimiterInv, TableOK
<1>7. /\ T \in Seq(Int) /\ Len(T) <= limit /\ Ascending(T)
      /\ \A d \in Int : d >= clock - window => CountOver(T, d) <= CountOver(c, d)
  BY <1>2, TimesOf DEF cutoff
<1>8. /\ Buckets(order') /\ Len(order') <= maxKeys
      /\ Tracked(order') \subseteq Tracked(order)
      /\ \A j \in Key \ {k} : BucketOf(order', j) = BucketOf(order, j)
      /\ BucketOf(order', k).times = IF T = <<>> THEN <<>> ELSE SubSeq(T, 1, Len(T) - 1)
      /\ k \in Tracked(order') => BucketOf(order', k).lastSeen = BucketOf(order, k).lastSeen
  BY <1>1, <1>2, <1>6, ForgetIs
<1> DEFINE U == SubSeq(T, 1, Len(T) - 1)
<1>9. ASSUME T # <<>>
      PROVE  /\ U \in Seq(Int) /\ Len(U) = Len(T) - 1 /\ \A i \in 1..Len(U) : U[i] = T[i] /\ i \in 1..Len(T)
             /\ \A d \in Int : CountOver(U, d) = IF CountOver(T, d) = 0 THEN 0 ELSE CountOver(T, d) - 1
  <2> HIDE DEF T
  <2>1. Len(T) \in Nat \ {0}
    BY <1>7, <1>9, EmptySeq
  <2>2. \A i \in 1..Len(T) : T[i] \in Int
    BY <1>7, ElementOfSeq
  <2>3. \A i \in 1..(Len(T) - 1) : T[i] \in Int /\ i \in 1..Len(T)
    BY <2>1, <2>2
  <2>4. 1 \in Int /\ Len(T) - 1 \in Int
    BY <2>1
  <2>5. /\ U \in Seq(Int) /\ Len(U) = (IF 1 <= Len(T) - 1 THEN Len(T) - 1 - 1 + 1 ELSE 0)
        /\ \A i \in 1..(Len(T) - 1 - 1 + 1) : U[i] = T[1 + i - 1]
    BY <2>3, <2>4, SubSeqProperties
  <2>6. ASSUME NEW i \in 1..Len(T) PROVE T[i] <= T[Len(T)]
    <3>1. CASE i = Len(T)
      BY <2>2, <3>1
    <3>2. CASE i < Len(T)
      <4>1. Len(T) \in 1..Len(T)
        BY <2>1
      <4> QED
        BY <1>7, <3>2, <4>1 DEF Ascending
    <3> QED
      BY <2>1, <3>1, <3>2
  <2>7. ASSUME NEW d \in Int
        PROVE CountOver(U, d) = IF CountOver(T, d) = 0 THEN 0 ELSE CountOver(T, d) - 1
    BY <1>7, <2>1, <2>6, DropLastCounts
  <2> HIDE DEF U
  <2>8. Len(U) = Len(T) - 1
    <3> DEFINE n == Len(T)
    <3>1. n \in Nat \ {0} /\ Len(U) = (IF 1 <= n - 1 THEN n - 1 - 1 + 1 ELSE 0)
      BY <2>1, <2>5
    <3> HIDE DEF n
    <3>2. Len(U) = n - 1
      BY <3>1
    <3> QED
      BY <3>2 DEF n
  <2>9. \A i \in 1..Len(U) : U[i] = T[i] /\ i \in 1..Len(T)
    BY <2>1, <2>3, <2>5, <2>8
  <2> QED
    BY <2>5, <2>7, <2>8, <2>9
<1> HIDE DEF U, T, mine, c, at, k
<1>10. TableOK(order', clock')
  <2>1. ASSUME NEW j \in Key PROVE Sound(BucketOf(order', j), clock)
    <3>1. CASE j # k
      BY <1>8, <3>1 DEF LimiterInv, TableOK
    <3>2. CASE j = k /\ k \notin Tracked(order')
      <4>1. BucketOf(order', j) = EmptyBucket(j)
        BY <3>2 DEF BucketOf
      <4> QED
        BY <1>6, <4>1, EmptySound
    <3>3. CASE j = k /\ k \in Tracked(order')
      <4>1. Sound(BucketOf(order, k), clock) /\ BucketOf(order', k).lastSeen = BucketOf(order, k).lastSeen
        BY <1>2, <1>8, <3>3 DEF LimiterInv, TableOK
      <4>2. CASE T = <<>>
        BY <1>8, <3>3, <4>1, <4>2 DEF Sound, T
      <4>3. CASE T # <<>>
        <5>1. BucketOf(order', k).times = U
          BY <1>8, <4>3 DEF U
        <5>2. Len(T) \in Nat /\ limit \in Nat
          BY <1>7, LenProperties, LimiterAssumption
        <5>3. Len(U) <= limit
          BY <1>7, <1>9, <4>3, <5>2
        <5>4. Ascending(U)
          BY <1>7, <1>9, <4>3 DEF Ascending
        <5>5. \A i \in 1..Len(U) : U[i] <= BucketOf(order, k).lastSeen
          BY <1>9, <4>1, <4>3 DEF Sound, T
        <5> QED
          BY <3>3, <4>1, <5>1, <5>3, <5>4, <5>5 DEF Sound
      <4> QED
        BY <4>2, <4>3
    <3> QED
      BY <3>1, <3>2, <3>3
  <2> QED
    BY <1>1, <1>8, <2>1 DEF TableOK
<1>11. Dated(order', clock', tried')
  <2>1. ASSUME NEW j \in Tracked(order')
        PROVE  BucketOf(order', j).lastSeen = BucketOf(order, j).lastSeen /\ j \in Tracked(order)
    <3>1. j \in Key
      BY <1>8, TrackedAt
    <3> QED
      BY <1>8, <3>1
  <2> QED
    BY <1>1, <2>1 DEF LimiterInv, Dated
<1>12. Dominated(order', clock', counted')
  <2>1. ASSUME NEW j \in Key, NEW d \in Int, d >= clock - window
        PROVE  CountOver(BucketOf(order', j).times, d) <= CountOver(counted'[j], d)
    <3>1. CASE j # k
      BY <1>5, <1>8, <2>1, <3>1 DEF LimiterInv, Dominated
    <3>2. CASE j = k
      <4>1. /\ CountOver(T, d) <= CountOver(c, d) /\ CountOver(c, d) - 1 <= CountOver(counted'[k], d)
            /\ CountOver(T, d) \in Nat /\ CountOver(c, d) \in Nat /\ CountOver(counted'[k], d) \in Nat
        BY <1>3, <1>4, <1>7, <2>1, OverFinite
      <4>2. CASE T = <<>>
        <5>1. CountOver(<<>>, d) = 0
          BY NoTimes
        <5> QED
          BY <1>8, <3>2, <4>1, <4>2, <5>1
      <4>3. CASE T # <<>>
        <5>1. BucketOf(order', k).times = U
          BY <1>8, <4>3 DEF U
        <5>2. CountOver(U, d) = IF CountOver(T, d) = 0 THEN 0 ELSE CountOver(T, d) - 1
          BY <1>9, <4>3
        <5>3. CountOver(U, d) <= CountOver(counted'[k], d)
          BY <4>1, <5>2
        <5> QED
          BY <3>2, <5>1, <5>3
      <4> QED
        BY <4>2, <4>3
    <3> QED
      BY <3>1, <3>2
  <2> QED
    BY <1>1, <2>1 DEF Dominated
<1>13. Promised(order', told')
  <2>1. ASSUME NEW j \in Key, told[j] # Never
        PROVE  BucketOf(order', j).times = <<>> \/ told[j] > BucketOf(order', j).times[1] + window
    <3>1. CASE j # k
      BY <1>8, <2>1, <3>1 DEF LimiterInv, Promised
    <3>2. CASE j = k /\ T # <<>> /\ U # <<>>
      <4>1. BucketOf(order', k).times = U
        BY <1>8, <3>2 DEF U
      <4>2. 1 \in 1..Len(U)
        BY <1>9, <3>2, EmptySeq
      <4>3. U[1] = T[1]
        BY <1>9, <3>2, <4>2
      <4>4. told[j] > T[1] + window
        BY <2>1, <3>2 DEF LimiterInv, Promised, T
      <4> QED
        BY <3>2, <4>1, <4>3, <4>4
    <3>3. CASE j = k /\ (T = <<>> \/ U = <<>>)
      BY <1>8, <3>3 DEF U
    <3> QED
      BY <3>1, <3>2, <3>3
  <2> QED
    BY <1>1, <2>1 DEF Promised
<1>14. Visiting(handler', slot')
  <2>1. Idle = [Idle EXCEPT !.pc = "idle"]
    BY <1>2, NextVisit
  <2>2. Visiting([handler EXCEPT ![h] = [Idle EXCEPT !.pc = "idle"]], slot)
    BY <1>2, NextVisit
  <2> QED
    BY <1>1, <2>1, <2>2
<1> QED
  BY <1>1, <1>5, <1>10, <1>11, <1>12, <1>13, <1>14 DEF LimiterInv, Counted

LEMMA LimiterStep == LimiterInv /\ [LimiterNext]_<<clock, limiterVars>> => LimiterInv'
<1> SUFFICES ASSUME LimiterInv, [LimiterNext]_<<clock, limiterVars>> PROVE LimiterInv'
  OBVIOUS
<1>1. CASE UNCHANGED <<clock, limiterVars>>
  BY <1>1 DEF LimiterInv, limiterVars, Counted
<1>2. ASSUME NEW h \in Visitor, NEW k \in Key, Attempt(h, k) PROVE LimiterInv'
  BY <1>2, AttemptKeeps
<1>3. ASSUME NEW h \in Visitor, TellRetry(h) PROVE LimiterInv'
  BY <1>3, TellRetryKeeps
<1>4. ASSUME NEW h \in Visitor, BadBody(h) \/ GetSlot(h) \/ CheckDone(h) PROVE LimiterInv'
  BY <1>4, VisitKeeps
<1>5. ASSUME NEW h \in Visitor, TurnAway(h) PROVE LimiterInv'
  BY <1>5, TurnAwayKeeps
<1>6. CASE Cleanup
  BY <1>6, CleanupKeeps
<1>7. CASE LimiterTick
  BY <1>7, LimiterTickKeeps
<1> QED
  BY <1>1, <1>2, <1>3, <1>4, <1>5, <1>6, <1>7 DEF LimiterNext

\* Who is forgotten for somebody else is whoever tried least recently: the table was full of
\* clients seen since cutoff, so its back is the oldest of them.
ForgetsOldest ==
  Tracked(order') \ Tracked(order) # {} => \A k \in Tracked(order) \ Tracked(order') :
    \/ tried[k] <= cutoff
    \/ \A j \in Tracked(order) : tried[k] <= tried[j]

LEMMA AttemptForgets ==
    ASSUME LimiterInv, NEW h \in Visitor, NEW k \in Key, Attempt(h, k)
    PROVE  ForgetsOldest
<1> SUFFICES ASSUME NEW l \in Tracked(order) \ Tracked(order')
             PROVE  tried[l] <= cutoff \/ \A j \in Tracked(order) : tried[l] <= tried[j]
  BY DEF ForgetsOldest
<1>1. /\ Buckets(order) /\ Dated(order, clock, tried) /\ cutoff \in Int /\ clock \in Int
      /\ cutoff = clock - window /\ tried \in [Key -> Int]
  BY LimiterAssumption DEF LimiterInv, TableOK, cutoff, Counted
<1>2. \/ BucketOf(order, l).lastSeen <= cutoff
      \/ /\ Len(order) >= 1 /\ l = order[Len(order)].key
         /\ \A i \in 1..Len(order) : order[i].lastSeen > cutoff
  BY AttemptOn
<1>3. \/ BucketOf(order, l).lastSeen = tried[l]
      \/ BucketOf(order, l).lastSeen <= cutoff /\ tried[l] <= cutoff
  BY <1>1 DEF Dated
<1>4. CASE BucketOf(order, l).lastSeen <= cutoff
  BY <1>3, <1>4
<1>5. CASE /\ Len(order) >= 1 /\ l = order[Len(order)].key
           /\ \A i \in 1..Len(order) : order[i].lastSeen > cutoff
  <2> DEFINE n == Len(order)
  <2>1. n \in 1..n /\ n \in Nat
    BY <1>1, <1>5, LenProperties DEF Buckets
  <2>2. ASSUME NEW i \in 1..n
        PROVE  /\ order[i].lastSeen \in Int /\ tried[order[i].key] = order[i].lastSeen
               /\ order[n].lastSeen <= order[i].lastSeen
    <3>1. order[i] \in Bucket /\ order[n] \in Bucket /\ BucketOf(order, order[i].key) = order[i]
          /\ order[i].key \in Tracked(order)
      BY <1>1, <2>1, BucketIs
    <3>2. order[i].lastSeen \in Int /\ order[n].lastSeen \in Int
      BY <3>1 DEF Bucket
    <3>3. tried[order[i].key] = order[i].lastSeen
      <4>1. \/ order[i].lastSeen = tried[order[i].key]
            \/ order[i].lastSeen <= cutoff
        BY <1>1, <3>1 DEF Dated
      <4>2. order[i].lastSeen > cutoff
        BY <1>5
      <4> QED
        BY <1>1, <3>2, <4>1, <4>2
    <3>4. order[n].lastSeen <= order[i].lastSeen
      <4>1. CASE i = n
        BY <3>2, <4>1
      <4>2. CASE i < n
        BY <1>1, <2>1, <3>2, <4>2 DEF Buckets
      <4> QED
        BY <2>1, <4>1, <4>2
    <3> QED
      BY <3>2, <3>3, <3>4
  <2>3. ASSUME NEW j \in Tracked(order) PROVE tried[l] <= tried[j]
    <3>1. PICK i \in 1..n : order[i].key = j
      BY DEF Tracked
    <3> QED
      BY <1>5, <2>1, <2>2, <3>1
  <2> QED
    BY <2>3
<1> QED
  BY <1>2, <1>4, <1>5

\* Who is refused was not told an earlier time than this: a full bucket has its oldest
\* attempt in the window, and that one was in front when the time was told.
ComesBackInTime ==
  \A h \in Visitor :
    handler'[h].pc = "refused" /\ handler[h].pc = "idle" =>
      LET k == handler'[h].key
      IN told[k] = Never \/ clock < told[k]

LEMMA AttemptHonest ==
    ASSUME LimiterInv, NEW h \in Visitor, NEW k \in Key, Attempt(h, k)
    PROVE  ComesBackInTime
<1> SUFFICES ASSUME NEW g \in Visitor, handler'[g].pc = "refused", handler[g].pc = "idle"
             PROVE  told[handler'[g].key] = Never \/ clock < told[handler'[g].key]
  BY DEF ComesBackInTime
<1>1. PICK times \in {BucketOf(order, k).times, <<>>} :
             LET kept == expire(times, cutoff) IN
             \/ /\ Len(kept) >= limit
                /\ handler' = [handler EXCEPT ![h] = [pc |-> "refused", key |-> k, at |-> Never]]
             \/ /\ ~(Len(kept) >= limit)
                /\ handler' = [handler EXCEPT ![h] = [pc |-> "reading", key |-> k, at |-> clock]]
  BY AttemptOn
<1> DEFINE kept == expire(times, cutoff)
<1>2. handler \in [Visitor -> Visit]
  BY DEF LimiterInv, Visiting
<1>3. Len(kept) >= limit /\ handler'[g].key = k
  <2>1. g = h
    BY <1>1, <1>2
  <2> QED
    BY <1>1, <1>2, <2>1
<1>4. /\ clock \in Int /\ cutoff \in Int /\ cutoff = clock - window /\ limit \in Nat \ {0} /\ window \in Nat
      /\ told[k] \in Int
  BY LimiterAssumption DEF LimiterInv, Counted, cutoff
<1>5. times \in Seq(Int) /\ Len(times) <= limit /\ Ascending(times)
      /\ \A i \in 1..Len(times) : times[i] <= clock
  BY TimesOf
<1>6. /\ kept \in Seq(Int)
      /\ Len(kept) # 0 => kept[1] > cutoff
      /\ Len(kept) >= Len(times) => kept = times
  BY <1>4, <1>5, KeptSound
<1> HIDE DEF kept
<1>7. Len(kept) \in Nat /\ Len(times) \in Nat
  BY <1>5, <1>6, LenProperties
<1>8. kept = times /\ times # <<>> /\ times[1] > cutoff /\ times[1] \in Int
  <2>1. Len(kept) # 0 /\ kept = times
    BY <1>3, <1>4, <1>5, <1>6, <1>7
  <2>2. times # <<>> /\ 1 \in 1..Len(times)
    BY <1>7, <2>1, EmptySeq
  <2> QED
    BY <1>5, <1>6, <2>1, <2>2, ElementOfSeq
<1>9. times = BucketOf(order, k).times
  BY <1>8
<1>10. told[k] # Never => told[k] > times[1] + window
  BY <1>8, <1>9 DEF LimiterInv, Promised
<1> QED
  BY <1>3, <1>4, <1>8, <1>10

\* The limiter keeps at most maxKeys buckets of at most limit attempts, one per client, the
\* latest seen first (auth/ratelimit.go:17-40).
THEOREM LimiterTyped == LimiterSpec => []LimiterTypeOK
<1> QED
  BY LimiterStart, LimiterStep, LimiterInvTyped, PTL DEF LimiterSpec

\* A turned away login costs no place, a full table forgets who tried least recently, and
\* who comes back when it was told to is let in (auth/ratelimit.go:10-15,
\* auth/handlers.go:79-81).
THEOREM LimiterIsHonest == LimiterSpec => LimiterHonest
<1>1. LimiterInv => NotOvercounted
  <2> SUFFICES ASSUME LimiterInv PROVE NotOvercounted
    OBVIOUS
  <2>1. cutoff \in Int /\ cutoff >= clock - window
    BY LimiterAssumption DEF LimiterInv, cutoff
  <2>2. ASSUME NEW k \in Key
        PROVE  CountOver(BucketOf(order, k).times, cutoff) <= CountOver(counted[k], cutoff)
    BY <2>1 DEF LimiterInv, Dominated
  <2> QED
    BY <2>2 DEF NotOvercounted, InWindow, CountOver, Over
<1>2. LimiterInv /\ [LimiterNext]_<<clock, limiterVars>> => [ForgetsOldest]_limiterVars
  <2> SUFFICES ASSUME LimiterInv, [LimiterNext]_<<clock, limiterVars>> PROVE [ForgetsOldest]_limiterVars
    OBVIOUS
  <2>1. ASSUME NEW h \in Visitor, NEW k \in Key, Attempt(h, k) PROVE ForgetsOldest
    BY <2>1, AttemptForgets
  <2>2. ASSUME Tracked(order') \subseteq Tracked(order) PROVE ForgetsOldest
    BY <2>2 DEF ForgetsOldest
  <2>3. CASE order' = order
    BY <2>2, <2>3
  <2>4. CASE Cleanup
    <3>1. cutoff \in Int /\ Buckets(order) /\ order' = removeStale(order)
      BY <2>4, LimiterAssumption DEF LimiterInv, TableOK, cutoff, Cleanup
    <3>2. Buckets(order') /\ PartOf(order', order)
      BY <3>1, StaleGone
    <3> QED
      BY <2>2, <3>1, <3>2, PartKeeps
  <2>5. ASSUME NEW h \in Visitor, TurnAway(h) PROVE ForgetsOldest
    <3>1. handler[h].key \in Key /\ Buckets(order) /\ Len(order) <= maxKeys
      BY <2>5 DEF TurnAway, LimiterInv, Visiting, TableOK
    <3>2. order' = Forget(order, handler[h].key)
      BY <2>5 DEF TurnAway
    <3>3. Tracked(order') \subseteq Tracked(order)
      BY <3>1, <3>2, ForgetIs
    <3> QED
      BY <2>2, <3>3
  <2> QED
    BY <2>1, <2>3, <2>4, <2>5
    DEF LimiterNext, limiterVars, TellRetry, BadBody, GetSlot, CheckDone, LimiterTick
<1>3. LimiterInv /\ [LimiterNext]_<<clock, limiterVars>> => [ComesBackInTime]_limiterVars
  <2> SUFFICES ASSUME LimiterInv, [LimiterNext]_<<clock, limiterVars>> PROVE [ComesBackInTime]_limiterVars
    OBVIOUS
  <2>1. ASSUME NEW h \in Visitor, NEW k \in Key, Attempt(h, k) PROVE ComesBackInTime
    BY <2>1, AttemptHonest
  <2>2. ASSUME NEW h \in Visitor, NEW v, v.pc # "refused", handler' = [handler EXCEPT ![h] = v]
        PROVE  ComesBackInTime
    <3>1. handler \in [Visitor -> Visit]
      BY DEF LimiterInv, Visiting
    <3> QED
      BY <2>2, <3>1 DEF ComesBackInTime
  <2>3. Idle.pc = "idle" /\ [Idle EXCEPT !.pc = "checking"].pc = "checking"
    BY DEF Idle
  <2>4. ASSUME NEW h \in Visitor, \/ TellRetry(h) \/ BadBody(h) \/ CheckDone(h) \/ TurnAway(h)
        PROVE  ComesBackInTime
    <3>1. handler' = [handler EXCEPT ![h] = Idle]
      BY <2>4 DEF TellRetry, BadBody, CheckDone, TurnAway
    <3> QED
      BY <2>2, <2>3, <3>1
  <2>5. ASSUME NEW h \in Visitor, GetSlot(h) PROVE ComesBackInTime
    <3>1. handler' = [handler EXCEPT ![h] = [Idle EXCEPT !.pc = "checking"]]
      BY <2>5 DEF GetSlot
    <3> QED
      BY <2>2, <2>3, <3>1
  <2>6. CASE handler' = handler
    BY <2>6 DEF ComesBackInTime
  <2> QED
    BY <2>1, <2>4, <2>5, <2>6 DEF LimiterNext, limiterVars, Cleanup, LimiterTick
<1>5. LimiterSpec => []NotOvercounted
  BY <1>1, LimiterStart, LimiterStep, PTL DEF LimiterSpec
<1>6. LimiterSpec => [][ForgetsOldest]_limiterVars
  BY <1>2, LimiterStart, LimiterStep, PTL DEF LimiterSpec
<1>7. LimiterSpec => [][ComesBackInTime]_limiterVars
  BY <1>3, LimiterStart, LimiterStep, PTL DEF LimiterSpec
<1>8. LimiterSpec => ForgetsLeastRecent
  BY <1>6 DEF ForgetsLeastRecent, ForgetsOldest
<1>9. LimiterSpec => RetryIsHonest
  BY <1>7 DEF RetryIsHonest, ComesBackInTime
<1> QED
  BY <1>5, <1>8, <1>9 DEF LimiterHonest
=============================================================================
