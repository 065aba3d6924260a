---------------------------- MODULE AgentProofs ----------------------------
(***************************************************************************)
(* Proofs about what a server and its agents tell each other.              *)
(*                                                                         *)
(* AgentAuth: its type invariant, the bound of the replay cache, that the  *)
(* cache holds an accepted nonce while it is acceptable, that a request    *)
(* delivered again is refused while its timestamp is acceptable, however   *)
(* long verifications take and whatever clocks they have read, and that    *)
(* none is refused without a reason.                                       *)
(*                                                                         *)
(* AgentReports: that what lookups use and answer is right, for any nodes, *)
(* faulty agents, tasks, containers and concurrent lookups.                *)
(***************************************************************************)
EXTENDS AgentAuth, AgentReports, FiniteSetTheorems, TLAPS

Busy(h) == stage[h] # "idle"

\* A nonce names one signed request.
NonceNames == \A r, s \in sent : r.nonce = s.nonce => r = s

\* A nonce that was accepted is one that was signed.
AcceptedSigned == \A n \in Nonce : accepted[n] > 0 => \E r \in sent : r.nonce = n

\* What a verification in progress holds: a signed request, acceptable when the
\* clock was read.
HandlersHold ==
    \A h \in Handler : Busy(h) =>
        /\ req[h] \in sent
        /\ now[h] <= agentClock
        /\ now[h] <= req[h].ts + MaxClockSkew

Inv ==
    /\ AuthTypeOK
    /\ NonceNames /\ AcceptedSigned /\ HandlersHold
    /\ KeptWhileAcceptable
    /\ CacheBounded

----------------------------------------------------------------------------
(* The cache.                                                              *)

\* The entries of a cache are finitely many.
LEMMA LiveFinite ==
    ASSUME NEW s
    PROVE  /\ IsFiniteSet(Live(s))
           /\ Cardinality(Live(s)) \in Nat
<1>1. Live(s) \subseteq Nonce
  BY DEF Live
<1>2. IsFiniteSet(Live(s))
  BY <1>1, AuthAssumption, FS_Subset
<1> QED
  BY <1>2, FS_CardinalityType

\* An entry more makes the cache larger by one at most.
LEMMA LiveAdd ==
    ASSUME NEW s, NEW t, NEW n \in Nonce, Live(t) \subseteq Live(s) \union {n}
    PROVE  Cardinality(Live(t)) <= Cardinality(Live(s)) + 1
<1>1. IsFiniteSet(Live(s)) /\ Cardinality(Live(s)) \in Nat /\ Cardinality(Live(t)) \in Nat
  BY LiveFinite
<1>2. IsFiniteSet(Live(s) \union {n}) /\ Cardinality(Live(s) \union {n}) <= Cardinality(Live(s)) + 1
  <2>1. /\ IsFiniteSet(Live(s) \union {n})
        /\ \/ Cardinality(Live(s) \union {n}) = Cardinality(Live(s))
           \/ Cardinality(Live(s) \union {n}) = Cardinality(Live(s)) + 1
    BY <1>1, FS_AddElement
  <2> QED
    BY <1>1, <2>1
<1>3. Cardinality(Live(t)) <= Cardinality(Live(s) \union {n})
  BY <1>2, FS_Subset
<1>4. Cardinality(Live(s) \union {n}) \in Nat
  BY <1>2, FS_CardinalityType
<1> QED
  BY <1>1, <1>2, <1>3, <1>4

\* The size at which the cache is pruned stays between its two limits.
LEMMA PruneBoundType ==
    ASSUME NEW size \in Nat
    PROVE  PruneBound(size) \in seenPruneSize .. maxSeenNonces
BY AuthAssumption DEF PruneBound, SmallerOf, LargerOf

\* A prune keeps every entry that is not expired, and changes none it keeps.
LEMMA PrunedKeeps ==
    ASSUME seen \in [Nonce -> Nat \union {Absent}], NEW t \in Nat, NEW n \in Nonce
    PROVE  /\ Pruned(t) \in [Nonce -> Nat \union {Absent}]
           /\ Pruned(t)[n] \in {seen[n], Absent}
           /\ t <= seen[n] => Pruned(t)[n] = seen[n]
BY DEF Pruned, Prune, Absent

----------------------------------------------------------------------------
(* The invariant.                                                          *)

\* The invariant holds at the start: nothing was signed and the cache is empty.
LEMMA InitInv == AuthInit => Inv
<1> SUFFICES ASSUME AuthInit PROVE Inv
  OBVIOUS
<1> USE AuthAssumption
<1>1. AuthTypeOK
  BY DEF AuthInit, AuthTypeOK, Request, Absent
<1>2. NonceNames /\ AcceptedSigned /\ KeptWhileAcceptable
  BY DEF AuthInit, NonceNames, AcceptedSigned, KeptWhileAcceptable
<1>3. HandlersHold
  BY DEF AuthInit, HandlersHold, Busy
<1>4. CacheBounded
  <2>1. Live(seen) = {}
    BY DEF AuthInit, Live
  <2> QED
    BY <2>1, FS_EmptySet DEF CacheBounded
<1> QED
  BY <1>1, <1>2, <1>3, <1>4 DEF Inv

\* A new request has a nonce no other request has, and none that was accepted.
LEMMA AuthorizeInv ==
    ASSUME Inv, NEW n \in Nonce, NEW ts \in 0 .. MaxAgentClock, NEW a \in Addr, Authorize(n, ts, a)
    PROVE  Inv'
<1> USE AuthAssumption DEF Inv, Authorize
<1>1. AuthTypeOK'
  BY DEF AuthTypeOK, Request, cacheVars, addrVars
<1>2. NonceNames'
  BY DEF NonceNames
<1>3. AcceptedSigned'
  BY DEF AcceptedSigned, cacheVars
<1>4. HandlersHold'
  BY DEF HandlersHold, Busy
<1>5. accepted[n] = 0
  BY DEF AcceptedSigned, AuthTypeOK
<1>6. KeptWhileAcceptable'
  BY <1>5 DEF KeptWhileAcceptable, cacheVars
<1>7. CacheBounded'
  BY DEF CacheBounded, cacheVars, Live
<1> QED
  BY <1>1, <1>2, <1>3, <1>4, <1>6, <1>7

\* A verification begins with a signed request that is acceptable now.
LEMMA VerifyInv ==
    ASSUME Inv, NEW h \in Handler, NEW r \in sent, Verify(h, r)
    PROVE  Inv'
<1> USE AuthAssumption DEF Inv, Verify
<1>1. r \in Request
  BY DEF AuthTypeOK
<1>2. AuthTypeOK'
  BY <1>1 DEF AuthTypeOK, cacheVars, addrVars
<1>3. NonceNames' /\ AcceptedSigned' /\ KeptWhileAcceptable'
  BY DEF NonceNames, AcceptedSigned, KeptWhileAcceptable, cacheVars
<1>4. HandlersHold'
  <2> SUFFICES ASSUME NEW g \in Handler, Busy(g)'
               PROVE  /\ (req[g] \in sent)' /\ (now[g] <= agentClock)'
                      /\ (now[g] <= req[g].ts + MaxClockSkew)'
    BY DEF HandlersHold
  <2>1. CASE g = h
    BY <1>1, <2>1 DEF AuthTypeOK, Acceptable, Request
  <2>2. CASE g # h
    BY <2>2 DEF AuthTypeOK, HandlersHold, Busy
  <2> QED
    BY <2>1, <2>2
<1>5. CacheBounded'
  BY DEF CacheBounded, cacheVars, Live
<1> QED
  BY <1>2, <1>3, <1>4, <1>5

\* The address check touches neither the cache nor what handlers hold.
LEMMA IsLocalInv ==
    ASSUME Inv, NEW h \in Handler, IsLocal(h)
    PROVE  Inv'
<1> USE AuthAssumption DEF Inv
<1>1. /\ UNCHANGED <<agentClock, sent, seen, pruneAt, accepted, addrs, req, now>>
      /\ Busy(h)
      /\ stage' \in [Handler -> {"idle", "checked", "local"}]
      /\ \A g \in Handler : Busy(g)' => Busy(g)
      /\ local' \subseteq Addr /\ localRead' \in Nat
  BY DEF IsLocal, AfterLocal, Busy, AuthTypeOK, cacheVars
<1>2. AuthTypeOK'
  BY <1>1 DEF AuthTypeOK
<1>3. NonceNames' /\ AcceptedSigned' /\ KeptWhileAcceptable'
  BY <1>1 DEF NonceNames, AcceptedSigned, KeptWhileAcceptable
<1>4. HandlersHold'
  BY <1>1 DEF HandlersHold
<1>5. CacheBounded'
  BY <1>1 DEF CacheBounded, Live
<1> QED
  BY <1>2, <1>3, <1>4, <1>5

\* What `remember' does to the cache: nothing, a prune, or a prune and a new entry
\* for a cache that has room.
LEMMA RememberCache ==
    ASSUME Inv, NEW h \in Handler, Remember(h)
    PROVE  LET n == req[h].nonce
               kept == Pruned(now[h])
           IN  \/ seen' = seen /\ pruneAt' = pruneAt /\ accepted' = accepted /\ seen[n] # Absent
               \/ /\ seen[n] = Absent
                  /\ pruneAt' \in seenPruneSize .. maxSeenNonces
                  /\ \/ seen' = kept /\ accepted' = accepted /\ Cardinality(Live(kept)) >= maxSeenNonces
                     \/ /\ Cardinality(Live(kept)) < maxSeenNonces
                        /\ seen' = [kept EXCEPT ![n] = req[h].ts + MaxClockSkew]
                        /\ accepted' = [accepted EXCEPT ![n] = @ + 1]
<1> DEFINE n == req[h].nonce
           kept == Pruned(now[h])
<1>1. Cardinality(Live(kept)) \in Nat
  BY LiveFinite
<1>2. PruneBound(Cardinality(Live(kept))) \in seenPruneSize .. maxSeenNonces
  BY <1>1, PruneBoundType
<1>3. Cardinality(Live(kept)) < maxSeenNonces \/ Cardinality(Live(kept)) >= maxSeenNonces
  BY <1>1, AuthAssumption
<1> HIDE DEF kept
<1>4. CASE seen[n] # Absent
  BY <1>4 DEF Remember, cacheVars
<1>5. CASE seen[n] = Absent
  <2>1. pruneAt' \in seenPruneSize .. maxSeenNonces
    BY <1>2, <1>5 DEF Remember, Inv, AuthTypeOK, kept
  <2>2. CASE Full(kept)
    BY <1>5, <2>1, <2>2 DEF Remember, Full, kept
  <2>3. CASE ~Full(kept)
    <3>1. Cardinality(Live(kept)) < maxSeenNonces
      BY <1>3, <2>3 DEF Full
    <3> QED
      BY <1>5, <2>1, <2>3, <3>1 DEF Remember, kept
  <2> QED
    BY <2>2, <2>3
<1> QED
  BY <1>4, <1>5 DEF kept

\* The cache step: a prune drops what is expired for its handler, hence for the clock.
LEMMA RememberInv ==
    ASSUME Inv, NEW h \in Handler, Remember(h)
    PROVE  Inv'
<1> DEFINE n == req[h].nonce
           kept == Pruned(now[h])
           exp == req[h].ts + MaxClockSkew
<1> USE AuthAssumption
<1>1. /\ UNCHANGED <<agentClock, sent, local, localRead, addrs, req, now>>
      /\ Busy(h)
      /\ stage' \in [Handler -> {"idle", "checked", "local"}]
      /\ \A g \in Handler : Busy(g)' => Busy(g)
  BY DEF Inv, Remember, Busy, AuthTypeOK, addrVars
<1>2. /\ req[h] \in sent /\ req[h] \in Request
      /\ n \in Nonce /\ exp \in Nat /\ now[h] \in Nat /\ now[h] <= agentClock
  BY <1>1 DEF Inv, HandlersHold, AuthTypeOK, Request
<1>3. seen \in [Nonce -> Nat \union {Absent}] /\ accepted \in [Nonce -> Nat] /\ agentClock \in Nat
  BY DEF Inv, AuthTypeOK
<1>4. /\ kept \in [Nonce -> Nat \union {Absent}]
      /\ \A m \in Nonce : /\ kept[m] \in {seen[m], Absent}
                          /\ agentClock <= seen[m] => kept[m] = seen[m]
  <2> SUFFICES ASSUME NEW m \in Nonce
               PROVE  /\ kept \in [Nonce -> Nat \union {Absent}]
                      /\ kept[m] \in {seen[m], Absent}
                      /\ agentClock <= seen[m] => kept[m] = seen[m]
    BY <1>2
  <2>1. seen[m] \in Int
    BY <1>3 DEF Absent
  <2>2. agentClock <= seen[m] => now[h] <= seen[m]
    BY <1>2, <1>3, <2>1
  <2> QED
    BY <1>2, <1>3, <2>2, PrunedKeeps
<1> HIDE DEF kept
<1>5. \/ seen' = seen /\ pruneAt' = pruneAt /\ accepted' = accepted
      \/ /\ seen[n] = Absent
         /\ pruneAt' \in seenPruneSize .. maxSeenNonces
         /\ \/ seen' = kept /\ accepted' = accepted
            \/ /\ Cardinality(Live(kept)) < maxSeenNonces
               /\ seen' = [kept EXCEPT ![n] = exp]
               /\ accepted' = [accepted EXCEPT ![n] = @ + 1]
  BY RememberCache DEF kept
<1>6. /\ seen' \in [Nonce -> Nat \union {Absent}]
      /\ accepted' \in [Nonce -> Nat]
      /\ pruneAt' \in seenPruneSize .. maxSeenNonces
  BY <1>2, <1>3, <1>4, <1>5 DEF Inv, AuthTypeOK
<1>7. AuthTypeOK'
  BY <1>1, <1>6 DEF Inv, AuthTypeOK
<1>8. NonceNames'
  BY <1>1 DEF Inv, NonceNames
<1>9. AcceptedSigned'
  BY <1>1, <1>2, <1>3, <1>5 DEF Inv, AcceptedSigned
<1>10. HandlersHold'
  BY <1>1 DEF Inv, HandlersHold
<1>11. KeptWhileAcceptable'
  <2> SUFFICES ASSUME NEW r \in sent, accepted'[r.nonce] > 0, agentClock <= r.ts + MaxClockSkew
               PROVE  seen'[r.nonce] = r.ts + MaxClockSkew
    BY <1>1 DEF KeptWhileAcceptable
  <2>1. r \in Request /\ r.nonce \in Nonce
    BY DEF Inv, AuthTypeOK, Request
  <2>2. CASE r.nonce = n
    <3>1. r = req[h]
      BY <1>2, <2>2 DEF Inv, NonceNames
    <3>2. CASE accepted[n] > 0
      <4>1. seen[n] = exp
        BY <3>1, <3>2 DEF Inv, KeptWhileAcceptable
      <4>2. seen[n] # Absent
        BY <1>2, <4>1 DEF Absent
      <4> QED
        BY <1>5, <2>2, <3>1, <4>1, <4>2
    <3>3. CASE ~(accepted[n] > 0)
      BY <1>2, <1>3, <1>4, <1>5, <2>2, <3>1, <3>3
    <3> QED
      BY <3>2, <3>3
  <2>3. CASE r.nonce # n
    <3>1. accepted[r.nonce] > 0
      BY <1>3, <1>5, <2>1, <2>3
    <3>2. seen[r.nonce] = r.ts + MaxClockSkew
      BY <3>1 DEF Inv, KeptWhileAcceptable
    <3>3. kept[r.nonce] = seen[r.nonce]
      BY <1>4, <2>1, <3>2
    <3> QED
      BY <1>4, <1>5, <2>1, <2>3, <3>2, <3>3
  <2> QED
    BY <2>2, <2>3
<1>12. CacheBounded'
  <2>1. /\ Cardinality(Live(seen)) \in Nat /\ Cardinality(Live(kept)) \in Nat
        /\ Cardinality(Live(seen')) \in Nat
    BY LiveFinite
  <2>2. CASE seen' = seen
    BY <2>2 DEF Inv, CacheBounded, Live
  <2>3. CASE seen' = kept
    <3>1. Live(kept) \subseteq Live(seen)
      BY <1>4 DEF Live
    <3>2. Cardinality(Live(kept)) <= Cardinality(Live(seen))
      BY <3>1, LiveFinite, FS_Subset
    <3> QED
      BY <2>1, <2>3, <3>2 DEF Inv, CacheBounded
  <2>4. CASE Cardinality(Live(kept)) < maxSeenNonces /\ seen' = [kept EXCEPT ![n] = exp]
    <3>1. Live(seen') \subseteq Live(kept) \union {n}
      BY <1>4, <2>4 DEF Live
    <3>2. Cardinality(Live(seen')) <= Cardinality(Live(kept)) + 1
      BY <1>2, <3>1, LiveAdd
    <3> QED
      BY <2>1, <2>4, <3>2 DEF CacheBounded
  <2> QED
    BY <1>5, <2>2, <2>3, <2>4
<1> QED
  BY <1>7, <1>8, <1>9, <1>10, <1>11, <1>12 DEF Inv

\* Time passes: what was acceptable before is what may be acceptable still.
LEMMA TickInv ==
    ASSUME Inv, Tick
    PROVE  Inv'
<1> USE AuthAssumption DEF Inv, Tick
<1>1. AuthTypeOK' /\ NonceNames' /\ AcceptedSigned'
  BY DEF AuthTypeOK, NonceNames, AcceptedSigned, cacheVars, addrVars
<1>2. HandlersHold'
  BY DEF HandlersHold, Busy, AuthTypeOK, Request
<1>3. KeptWhileAcceptable'
  <2> SUFFICES ASSUME NEW r \in sent, accepted[r.nonce] > 0, agentClock + 1 <= r.ts + MaxClockSkew
               PROVE  seen[r.nonce] = r.ts + MaxClockSkew
    BY DEF KeptWhileAcceptable, cacheVars
  <2>1. agentClock <= r.ts + MaxClockSkew
    BY DEF AuthTypeOK, Request
  <2> QED
    BY <2>1 DEF KeptWhileAcceptable
<1>4. CacheBounded'
  BY DEF CacheBounded, cacheVars, Live
<1> QED
  BY <1>1, <1>2, <1>3, <1>4

\* Every step keeps the invariant.
LEMMA NextInv == Inv /\ [AuthNext]_authVars => Inv'
<1> SUFFICES ASSUME Inv, [AuthNext]_authVars PROVE Inv'
  OBVIOUS
<1>1. CASE \E n \in Nonce, ts \in 0 .. MaxAgentClock, a \in Addr : Authorize(n, ts, a)
  BY <1>1, AuthorizeInv
<1>2. ASSUME NEW h \in Handler, (\E r \in sent : Verify(h, r)) \/ IsLocal(h) \/ Remember(h)
      PROVE  Inv'
  BY <1>2, VerifyInv, IsLocalInv, RememberInv
<1>3. CASE Tick
  BY <1>3, TickInv
<1>4. ASSUME NEW s \in SUBSET Addr, Readdress(s)
      PROVE  Inv'
  BY <1>4 DEF Readdress, Inv, AuthTypeOK, NonceNames, AcceptedSigned, HandlersHold, Busy,
              KeptWhileAcceptable, CacheBounded, Live, cacheVars
<1>5. CASE UNCHANGED authVars
  BY <1>5 DEF authVars, cacheVars, addrVars, Inv, AuthTypeOK, NonceNames, AcceptedSigned, HandlersHold,
              Busy, KeptWhileAcceptable, CacheBounded, Live
<1> QED
  BY <1>1, <1>2, <1>3, <1>4, <1>5 DEF AuthNext

\* The invariant holds in every reachable state.
THEOREM InvHolds == AuthSpec => []Inv
<1> QED
  BY InitInv, NextInv, PTL DEF AuthSpec

\* The verifier's state is well typed.
THEOREM TypeCorrect == AuthSpec => []AuthTypeOK
<1>1. Inv => AuthTypeOK
  BY DEF Inv
<1> QED
  BY <1>1, InvHolds, PTL

\* However slow verifications are, the cache holds an accepted nonce while its
\* timestamp is acceptable (verify.go:25, :183-184).
THEOREM CacheKeeps == AuthSpec => []KeptWhileAcceptable
<1>1. Inv => KeptWhileAcceptable
  BY DEF Inv
<1> QED
  BY <1>1, InvHolds, PTL

\* The cache never holds more than maxSeenNonces (verify.go:26-27).
THEOREM CacheStaysBounded == AuthSpec => []CacheBounded
<1>1. Inv => CacheBounded
  BY DEF Inv
<1> QED
  BY <1>1, InvHolds, PTL

----------------------------------------------------------------------------
(* A request delivered again is refused.                                   *)

\* Only the cache step changes the cache, or ends a verification that has come to it.
LEMMA OnlyRemember ==
    ASSUME Inv, [AuthNext]_authVars
    PROVE  \/ \E h \in Handler : Remember(h)
           \/ /\ seen' = seen /\ accepted' = accepted
              /\ \A h \in Handler : stage[h] = "local" => stage'[h] = "local"
<1>1. stage \in [Handler -> {"idle", "checked", "local"}]
  BY DEF Inv, AuthTypeOK
<1>2. ASSUME NEW g \in Handler, NEW r \in sent, Verify(g, r)
      PROVE  /\ seen' = seen /\ accepted' = accepted
             /\ \A h \in Handler : stage[h] = "local" => stage'[h] = "local"
  BY <1>1, <1>2 DEF Verify, cacheVars
<1>3. ASSUME NEW g \in Handler, IsLocal(g)
      PROVE  /\ seen' = seen /\ accepted' = accepted
             /\ \A h \in Handler : stage[h] = "local" => stage'[h] = "local"
  BY <1>1, <1>3 DEF IsLocal, AfterLocal, cacheVars
<1> QED
  BY <1>2, <1>3 DEF AuthNext, authVars, Authorize, Tick, Readdress, cacheVars

\* The cache holds the nonce of a request that was accepted and is acceptable still, so
\* the step that looks it up accepts nothing; nor does any other step that ends a
\* verification.
LEMMA ReplayStep ==
    ASSUME Inv, [AuthNext]_authVars,
           NEW h \in Handler, stage[h] = "local", stage'[h] = "idle",
           accepted[req[h].nonce] > 0, agentClock <= req[h].ts + MaxClockSkew
    PROVE  accepted' = accepted
<1> DEFINE n == req[h].nonce
<1>1. CASE seen' = seen /\ accepted' = accepted
  BY <1>1
<1>2. ASSUME NEW g \in Handler, Remember(g) PROVE accepted' = accepted
  <2>1. g = h
    BY <1>2 DEF Remember, Inv, AuthTypeOK
  <2>2. req[h] \in sent /\ req[h].ts \in Nat
    BY DEF Inv, HandlersHold, AuthTypeOK, Request, Busy
  <2>3. seen[n] = req[h].ts + MaxClockSkew
    BY <2>2 DEF Inv, KeptWhileAcceptable
  <2>4. seen[n] # Absent
    BY <2>2, <2>3, AuthAssumption DEF Absent
  <2> QED
    BY <1>2, <2>1, <2>4 DEF Remember, cacheVars
<1> QED
  BY <1>1, <1>2, OnlyRemember

\* A request delivered again is refused unless its time ran out while it was verified,
\* however long verifications take and in whatever order they prune and look up
\* (verify.go:62-63, :191-196).
THEOREM NoReplay == AuthSpec => ReplayRefused
<1> DEFINE Refused ==
      \A h \in Handler :
        /\ stage[h] = "local" /\ stage'[h] = "idle" /\ accepted[req[h].nonce] > 0
        /\ agentClock <= req[h].ts + MaxClockSkew
        => accepted' = accepted
<1>1. Inv /\ [AuthNext]_authVars => [Refused]_authVars
  BY ReplayStep
<1> QED
  BY <1>1, InvHolds, PTL DEF AuthSpec, ReplayRefused

----------------------------------------------------------------------------
(* No request is refused without a reason.                                 *)

\* What the cache holds was accepted.
SeenAccepted == \A n \in Nonce : seen[n] # Absent => accepted[n] > 0

\* An entry is added to the cache with the acceptance it records, and no acceptance is
\* ever taken back.
LEMMA SeenAcceptedStep ==
    ASSUME Inv, SeenAccepted, [AuthNext]_authVars
    PROVE  SeenAccepted'
<1>1. CASE seen' = seen /\ accepted' = accepted
  BY <1>1 DEF SeenAccepted
<1>2. ASSUME NEW h \in Handler, Remember(h) PROVE SeenAccepted'
  <2> DEFINE n == req[h].nonce
             kept == Pruned(now[h])
  <2>1. seen \in [Nonce -> Nat \union {Absent}] /\ accepted \in [Nonce -> Nat] /\ now[h] \in Nat
    BY DEF Inv, AuthTypeOK
  <2>2. kept \in [Nonce -> Nat \union {Absent}] /\ \A m \in Nonce : kept[m] \in {seen[m], Absent}
    <3> SUFFICES ASSUME NEW m \in Nonce
                 PROVE  kept \in [Nonce -> Nat \union {Absent}] /\ kept[m] \in {seen[m], Absent}
      BY <2>1 DEF Pruned, Prune, Absent
    <3> QED
      BY <2>1, PrunedKeeps
  <2>3. \/ seen' = seen /\ accepted' = accepted
        \/ seen' = kept /\ accepted' = accepted
        \/ /\ seen' = [kept EXCEPT ![n] = req[h].ts + MaxClockSkew]
           /\ accepted' = [accepted EXCEPT ![n] = @ + 1]
    BY <1>2, RememberCache
  <2> HIDE DEF kept, n
  <2> QED
    BY <2>1, <2>2, <2>3 DEF SeenAccepted
<1> QED
  BY <1>1, <1>2, OnlyRemember

\* A full cache has just been pruned, for maxSeenNonces entries make a prune due: what
\* fills it was acceptable when the handler read the clock.
LEMMA FullOfAcceptable ==
    ASSUME Inv, NEW t \in Nat, Cardinality(Live(Pruned(t))) >= maxSeenNonces
    PROVE  Cardinality({n \in Nonce : seen[n] >= t}) >= maxSeenNonces
<1> DEFINE Fresh == {n \in Nonce : seen[n] >= t}
<1>1. seen \in [Nonce -> Nat \union {Absent}] /\ pruneAt \in seenPruneSize .. maxSeenNonces
  BY DEF Inv, AuthTypeOK
<1>2. Cardinality(Live(seen)) \in Nat /\ Cardinality(Live(Pruned(t))) \in Nat
  BY LiveFinite
<1>3. Cardinality(Live(seen)) >= pruneAt
  BY <1>1, <1>2, AuthAssumption DEF Pruned
<1>4. Pruned(t) = Prune(t)
  BY <1>3 DEF Pruned
<1>5. Live(Pruned(t)) \subseteq Fresh
  BY <1>1, <1>4 DEF Live, Prune, Absent
<1>6. IsFiniteSet(Fresh) /\ Cardinality(Fresh) \in Nat
  BY AuthAssumption, FS_Subset, FS_CardinalityType
<1>7. Cardinality(Live(Pruned(t))) <= Cardinality(Fresh)
  BY <1>5, <1>6, FS_Subset
<1> QED
  BY <1>2, <1>6, <1>7, AuthAssumption

\* A request that passed every other check is refused only if it was accepted before or
\* the cache is full of nonces still acceptable (verify.go:180-199), however many
\* verifications overlap and however long each of them takes.
THEOREM NoUnjustRefusal == AuthSpec => RefusedJustly
<1> DEFINE Just == \A h \in Handler :
                stage[h] = "local" /\ stage'[h] = "idle" /\ accepted' = accepted =>
                    \/ accepted[req[h].nonce] > 0
                    \/ Cardinality({n \in Nonce : seen[n] >= now[h]}) >= maxSeenNonces
<1>1. AuthInit => SeenAccepted
  BY DEF AuthInit, SeenAccepted
<1>2. Inv /\ SeenAccepted /\ [AuthNext]_authVars => SeenAccepted'
  BY SeenAcceptedStep
<1>3. Inv /\ SeenAccepted /\ [AuthNext]_authVars => Just
  <2> SUFFICES ASSUME Inv, SeenAccepted, [AuthNext]_authVars, NEW h \in Handler,
                      stage[h] = "local", stage'[h] = "idle", accepted' = accepted
               PROVE  \/ accepted[req[h].nonce] > 0
                      \/ Cardinality({n \in Nonce : seen[n] >= now[h]}) >= maxSeenNonces
    OBVIOUS
  <2>1. PICK g \in Handler : Remember(g)
    BY OnlyRemember
  <2>2. g = h
    BY <2>1 DEF Remember, Inv, AuthTypeOK
  <2>3. req[h].nonce \in Nonce /\ now[h] \in Nat /\ accepted[req[h].nonce] \in Nat
    BY DEF Inv, AuthTypeOK, Request
  <2>4. CASE seen[req[h].nonce] # Absent
    BY <2>3, <2>4 DEF SeenAccepted
  <2>5. CASE Cardinality(Live(Pruned(now[h]))) >= maxSeenNonces
    BY <2>3, <2>5, FullOfAcceptable
  <2>6. accepted' # [accepted EXCEPT ![req[h].nonce] = @ + 1]
    BY <2>3 DEF Inv, AuthTypeOK
  <2> QED
    BY <2>1, <2>2, <2>4, <2>5, <2>6, RememberCache
<1>4. Inv /\ SeenAccepted /\ [AuthNext]_authVars => [Just]_authVars
  BY <1>3
<1> QED
  BY <1>1, <1>2, <1>4, InvHolds, PTL DEF AuthSpec, RefusedJustly

----------------------------------------------------------------------------
(* Claims.                                                                 *)

\* The claim made of values one by one is the claim of all of them: what is claimed for a
\* key does not depend on the order of the reports, nor on how they are split into answers.
LEMMA ClaimTwice ==
    ASSUME NEW V, NEW W, None \notin V \union W, Conflict \notin V \union W
    PROVE  Claim(Claim(None, V), W) = Claim(None, V \union W)
<1> USE ReportsAssumption
<1>1. CASE V = {}
  <2>1. Claim(None, V) = None
    BY <1>1 DEF Claim
  <2> QED
    BY <1>1, <2>1
<1>2. ASSUME NEW v, V = {v} PROVE Claim(Claim(None, V), W) = Claim(None, V \union W)
  <2>1. v # None /\ ({None} \union V) \ {None} = {v}
    BY <1>2
  <2>2. Claim(None, V) = v
    BY <2>1 DEF Claim
  <2>3. ({v} \union W) \ {None} = ({None} \union (V \union W)) \ {None}
    BY <1>2, <2>1
  <2> QED
    BY <2>2, <2>3 DEF Claim
<1>3. CASE V # {} /\ ~\E v : V = {v}
  <2>1. ({None} \union V) \ {None} = V
    OBVIOUS
  <2>2. Claim(None, V) = Conflict
    BY <1>3, <2>1 DEF Claim
  <2>3. Claim(Conflict, W) = Conflict
    <3> DEFINE all == ({Conflict} \union W) \ {None}
    <3>1. Conflict \in all
      OBVIOUS
    <3>2. \A v \in all : all = {v} => v = Conflict
      BY <3>1
    <3> HIDE DEF all
    <3>3. Claim(Conflict, W) = IF all = {} THEN None
              ELSE IF \E v \in all : all = {v} THEN CHOOSE v \in all : TRUE ELSE Conflict
      BY DEF Claim, all
    <3> QED
      BY <3>1, <3>2, <3>3
  <2>4. Claim(None, V \union W) = Conflict
    <3> DEFINE all == V \union W
    <3>1. ({None} \union all) \ {None} = all
      OBVIOUS
    <3>2. all # {} /\ ~\E v \in all : all = {v}
      BY <1>3
    <3> HIDE DEF all
    <3> QED
      BY <3>1, <3>2 DEF Claim, all
  <2> QED
    BY <2>2, <2>3, <2>4
<1> QED
  BY <1>1, <1>2, <1>3

\* What is claimed of values is what they say, or the mark of a conflict.
LEMMA ClaimIsSaid ==
    ASSUME NEW V, None \notin V
    PROVE  Claim(None, V) \in Said(V)
<1>1. ({None} \union V) \ {None} = V
  OBVIOUS
<1> QED
  BY <1>1 DEF Claim, Said

\* A claim is one of the values, or a mark.
LEMMA ClaimTyped ==
    ASSUME NEW S, NEW c \in S \union {None, Conflict}, NEW W \in SUBSET S
    PROVE  Claim(c, W) \in S \union {None, Conflict}
<1> DEFINE all == ({c} \union W) \ {None}
<1>1. \A v \in all : v \in S \union {None, Conflict}
  OBVIOUS
<1>2. Claim(c, W) = IF all = {} THEN None
          ELSE IF \E v \in all : all = {v} THEN CHOOSE v \in all : TRUE ELSE Conflict
  BY DEF Claim
<1> HIDE DEF all
<1> QED
  BY <1>1, <1>2

\* Two values that were claimed leave the mark of a conflict, or were the same.
LEMMA ClaimOne ==
    ASSUME NEW V, None \notin V, NEW v \in V, NEW w \in V, Claim(None, V) # Conflict
    PROVE  v = w
<1>1. ({None} \union V) \ {None} = V
  OBVIOUS
<1> QED
  BY <1>1 DEF Claim

----------------------------------------------------------------------------
(* The rounds.                                                             *)

\* What the reports of the round say of a key: the nodes of the container, task, standalone
\* container and standalone name, and the tasks.
NodesOfContainer(k) == {n \in Node : \E s \in answers[n] : s.id = k}
NodesOfTask(k) == {n \in Node : \E s \in answers[n] : s.task = k}
NodesOfOwned(k) == {n \in Node : \E s \in answers[n] : s.task = None /\ s.id = k}
NodesOfName(k) == {n \in Node : \E s \in answers[n] : s.task = None /\ s.name = k}
TasksOf(k) ==
    {t \in Task : \E n \in Node : \E s \in answers[n] : s.task = t /\ k \in {s.id, s.name, t}}

\* The round's claims are those of all its reports.
RoundClaims ==
    \A k \in Id :
        /\ round.containers[k] = Claim(None, NodesOfContainer(k))
        /\ round.tasksBy[k] = Claim(None, NodesOfTask(k))
        /\ round.tasks[k] = Claim(None, TasksOf(k))
        /\ round.owners[k] = Claim(None, NodesOfOwned(k))
        /\ round.names[k] = Claim(None, NodesOfName(k))

\* An agent that is still to answer has reported nothing, and there is nothing of a round
\* when none is in progress.
RoundHolds ==
    /\ \A n \in asked : answers[n] = {}
    /\ ~running => asked = {} /\ \A n \in Node : answers[n] = {}

\* A round that has begun has claimed nothing.
LEMMA NothingClaimed ==
    ASSUME round = NoRound, \A n \in Node : answers[n] = {}
    PROVE  RoundClaims
<1> USE ReportsAssumption
<1>1. Claim(None, {}) = None
  BY DEF Claim
<1>2. ASSUME NEW k \in Id
      PROVE  /\ NodesOfContainer(k) = {} /\ NodesOfTask(k) = {} /\ TasksOf(k) = {}
             /\ NodesOfOwned(k) = {} /\ NodesOfName(k) = {}
  BY DEF NodesOfContainer, NodesOfTask, TasksOf, NodesOfOwned, NodesOfName
<1> QED
  BY <1>1, <1>2 DEF RoundClaims, NoRound, NoClaims

\* What was claimed stays the claims of the reports while no report comes.
LEMMA ClaimsRest ==
    ASSUME RoundClaims, answers' = answers, round' = round
    PROVE  RoundClaims'
<1>1. ASSUME NEW k
      PROVE  /\ NodesOfContainer(k)' = NodesOfContainer(k) /\ NodesOfTask(k)' = NodesOfTask(k)
             /\ TasksOf(k)' = TasksOf(k)
             /\ NodesOfOwned(k)' = NodesOfOwned(k) /\ NodesOfName(k)' = NodesOfName(k)
  BY DEF NodesOfContainer, NodesOfTask, TasksOf, NodesOfOwned, NodesOfName
<1> QED
  BY <1>1 DEF RoundClaims

\* A claim of pairs adds the values they have for each key.
LEMMA ClaimAllAdds ==
    ASSUME NEW claims, NEW pairs, NEW k \in Id, NEW V, NEW W,
           None \notin V \union W, Conflict \notin V \union W,
           claims[k] = Claim(None, V),
           \A v : v \in W <=> \E p \in pairs : p[1] = k /\ p[2] = v
    PROVE  ClaimAll(claims, pairs)[k] = Claim(None, V \union W)
<1>1. {p[2] : p \in {p \in pairs : p[1] = k}} = W
  OBVIOUS
<1> QED
  BY <1>1, ClaimTwice DEF ClaimAll

\* An agent's report adds what it says to what was said, whenever it comes.
LEMMA AnswerClaims ==
    ASSUME RoundClaims, ReportsTypeOK, NEW n \in Node, answers[n] = {}, NEW report \in SUBSET Sample,
           answers' = [answers EXCEPT ![n] = report], round' = ClaimReport(n, report)
    PROVE  RoundClaims'
<1> USE ReportsAssumption, IdAssumption
<1> DEFINE tasked == {s \in report : s.task # None}
           others == report \ tasked
<1>1. answers \in [Node -> SUBSET Sample] /\ None \notin Id
  BY DEF ReportsTypeOK, Id, ContainerID
<1>2. /\ answers'[n] = report
      /\ \A m \in Node \ {n} : answers'[m] = answers[m]
  BY <1>1
<1> SUFFICES ASSUME NEW k \in Id
             PROVE  /\ round'.containers[k] = Claim(None, NodesOfContainer(k)')
                    /\ round'.tasksBy[k] = Claim(None, NodesOfTask(k)')
                    /\ round'.tasks[k] = Claim(None, TasksOf(k)')
                    /\ round'.owners[k] = Claim(None, NodesOfOwned(k)')
                    /\ round'.names[k] = Claim(None, NodesOfName(k)')
  BY DEF RoundClaims
<1>3. round'.containers[k] = Claim(None, NodesOfContainer(k)')
  <2> DEFINE W == {m \in {n} : \E s \in report : s.id = k}
             pairs == {<<s.id, n>> : s \in report}
  <2>1. round'.containers = ClaimAll(round.containers, pairs)
    BY DEF ClaimReport
  <2>2. NodesOfContainer(k)' = NodesOfContainer(k) \union W
    BY <1>2 DEF NodesOfContainer
  <2>3. \A v : v \in W <=> \E p \in pairs : p[1] = k /\ p[2] = v
    <3>1. ASSUME NEW v \in W PROVE \E p \in pairs : p[1] = k /\ p[2] = v
      <4>1. v = n /\ \E s \in report : s.id = k
        BY <1>1
      <4>2. <<k, n>> \in pairs
        BY <4>1
      <4> QED
        BY <4>1, <4>2
    <3>2. ASSUME NEW p \in pairs, p[1] = k PROVE p[2] \in W
      <4>1. PICK s \in report : p = <<s.id, n>>
        OBVIOUS
      <4> QED
        BY <3>2, <4>1
    <3> HIDE DEF W, pairs
    <3> QED
      BY <3>1, <3>2
  <2>4. W \subseteq Node /\ NodesOfContainer(k) \subseteq Node
    BY DEF NodesOfContainer
  <2>5. round.containers[k] = Claim(None, NodesOfContainer(k))
    BY DEF RoundClaims
  <2> HIDE DEF W, pairs
  <2> QED
    BY <2>1, <2>2, <2>3, <2>4, <2>5, ClaimAllAdds
<1>4. round'.tasksBy[k] = Claim(None, NodesOfTask(k)')
  <2> DEFINE W == {m \in {n} : \E s \in report : s.task = k}
             pairs == {<<s.task, n>> : s \in tasked}
  <2>1. round'.tasksBy = ClaimAll(round.tasksBy, pairs)
    BY DEF ClaimReport
  <2>2. NodesOfTask(k)' = NodesOfTask(k) \union W
    BY <1>2 DEF NodesOfTask
  <2>3. \A v : v \in W <=> \E p \in pairs : p[1] = k /\ p[2] = v
    <3>1. ASSUME NEW v \in W PROVE \E p \in pairs : p[1] = k /\ p[2] = v
      <4>1. v = n /\ \E s \in tasked : s.task = k
        BY <1>1
      <4>2. <<k, n>> \in pairs
        BY <4>1
      <4> QED
        BY <4>1, <4>2
    <3>2. ASSUME NEW p \in pairs, p[1] = k PROVE p[2] \in W
      <4>1. PICK s \in tasked : p = <<s.task, n>>
        OBVIOUS
      <4> QED
        BY <3>2, <4>1
    <3> HIDE DEF W, pairs
    <3> QED
      BY <3>1, <3>2
  <2>4. W \subseteq Node /\ NodesOfTask(k) \subseteq Node
    BY DEF NodesOfTask
  <2>5. round.tasksBy[k] = Claim(None, NodesOfTask(k))
    BY DEF RoundClaims
  <2> HIDE DEF W, pairs
  <2> QED
    BY <2>1, <2>2, <2>3, <2>4, <2>5, ClaimAllAdds
<1>5. round'.tasks[k] = Claim(None, TasksOf(k)')
  <2> DEFINE W == {t \in Task : \E s \in report : s.task = t /\ k \in {s.id, s.name, t}}
             pairs == UNION {{s.id, s.name, s.task} \X {s.task} : s \in tasked}
  <2>1. round'.tasks = ClaimAll(round.tasks, pairs)
    BY DEF ClaimReport
  <2>2. TasksOf(k)' = TasksOf(k) \union W
    BY <1>2 DEF TasksOf
  <2>3. \A s \in tasked : s.task \in Task
    BY DEF Sample
  <2>4. \A v : v \in W <=> \E p \in pairs : p[1] = k /\ p[2] = v
    <3>1. ASSUME NEW v \in W PROVE \E p \in pairs : p[1] = k /\ p[2] = v
      <4>1. PICK s \in report : s.task = v /\ k \in {s.id, s.name, v} /\ v \in Task
        OBVIOUS
      <4>2. s \in tasked
        BY <4>1
      <4>3. <<k, v>> \in {s.id, s.name, s.task} \X {s.task}
        BY <4>1
      <4>4. <<k, v>> \in pairs
        BY <4>2, <4>3
      <4> QED
        BY <4>4
    <3>2. ASSUME NEW p \in pairs, p[1] = k PROVE p[2] \in W
      <4>1. PICK s \in tasked : p \in {s.id, s.name, s.task} \X {s.task}
        OBVIOUS
      <4>2. p[1] \in {s.id, s.name, s.task} /\ p[2] = s.task
        BY <4>1
      <4> QED
        BY <2>3, <3>2, <4>1, <4>2
    <3> HIDE DEF W, pairs
    <3> QED
      BY <3>1, <3>2
  <2>5. W \subseteq Task /\ TasksOf(k) \subseteq Task
    BY DEF TasksOf
  <2>6. round.tasks[k] = Claim(None, TasksOf(k))
    BY DEF RoundClaims
  <2> HIDE DEF W, pairs
  <2> QED
    BY <2>1, <2>2, <2>4, <2>5, <2>6, ClaimAllAdds
<1>6. round'.owners[k] = Claim(None, NodesOfOwned(k)')
  <2> DEFINE W == {m \in {n} : \E s \in report : s.task = None /\ s.id = k}
             pairs == {<<s.id, n>> : s \in others}
  <2>1. round'.owners = ClaimAll(round.owners, pairs)
    BY DEF ClaimReport
  <2>2. NodesOfOwned(k)' = NodesOfOwned(k) \union W
    BY <1>2 DEF NodesOfOwned
  <2>3. \A v : v \in W <=> \E p \in pairs : p[1] = k /\ p[2] = v
    <3>1. ASSUME NEW v \in W PROVE \E p \in pairs : p[1] = k /\ p[2] = v
      <4>1. v = n /\ \E s \in others : s.id = k
        BY <1>1
      <4>2. <<k, n>> \in pairs
        BY <4>1
      <4> QED
        BY <4>1, <4>2
    <3>2. ASSUME NEW p \in pairs, p[1] = k PROVE p[2] \in W
      <4>1. PICK s \in others : p = <<s.id, n>>
        OBVIOUS
      <4> QED
        BY <3>2, <4>1
    <3> HIDE DEF W, pairs
    <3> QED
      BY <3>1, <3>2
  <2>4. W \subseteq Node /\ NodesOfOwned(k) \subseteq Node
    BY DEF NodesOfOwned
  <2>5. round.owners[k] = Claim(None, NodesOfOwned(k))
    BY DEF RoundClaims
  <2> HIDE DEF W, pairs
  <2> QED
    BY <2>1, <2>2, <2>3, <2>4, <2>5, ClaimAllAdds
<1>7. round'.names[k] = Claim(None, NodesOfName(k)')
  <2> DEFINE W == {m \in {n} : \E s \in report : s.task = None /\ s.name = k}
             pairs == {<<s.name, n>> : s \in others}
  <2>1. round'.names = ClaimAll(round.names, pairs)
    BY DEF ClaimReport
  <2>2. NodesOfName(k)' = NodesOfName(k) \union W
    BY <1>2 DEF NodesOfName
  <2>3. \A v : v \in W <=> \E p \in pairs : p[1] = k /\ p[2] = v
    <3>1. ASSUME NEW v \in W PROVE \E p \in pairs : p[1] = k /\ p[2] = v
      <4>1. v = n /\ \E s \in others : s.name = k
        BY <1>1
      <4>2. <<k, n>> \in pairs
        BY <4>1
      <4> QED
        BY <4>1, <4>2
    <3>2. ASSUME NEW p \in pairs, p[1] = k PROVE p[2] \in W
      <4>1. PICK s \in others : p = <<s.name, n>>
        OBVIOUS
      <4> QED
        BY <3>2, <4>1
    <3> HIDE DEF W, pairs
    <3> QED
      BY <3>1, <3>2
  <2>4. W \subseteq Node /\ NodesOfName(k) \subseteq Node
    BY DEF NodesOfName
  <2>5. round.names[k] = Claim(None, NodesOfName(k))
    BY DEF RoundClaims
  <2> HIDE DEF W, pairs
  <2> QED
    BY <2>1, <2>2, <2>3, <2>4, <2>5, ClaimAllAdds
<1> QED
  BY <1>3, <1>4, <1>5, <1>6, <1>7

----------------------------------------------------------------------------
(* The lookups.                                                            *)

\* A placement is cached of tasks of the last round, and is the swarm's.
PlacementsHold ==
    /\ \A t \in Task : placements[t] \in {TaskNode[t], None}
    /\ PlacementsSampled

\* What a lookup has read: its task is that of its ID, what it listed is where the swarm
\* placed each task, and has the task of its ID if the swarm still lists it.
LookupHolds(l) ==
    LET t == TaskIDOfName(l.id)
    IN  /\ l.pc # "idle" => l.id \in Id
        /\ l.pc \in {"placement", "list", "store"} => l.task \in Task /\ l.task = t
        /\ \A e \in l.answer : e.node = TaskNode[e.task]
        /\ l.pc \in {"store", "claims"} /\ t \in listed => \E e \in l.answer : e.task = t
        /\ l.pc = "done" /\ t \in listed => l.node \in {TaskNode[t], None}

LookupsHold == \A h \in Reader : LookupHolds(lookup[h])

ReportsInv ==
    /\ ReportsTypeOK
    /\ RoundHolds /\ RoundClaims
    /\ PlacementsHold
    /\ LookupsHold

\* What may be a container ID is no task's ID or name.
LEMMA TaskIDs ==
    ASSUME NEW id \in Id, TaskIDOfName(id) \in Task
    PROVE  id \notin ContainerID
BY IdAssumption DEF TaskIDOfName, TaskName

\* A lookup's state is set to one that is right.
LEMMA LookupSet ==
    ASSUME lookup \in [Reader -> Lookup], LookupsHold, listed' = listed,
           NEW h \in Reader, NEW l \in Lookup, LookupHolds(l), lookup' = [lookup EXCEPT ![h] = l]
    PROVE  lookup' \in [Reader -> Lookup] /\ LookupsHold'
<1>1. lookup' \in [Reader -> Lookup]
  OBVIOUS
<1>2. ASSUME NEW g \in Reader PROVE LookupHolds(lookup[g])'
  <2>1. lookup'[g] = IF g = h THEN l ELSE lookup[g]
    OBVIOUS
  <2>2. LookupHolds(lookup'[g])
    BY <2>1 DEF LookupsHold
  <2> QED
    BY <2>2 DEF LookupHolds
<1> QED
  BY <1>1, <1>2 DEF LookupsHold

\* A lookup answers with the node of its task, or with none.
LEMMA Returned ==
    ASSUME lookup \in [Reader -> Lookup], LookupsHold, listed' = listed,
           NEW h \in Reader, lookup[h].pc # "idle", NEW n \in Node \union {None}, Return(h, n),
           LET t == TaskIDOfName(lookup[h].id) IN t \in listed => n \in {TaskNode[t], None}
    PROVE  lookup' \in [Reader -> Lookup] /\ LookupsHold'
<1> DEFINE l == LookupAt("done", lookup[h].id, None, n)
<1>1. lookup' = [lookup EXCEPT ![h] = l]
  BY DEF Return
<1>2. lookup[h].id \in Id
  BY DEF LookupsHold, LookupHolds
<1>3. l \in Lookup
  BY <1>2 DEF Lookup, LookupAt
<1>4. LookupHolds(l)
  BY <1>2 DEF LookupHolds, LookupAt
<1> HIDE DEF l
<1> QED
  BY <1>1, <1>3, <1>4, LookupSet

\* A lookup goes on.
LEMMA GoneTo ==
    ASSUME lookup \in [Reader -> Lookup], LookupsHold, listed' = listed,
           NEW h \in Reader, lookup[h].pc # "idle", NEW pc \in {"list", "owner"}, Goto(h, pc),
           pc = "list" => lookup[h].pc = "placement"
    PROVE  lookup' \in [Reader -> Lookup] /\ LookupsHold'
<1> DEFINE l == [lookup[h] EXCEPT !.pc = pc]
<1>1. lookup' = [lookup EXCEPT ![h] = l]
  BY DEF Goto
<1>2. lookup[h] \in Lookup /\ LookupHolds(lookup[h])
  BY DEF LookupsHold
<1>3. l \in Lookup
  BY <1>2 DEF Lookup
<1>4. /\ l.pc = pc /\ l.id = lookup[h].id /\ l.task = lookup[h].task /\ l.answer = lookup[h].answer
  BY <1>2 DEF Lookup
<1> HIDE DEF l
<1>5. LookupHolds(l)
  BY <1>2, <1>4 DEF LookupHolds
<1> QED
  BY <1>1, <1>3, <1>5, LookupSet

\* Lookups that rest are right of a list that has shrunk, too.
LEMMA LookupsRest ==
    ASSUME LookupsHold, lookup' = lookup, listed' \subseteq listed
    PROVE  LookupsHold'
BY DEF LookupsHold, LookupHolds

\* The claims of a report keep their types.
LEMMA ClaimReportTyped ==
    ASSUME ReportsTypeOK, NEW n \in Node, NEW report \in SUBSET Sample
    PROVE  ClaimReport(n, report) \in
               [owners : Claims(Node), names : Claims(Node), tasks : Claims(Task),
                containers : Claims(Node), tasksBy : Claims(Node)]
<1>1. ASSUME NEW S, NEW claims \in Claims(S), NEW pairs, \A p \in pairs : p[2] \in S
      PROVE  ClaimAll(claims, pairs) \in Claims(S)
  <2>1. ASSUME NEW k \in Id
        PROVE  Claim(claims[k], {p[2] : p \in {p \in pairs : p[1] = k}}) \in S \union {None, Conflict}
    <3>1. {p[2] : p \in {p \in pairs : p[1] = k}} \in SUBSET S
      BY <1>1
    <3>2. claims[k] \in S \union {None, Conflict}
      BY <1>1 DEF Claims
    <3> QED
      BY <3>1, <3>2, ClaimTyped
  <2> QED
    BY <2>1 DEF ClaimAll, Claims
<1> DEFINE tasked == {s \in report : s.task # None}
           others == report \ tasked
           c == ClaimAll(round.containers, {<<s.id, n>> : s \in report})
           b == ClaimAll(round.tasksBy, {<<s.task, n>> : s \in tasked})
           t == ClaimAll(round.tasks, UNION {{s.id, s.name, s.task} \X {s.task} : s \in tasked})
           o == ClaimAll(round.owners, {<<s.id, n>> : s \in others})
           m == ClaimAll(round.names, {<<s.name, n>> : s \in others})
<1>2. /\ round.containers \in Claims(Node) /\ round.tasksBy \in Claims(Node)
      /\ round.tasks \in Claims(Task)
      /\ round.owners \in Claims(Node) /\ round.names \in Claims(Node)
  BY DEF ReportsTypeOK
<1>3. c \in Claims(Node)
  BY <1>1, <1>2
<1>4. b \in Claims(Node)
  BY <1>1, <1>2
<1>5. t \in Claims(Task)
  <2> DEFINE pairs == UNION {{s.id, s.name, s.task} \X {s.task} : s \in tasked}
  <2>1. ASSUME NEW p \in pairs PROVE p[2] \in Task
    <3>1. PICK s \in tasked : p \in {s.id, s.name, s.task} \X {s.task}
      OBVIOUS
    <3> QED
      BY <3>1 DEF Sample
  <2> HIDE DEF pairs
  <2>2. ClaimAll(round.tasks, pairs) \in Claims(Task)
    BY <1>1, <1>2, <2>1
  <2> QED
    BY <2>2 DEF pairs
<1>6. o \in Claims(Node)
  BY <1>1, <1>2
<1>7. m \in Claims(Node)
  BY <1>1, <1>2
<1>8. ClaimReport(n, report) = [containers |-> c, tasksBy |-> b, tasks |-> t, owners |-> o, names |-> m]
  BY DEF ClaimReport
<1> HIDE DEF c, b, t, o, m
<1> QED
  BY <1>3, <1>4, <1>5, <1>6, <1>7, <1>8

----------------------------------------------------------------------------
(* The invariant.                                                          *)

\* Nothing was sampled, cached or looked up.
LEMMA ReportsStart == ReportsInit => ReportsInv
<1> SUFFICES ASSUME ReportsInit PROVE ReportsInv
  OBVIOUS
<1> USE ReportsAssumption DEF ReportsInit
<1>1. NoClaims \in Claims(Node) /\ NoClaims \in Claims(Task)
  BY DEF NoClaims, Claims
<1>2. Idle \in Lookup /\ LookupHolds(Idle)
  BY DEF Idle, LookupAt, Lookup, LookupHolds
<1>3. ReportsTypeOK
  <2>1. round \in [owners : Claims(Node), names : Claims(Node), tasks : Claims(Task),
                   containers : Claims(Node), tasksBy : Claims(Node)]
    BY <1>1 DEF NoRound
  <2>2. lookup \in [Reader -> Lookup]
    BY <1>2
  <2>3. rounds \in 0 .. MaxRounds /\ standalone \in [Container -> Node \union {None}]
    OBVIOUS
  <2> QED
    BY <1>1, <2>1, <2>2, <2>3 DEF ReportsTypeOK
<1>4. RoundHolds
  BY DEF RoundHolds
<1>5. RoundClaims
  BY NothingClaimed
<1>6. PlacementsHold /\ LookupsHold
  BY <1>2 DEF PlacementsHold, PlacementsSampled, LookupsHold
<1> QED
  BY <1>3, <1>4, <1>5, <1>6 DEF ReportsInv

\* A round begins with no claim.
LEMMA BeginRoundKeeps == ReportsInv /\ BeginRound => ReportsInv'
<1> SUFFICES ASSUME ReportsInv, BeginRound PROVE ReportsInv'
  OBVIOUS
<1> USE DEF ReportsInv, BeginRound, swarmVars, poolVars
<1>1. ReportsTypeOK'
  <2>1. rounds' \in 0 .. MaxRounds
    BY ReportsAssumption DEF ReportsTypeOK
  <2> QED
    BY <2>1 DEF ReportsTypeOK
<1>2. RoundHolds'
  BY DEF RoundHolds
<1>3. RoundClaims'
  BY ClaimsRest
<1>4. PlacementsHold' /\ LookupsHold'
  BY LookupsRest DEF PlacementsHold, PlacementsSampled
<1> QED
  BY <1>1, <1>2, <1>3, <1>4

\* A report is claimed once: the agent is no longer asked.
LEMMA AgentAnswersKeeps ==
    ASSUME ReportsInv, NEW n \in Node, AgentAnswers(n)
    PROVE  ReportsInv'
<1>1. /\ n \in asked /\ asked' = asked \ {n}
      /\ UNCHANGED <<listed, status, standalone, rounds, running, owners, names, tasks, placements, lookup>>
  BY DEF AgentAnswers, swarmVars, poolVars
<1>2. PICK report \in Reports(n) \union {{}} :
        answers' = [answers EXCEPT ![n] = report] /\ round' = ClaimReport(n, report)
  BY DEF AgentAnswers
<1>3. report \in SUBSET Sample
  <2>1. Running(n) \subseteq Sample
    BY DEF Running, Sample, SampleName, TaskName, ReportsInv, ReportsTypeOK
  <2> QED
    BY <2>1, FaultyAssumption DEF Reports
<1>4. round' \in [owners : Claims(Node), names : Claims(Node), tasks : Claims(Task),
                  containers : Claims(Node), tasksBy : Claims(Node)]
  BY <1>2, <1>3, ClaimReportTyped DEF ReportsInv
<1>5. ReportsTypeOK'
  <2>1. answers' \in [Node -> SUBSET Sample] /\ asked' \subseteq Node
    BY <1>1, <1>2, <1>3 DEF ReportsInv, ReportsTypeOK
  <2> QED
    BY <1>1, <1>4, <2>1 DEF ReportsInv, ReportsTypeOK
<1>6. RoundHolds'
  BY <1>1, <1>2, <1>3 DEF ReportsInv, RoundHolds, ReportsTypeOK
<1>7. RoundClaims'
  <2>1. answers[n] = {}
    BY <1>1 DEF ReportsInv, RoundHolds
  <2> QED
    BY <1>2, <1>3, <2>1, AnswerClaims DEF ReportsInv
<1>8. PlacementsHold' /\ LookupsHold'
  BY <1>1, LookupsRest DEF ReportsInv, PlacementsHold, PlacementsSampled
<1> QED
  BY <1>5, <1>6, <1>7, <1>8 DEF ReportsInv

\* The claims published are typed, and what is cached of a task they lack goes with them.
LEMMA Published ==
    ASSUME ReportsInv, Publish(round) \/ Publish(NoRound)
    PROVE  /\ owners' \in Claims(Node) /\ names' \in Claims(Node) /\ tasks' \in Claims(Task)
           /\ placements' \in [Task -> Node \union {None}]
           /\ PlacementsHold'
<1> USE ReportsAssumption
<1>1. NoClaims \in Claims(Node) /\ NoClaims \in Claims(Task)
  BY DEF NoClaims, Claims
<1>2. ASSUME NEW r \in {round, NoRound}, Publish(r)
      PROVE  /\ owners' \in Claims(Node) /\ names' \in Claims(Node) /\ tasks' \in Claims(Task)
             /\ placements' = [t \in Task |-> IF tasks'[t] = None THEN None ELSE placements[t]]
  BY <1>1, <1>2 DEF Publish, NoRound, ReportsInv, ReportsTypeOK
<1>3. /\ owners' \in Claims(Node) /\ names' \in Claims(Node) /\ tasks' \in Claims(Task)
      /\ placements' = [t \in Task |-> IF tasks'[t] = None THEN None ELSE placements[t]]
  BY <1>2
<1>4. placements \in [Task -> Node \union {None}] /\ \A t \in Task : placements[t] \in {TaskNode[t], None}
  BY DEF ReportsInv, ReportsTypeOK, PlacementsHold
<1> QED
  BY <1>3, <1>4 DEF PlacementsHold, PlacementsSampled

\* A round ends, or had no agent to ask: its claims become the pool's.
LEMMA EndRoundKeeps == ReportsInv /\ (EndRound \/ EmptyRound) => ReportsInv'
<1> SUFFICES ASSUME ReportsInv, EndRound \/ EmptyRound PROVE ReportsInv'
  OBVIOUS
<1> USE ReportsAssumption
<1>1. /\ owners' \in Claims(Node) /\ names' \in Claims(Node) /\ tasks' \in Claims(Task)
      /\ placements' \in [Task -> Node \union {None}]
      /\ PlacementsHold'
  BY Published DEF EndRound, EmptyRound
<1>2. UNCHANGED <<listed, status, standalone, asked, lookup>> /\ rounds' \in 0 .. MaxRounds
  BY DEF EndRound, EmptyRound, swarmVars, ReportsInv, ReportsTypeOK
<1>3. /\ answers' \in [Node -> SUBSET Sample]
      /\ round' \in [owners : Claims(Node), names : Claims(Node), tasks : Claims(Task),
                     containers : Claims(Node), tasksBy : Claims(Node)]
      /\ running' \in BOOLEAN
  <2>1. NoClaims \in Claims(Node) /\ NoClaims \in Claims(Task)
    BY DEF NoClaims, Claims
  <2>2. NoRound \in [owners : Claims(Node), names : Claims(Node), tasks : Claims(Task),
                     containers : Claims(Node), tasksBy : Claims(Node)]
    BY <2>1 DEF NoRound
  <2>3. CASE EndRound
    BY <2>2, <2>3 DEF EndRound
  <2>4. CASE EmptyRound
    BY <2>4 DEF EmptyRound, ReportsInv, ReportsTypeOK
  <2> QED
    BY <2>3, <2>4
<1>4. ReportsTypeOK'
  BY <1>1, <1>2, <1>3 DEF ReportsInv, ReportsTypeOK
<1>5. RoundHolds'
  BY DEF EndRound, EmptyRound, ReportsInv, RoundHolds
<1>6. RoundClaims'
  <2>1. CASE EndRound
    <3>1. round' = NoRound /\ \A n \in Node : answers'[n] = {}
      BY <2>1 DEF EndRound
    <3>2. Claim(None, {}) = None
      BY DEF Claim
    <3>3. ASSUME NEW k \in Id
          PROVE  /\ NodesOfContainer(k)' = {} /\ NodesOfTask(k)' = {} /\ TasksOf(k)' = {}
                 /\ NodesOfOwned(k)' = {} /\ NodesOfName(k)' = {}
      BY <3>1 DEF NodesOfContainer, NodesOfTask, TasksOf, NodesOfOwned, NodesOfName
    <3> QED
      BY <3>1, <3>2, <3>3 DEF RoundClaims, NoRound, NoClaims
  <2>2. CASE EmptyRound
    BY <2>2, ClaimsRest DEF EmptyRound, ReportsInv
  <2> QED
    BY <2>1, <2>2
<1>7. LookupsHold'
  BY <1>2, LookupsRest DEF ReportsInv
<1> QED
  BY <1>1, <1>4, <1>5, <1>6, <1>7 DEF ReportsInv

\* A lookup goes by its task if it was sampled with the task its ID names.
LEMMA BeginLookupKeeps ==
    ASSUME ReportsInv, NEW h \in Reader, NEW id \in Id, BeginLookup(h, id)
    PROVE  lookup' \in [Reader -> Lookup] /\ LookupsHold'
<1> USE ReportsAssumption
<1> DEFINE l == LookupAt(IF SampledTask(id) # None THEN "placement" ELSE "owner", id,
                         SampledTask(id), None)
<1>1. SampledTask(id) # None => SampledTask(id) \in Task /\ SampledTask(id) = TaskIDOfName(id)
  BY DEF SampledTask
<1>2. l \in Lookup
  BY <1>1 DEF LookupAt, Lookup
<1>3. LookupHolds(l)
  BY <1>1 DEF LookupAt, LookupHolds
<1>4. lookup' = [lookup EXCEPT ![h] = l] /\ listed' = listed
  BY DEF BeginLookup, swarmVars
<1> HIDE DEF l
<1> QED
  BY <1>2, <1>3, <1>4, LookupSet DEF ReportsInv, ReportsTypeOK

\* A cached placement is the swarm's.
LEMMA ReadPlacementKeeps ==
    ASSUME ReportsInv, NEW h \in Reader, ReadPlacement(h)
    PROVE  lookup' \in [Reader -> Lookup] /\ LookupsHold'
<1>1. /\ lookup \in [Reader -> Lookup] /\ LookupsHold /\ listed' = listed
      /\ lookup[h].pc = "placement"
  BY DEF ReadPlacement, swarmVars, ReportsInv, ReportsTypeOK
<1>2. lookup[h].task \in Task /\ lookup[h].task = TaskIDOfName(lookup[h].id)
  BY <1>1 DEF LookupsHold, LookupHolds
<1>3. placements[lookup[h].task] \in {TaskNode[lookup[h].task], None}
  BY <1>2 DEF ReportsInv, PlacementsHold
<1>4. CASE placements[lookup[h].task] # None
  <2>1. Return(h, TaskNode[lookup[h].task]) /\ TaskNode[lookup[h].task] \in Node
    BY <1>2, <1>3, <1>4, ReportsAssumption DEF ReadPlacement
  <2> QED
    BY <1>1, <1>2, <2>1, Returned
<1>5. CASE placements[lookup[h].task] = None
  <2>1. Goto(h, "list")
    BY <1>5 DEF ReadPlacement
  <2> QED
    BY <1>1, <2>1, GoneTo
<1> QED
  BY <1>4, <1>5

\* What is listed is where the swarm placed the tasks.
LEMMA ListTasksKeeps ==
    ASSUME ReportsInv, NEW h \in Reader, ListTasks(h)
    PROVE  lookup' \in [Reader -> Lookup] /\ LookupsHold'
<1>1. /\ lookup \in [Reader -> Lookup] /\ LookupsHold /\ listed' = listed
      /\ lookup[h].pc \in {"list", "owner"}
  BY DEF ListTasks, swarmVars, ReportsInv, ReportsTypeOK
<1>2. CASE Return(h, None)
  BY <1>1, <1>2, Returned
<1>3. ASSUME lookup' = [lookup EXCEPT ![h].answer = TaskList,
                                      ![h].pc = IF @ = "list" THEN "store" ELSE "claims"]
      PROVE  lookup' \in [Reader -> Lookup] /\ LookupsHold'
  <2> DEFINE pc == IF lookup[h].pc = "list" THEN "store" ELSE "claims"
             l == [lookup[h] EXCEPT !.answer = TaskList, !.pc = pc]
  <2>1. lookup[h] \in Lookup /\ LookupHolds(lookup[h])
    BY <1>1 DEF LookupsHold
  <2>2. /\ TaskList \subseteq Listing /\ \A e \in TaskList : e.node = TaskNode[e.task]
        /\ \A t \in listed : \E e \in TaskList : e.task = t
    <3>1. listed \subseteq Task /\ status \in [Task -> Container \union {None}]
      BY DEF ReportsInv, ReportsTypeOK
    <3>2. ASSUME NEW t \in listed
          PROVE  [task |-> t, node |-> TaskNode[t], container |-> status[t]] \in Listing
      BY <3>1, ReportsAssumption DEF Listing
    <3>3. TaskList \subseteq Listing
      BY <3>2 DEF TaskList
    <3>4. ASSUME NEW e \in TaskList PROVE e.node = TaskNode[e.task]
      <4>1. PICK t \in listed : e = [task |-> t, node |-> TaskNode[t], container |-> status[t]]
        BY DEF TaskList
      <4> QED
        BY <4>1
    <3>5. ASSUME NEW t \in listed PROVE \E e \in TaskList : e.task = t
      <4>1. [task |-> t, node |-> TaskNode[t], container |-> status[t]] \in TaskList
        BY DEF TaskList
      <4> QED
        BY <4>1
    <3> QED
      BY <3>3, <3>4, <3>5
  <2>3. lookup' = [lookup EXCEPT ![h] = l]
    BY <1>1, <1>3
  <2>4. l \in Lookup
    BY <2>1, <2>2 DEF Lookup
  <2>5. /\ l.pc = pc /\ l.id = lookup[h].id /\ l.task = lookup[h].task /\ l.answer = TaskList
    BY <2>1 DEF Lookup
  <2> HIDE DEF l
  <2>6. LookupHolds(l)
    BY <1>1, <2>1, <2>2, <2>5 DEF LookupHolds
  <2> QED
    BY <1>1, <2>3, <2>4, <2>6, LookupSet
<1> QED
  BY <1>2, <1>3 DEF ListTasks

\* The placement listed is the swarm's, and is cached only while the task is sampled.
LEMMA StorePlacementKeeps ==
    ASSUME ReportsInv, NEW h \in Reader, StorePlacement(h)
    PROVE  /\ lookup' \in [Reader -> Lookup] /\ LookupsHold'
           /\ placements' \in [Task -> Node \union {None}] /\ PlacementsHold'
<1> USE ReportsAssumption
<1> DEFINE entry == {e \in lookup[h].answer : e.task = lookup[h].task}
<1>1. /\ lookup \in [Reader -> Lookup] /\ LookupsHold /\ listed' = listed /\ tasks' = tasks
      /\ lookup[h].pc = "store"
  BY DEF StorePlacement, swarmVars, ReportsInv, ReportsTypeOK
<1>2. /\ lookup[h].task \in Task /\ lookup[h].task = TaskIDOfName(lookup[h].id)
      /\ \A e \in lookup[h].answer : e.node = TaskNode[e.task]
  BY <1>1 DEF LookupsHold, LookupHolds
<1>3. lookup' \in [Reader -> Lookup] /\ LookupsHold'
  <2>1. CASE Goto(h, "owner")
    BY <1>1, <2>1, GoneTo
  <2>2. ASSUME NEW e \in entry, Return(h, e.node)
        PROVE  lookup' \in [Reader -> Lookup] /\ LookupsHold'
    <3>1. e.node = TaskNode[lookup[h].task] /\ e.node \in Node
      BY <1>2
    <3> QED
      BY <1>1, <1>2, <2>2, <3>1, Returned
  <2> QED
    BY <2>1, <2>2 DEF StorePlacement
<1>4. placements' = [t \in Task |->
          IF tasks[t] # None /\ \E e \in entry : e.task = t /\ e.container # None
          THEN TaskNode[t] ELSE placements[t]]
  BY DEF StorePlacement
<1>5. placements \in [Task -> Node \union {None}] /\ PlacementsHold
  BY DEF ReportsInv, ReportsTypeOK
<1> HIDE DEF entry
<1>6. placements' \in [Task -> Node \union {None}]
  BY <1>4, <1>5
<1>7. PlacementsHold'
  BY <1>1, <1>4, <1>5 DEF PlacementsHold, PlacementsSampled
<1> QED
  BY <1>3, <1>6, <1>7

\* The node of a listed task is the only one the list names for the task's ID or name, and
\* no report contradicts it.
LEMMA ReadClaimsKeeps ==
    ASSUME ReportsInv, NEW h \in Reader, ReadClaims(h)
    PROVE  lookup' \in [Reader -> Lookup] /\ LookupsHold'
<1> USE ReportsAssumption
<1> DEFINE id == lookup[h].id
           t == TaskIDOfName(id)
           answer == lookup[h].answer
           owner == OwnerFromTasks(answer, id)
           n == IF owner = None THEN StandaloneClaim(id)
                ELSE IF Contradicted(id, owner) THEN None ELSE owner
<1>1. /\ lookup \in [Reader -> Lookup] /\ LookupsHold /\ listed' = listed
      /\ lookup[h].pc = "claims" /\ Return(h, n) /\ listed \subseteq Task
  BY DEF ReadClaims, swarmVars, ReportsInv, ReportsTypeOK
<1>2. /\ id \in Id /\ \A e \in answer : e.node = TaskNode[e.task]
      /\ t \in listed => \E e \in answer : e.task = t
      /\ answer \subseteq Listing
  BY <1>1 DEF LookupsHold, LookupHolds, Lookup
<1>3. ASSUME NEW s \in SUBSET Node PROVE TheOnly(s) \in Node \union {None}
  BY DEF TheOnly
<1>4. owner \in Node \union {None}
  <2>1. ListedNodes(answer, id) \subseteq Node
    BY <1>2 DEF ListedNodes, Listing
  <2> QED
    BY <1>3, <2>1 DEF OwnerFromTasks
<1>5. StandaloneClaim(id) \in Node \union {None}
  BY <1>3 DEF StandaloneClaim
<1>6. n \in Node \union {None}
  BY <1>4, <1>5
<1>7. t \in listed => n \in {TaskNode[t], None}
  <2> SUFFICES ASSUME t \in listed PROVE n = TaskNode[t]
    OBVIOUS
  <2>1. t \in Task /\ id \notin ContainerID
    BY <1>1, <1>2, TaskIDs
  <2>2. ListedNodes(answer, id) = {TaskNode[t]}
    <3>1. ASSUME NEW e \in answer,
                 e.task = t \/ (id \in ContainerID /\ MatchesId(e.container, id))
          PROVE  e.node = TaskNode[t]
      BY <1>2, <2>1, <3>1
    <3>2. \E e \in answer : e.task = t
      BY <1>2
    <3>3. ListedNodes(answer, id) \subseteq {TaskNode[t]}
      BY <3>1 DEF ListedNodes
    <3>4. TaskNode[t] \in ListedNodes(answer, id)
      BY <3>1, <3>2 DEF ListedNodes
    <3> QED
      BY <3>3, <3>4
  <2>3. owner = TaskNode[t]
    BY <2>2 DEF OwnerFromTasks, TheOnly
  <2>4. ~Contradicted(id, owner)
    BY <2>1 DEF Contradicted
  <2>5. owner # None
    BY <2>1, <2>3
  <2> QED
    BY <2>3, <2>4, <2>5
<1> HIDE DEF n
<1> QED
  BY <1>1, <1>6, <1>7, Returned

\* Every step of a lookup keeps the invariant.
LEMMA LookupKeeps ==
    ASSUME ReportsInv, NEW h \in Reader,
           \/ \E id \in Id : BeginLookup(h, id)
           \/ ReadPlacement(h) \/ ListTasks(h) \/ StorePlacement(h) \/ ReadClaims(h)
    PROVE  ReportsInv'
<1>1. /\ UNCHANGED <<listed, status, standalone, rounds, running, asked, answers, round>>
      /\ UNCHANGED <<owners, names, tasks>>
      /\ placements' = placements \/ StorePlacement(h)
  BY DEF BeginLookup, ReadPlacement, ListTasks, StorePlacement, ReadClaims, swarmVars, roundVars, poolVars
<1>2. lookup' \in [Reader -> Lookup] /\ LookupsHold'
  BY BeginLookupKeeps, ReadPlacementKeeps, ListTasksKeeps, StorePlacementKeeps, ReadClaimsKeeps
<1>3. placements' \in [Task -> Node \union {None}] /\ PlacementsHold'
  <2>1. CASE placements' = placements
    BY <1>1, <2>1 DEF ReportsInv, ReportsTypeOK, PlacementsHold, PlacementsSampled
  <2> QED
    BY <1>1, <2>1, StorePlacementKeeps
<1>4. ReportsTypeOK'
  BY <1>1, <1>2, <1>3 DEF ReportsInv, ReportsTypeOK
<1>5. RoundHolds' /\ RoundClaims'
  BY <1>1, ClaimsRest DEF ReportsInv, RoundHolds
<1> QED
  BY <1>2, <1>3, <1>4, <1>5 DEF ReportsInv

\* What the swarm and its nodes do keeps it: tasks stay where they are.
LEMMA SwarmKeeps ==
    ASSUME ReportsInv, NEW t \in Task, RemoveTask(t) \/ \E c \in Container : StartContainer(t, c)
    PROVE  ReportsInv'
<1>1. /\ UNCHANGED <<standalone, rounds, running, asked, answers, round, owners, names, tasks,
                     placements, lookup>>
      /\ listed' \subseteq listed /\ status' \in [Task -> Container \union {None}]
  BY DEF RemoveTask, StartContainer, roundVars, poolVars, ReportsInv, ReportsTypeOK
<1>2. ReportsTypeOK'
  BY <1>1 DEF ReportsInv, ReportsTypeOK
<1>3. RoundHolds' /\ RoundClaims'
  BY <1>1, ClaimsRest DEF ReportsInv, RoundHolds
<1>4. PlacementsHold' /\ LookupsHold'
  BY <1>1, LookupsRest DEF ReportsInv, PlacementsHold, PlacementsSampled
<1> QED
  BY <1>2, <1>3, <1>4 DEF ReportsInv

\* Every step keeps the invariant.
LEMMA ReportsStep == ReportsInv /\ [ReportsNext]_reportsVars => ReportsInv'
<1> SUFFICES ASSUME ReportsInv, [ReportsNext]_reportsVars PROVE ReportsInv'
  OBVIOUS
<1>1. CASE UNCHANGED reportsVars
  <2>1. /\ UNCHANGED <<listed, status, standalone, rounds, running, asked, answers, round>>
        /\ UNCHANGED <<owners, names, tasks, placements, lookup>>
    BY <1>1 DEF reportsVars, swarmVars, roundVars, poolVars
  <2>2. ReportsTypeOK' /\ RoundHolds' /\ PlacementsHold'
    BY <2>1 DEF ReportsInv, ReportsTypeOK, RoundHolds, PlacementsHold, PlacementsSampled
  <2>3. RoundClaims' /\ LookupsHold'
    BY <2>1, ClaimsRest, LookupsRest DEF ReportsInv
  <2> QED
    BY <2>2, <2>3 DEF ReportsInv
<1>2. CASE BeginRound \/ EndRound \/ EmptyRound
  BY <1>2, BeginRoundKeeps, EndRoundKeeps
<1>3. ASSUME NEW n \in Node, AgentAnswers(n) PROVE ReportsInv'
  BY <1>3, AgentAnswersKeeps
<1>4. ASSUME NEW h \in Reader,
             \/ \E id \in Id : BeginLookup(h, id)
             \/ ReadPlacement(h) \/ ListTasks(h) \/ StorePlacement(h) \/ ReadClaims(h)
      PROVE  ReportsInv'
  BY <1>4, LookupKeeps
<1>5. ASSUME NEW t \in Task, RemoveTask(t) \/ \E c \in Container : StartContainer(t, c)
      PROVE  ReportsInv'
  BY <1>5, SwarmKeeps
<1> QED
  BY <1>1, <1>2, <1>3, <1>4, <1>5 DEF ReportsNext

\* A container or task that two nodes reported has the mark of a conflict, and none of its
\* samples is shown.
LEMMA OneNodeShown == ReportsInv => ShownForOneNode
<1> USE ReportsAssumption, IdAssumption
<1> SUFFICES ASSUME ReportsInv, NEW p \in Samples, NEW q \in Samples,
                    \/ p[2].id = q[2].id
                    \/ p[2].task # None /\ p[2].task = q[2].task
             PROVE  p[1] = q[1]
  BY DEF ShownForOneNode
<1>1. ASSUME NEW r \in Samples
      PROVE  /\ r[1] \in Node /\ r[2] \in Sample /\ r[2] \in answers[r[1]]
             /\ round.containers[r[2].id] # Conflict
             /\ r[2].task # None => round.tasksBy[r[2].task] # Conflict
  BY <1>1 DEF Samples, ReportedByOthers
<1>2. CASE p[2].id = q[2].id
  <2> DEFINE k == p[2].id
  <2>1. k \in Id
    BY <1>1 DEF Sample, Id, ContainerID
  <2>2. round.containers[k] = Claim(None, NodesOfContainer(k))
    BY <2>1 DEF ReportsInv, RoundClaims
  <2>3. p[1] \in NodesOfContainer(k) /\ q[1] \in NodesOfContainer(k) /\ None \notin NodesOfContainer(k)
    BY <1>1, <1>2 DEF NodesOfContainer
  <2> QED
    BY <1>1, <2>2, <2>3, ClaimOne
<1>3. CASE p[2].task # None /\ p[2].task = q[2].task
  <2> DEFINE k == p[2].task
  <2>1. k \in Id
    BY <1>1, <1>3 DEF Sample, Id
  <2>2. round.tasksBy[k] = Claim(None, NodesOfTask(k))
    BY <2>1 DEF ReportsInv, RoundClaims
  <2>3. p[1] \in NodesOfTask(k) /\ q[1] \in NodesOfTask(k) /\ None \notin NodesOfTask(k)
    BY <1>1, <1>3 DEF NodesOfTask
  <2> QED
    BY <1>1, <1>3, <2>2, <2>3, ClaimOne
<1> QED
  BY <1>2, <1>3

\* The rounds and lookups are well typed.
THEOREM ReportsTyped == ReportsSpec => []ReportsTypeOK
<1>1. ReportsInv => ReportsTypeOK
  BY DEF ReportsInv
<1> QED
  BY <1>1, ReportsStart, ReportsStep, PTL DEF ReportsSpec

\* Whatever faulty agents report, in whatever order agents answer and however lookups overlap
\* with rounds: claims are what all reports say, no container is shown for two nodes, the
\* placements cached are of tasks of the last round, and a task is located on its node or
\* not at all (agent_stats.go:17-128, agent_locate.go:19-199).
THEOREM LookupsRight == ReportsSpec => []LookupsSafe
<1>1. ReportsInv => LookupsSafe
  <2> SUFFICES ASSUME ReportsInv PROVE LookupsSafe
    OBVIOUS
  <2>1. ClaimsExact
    <3> SUFFICES ASSUME NEW k \in Id
                 PROVE  /\ round.containers[k] \in Said(NodesOfContainer(k))
                        /\ round.tasksBy[k] \in Said(NodesOfTask(k))
                        /\ round.tasks[k] \in Said(TasksOf(k))
                        /\ round.owners[k] \in Said(NodesOfOwned(k))
                        /\ round.names[k] \in Said(NodesOfName(k))
      BY DEF ClaimsExact, NodesOfContainer, NodesOfTask, TasksOf, NodesOfOwned, NodesOfName
    <3>1. /\ None \notin NodesOfContainer(k) /\ None \notin NodesOfTask(k) /\ None \notin TasksOf(k)
          /\ None \notin NodesOfOwned(k) /\ None \notin NodesOfName(k)
      BY ReportsAssumption DEF NodesOfContainer, NodesOfTask, TasksOf, NodesOfOwned, NodesOfName
    <3> QED
      BY <3>1, ClaimIsSaid DEF ReportsInv, RoundClaims
  <2>2. LocatedOnItsNode
    BY DEF ReportsInv, LookupsHold, LookupHolds, LocatedOnItsNode
  <2>3. PlacementsSampled
    BY DEF ReportsInv, PlacementsHold
  <2> QED
    BY <2>1, <2>2, <2>3, OneNodeShown DEF LookupsSafe
<1> QED
  BY <1>1, ReportsStart, ReportsStep, PTL DEF ReportsSpec
=============================================================================
