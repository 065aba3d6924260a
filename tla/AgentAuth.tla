------------------------------ MODULE AgentAuth ------------------------------
(***************************************************************************)
(* backend/agentauth: the signed requests a server sends its agents, and   *)
(* the agent's Verifier with its replay cache.  A request may be delayed   *)
(* or delivered several times, and is verified in three steps (the clock   *)
(* read and the signature, the agent's own addresses, the replay cache),   *)
(* between which other requests' verifications run.                        *)
(*                                                                         *)
(* Unsigned, malformed and wrongly signed requests are refused before any  *)
(* state is read or written: they are left out.                            *)
(***************************************************************************)
EXTENDS Integers, FiniteSets

CONSTANTS
    Nonce,          \* what signers draw nonces from
    Addr,           \* network addresses
    Handler,        \* the agent's concurrent requests
    MaxClockSkew,
    seenPruneSize,
    maxSeenNonces,
    localAddrRefresh,
    Delay,          \* bound: how long a verification takes
    MaxAgentClock        \* bound: how long the agent runs

ASSUME AuthAssumption ==
    /\ IsFiniteSet(Nonce)
    /\ MaxClockSkew \in Nat /\ localAddrRefresh \in Nat /\ Delay \in Nat /\ MaxAgentClock \in Nat
    /\ seenPruneSize \in Nat /\ maxSeenNonces \in Nat
    /\ 0 < seenPruneSize /\ seenPruneSize <= maxSeenNonces

Absent == -1
Request == [nonce : Nonce, ts : Nat, host : Addr]

VARIABLES
    agentClock,      \* the agent's clock
    sent,       \* the requests the server signed
    seen,       \* per nonce, when it stops being acceptable, or Absent
    pruneAt,    \* size of `seen' that triggers the next prune
    local,      \* the agent's addresses, as it last read them
    localRead,  \* when it did
    addrs,      \* the agent's addresses
    stage,      \* per handler: idle, checked (signature), local (address)
    req,        \* per handler, its request
    now,        \* per handler, when it read the clock
    accepted    \* history: how often a nonce was accepted

cacheVars == <<seen, pruneAt, accepted>>
addrVars == <<local, localRead, addrs>>
authVars == <<agentClock, sent, cacheVars, addrVars, stage, req, now>>

AuthInit ==
    /\ agentClock = localAddrRefresh
    /\ sent = {}
    /\ seen = [n \in Nonce |-> Absent]
    /\ pruneAt = seenPruneSize
    /\ local = {} /\ localRead = 0
    /\ addrs \in SUBSET Addr
    /\ stage = [h \in Handler |-> "idle"]
    /\ req \in [Handler -> {[nonce |-> n, ts |-> 0, host |-> a] : n \in Nonce, a \in Addr}]
    /\ now = [h \in Handler |-> 0]
    /\ accepted = [n \in Nonce |-> 0]

----------------------------------------------------------------------------

\* Signer.Authorize: a fresh nonce, the server's own clock.
Authorize(n, ts, a) ==
    /\ \A r \in sent : r.nonce # n
    /\ sent' = sent \union {[nonce |-> n, ts |-> ts, host |-> a]}
    /\ UNCHANGED <<agentClock, cacheVars, addrVars, stage, req, now>>

Acceptable(ts) == agentClock - ts <= MaxClockSkew /\ ts - agentClock <= MaxClockSkew

\* A request arrives, now or again, and its timestamp is acceptable.
Verify(h, r) ==
    /\ stage[h] = "idle"
    /\ Acceptable(r.ts)
    /\ stage' = [stage EXCEPT ![h] = "checked"]
    /\ req' = [req EXCEPT ![h] = r]
    /\ now' = [now EXCEPT ![h] = agentClock]
    /\ UNCHANGED <<agentClock, sent, cacheVars, addrVars>>

\* Where a verification goes on when the agent has the addresses `known'.
AfterLocal(h, known) ==
    stage' = [stage EXCEPT ![h] = IF req[h].host \in known THEN "local" ELSE "idle"]

\* Reads the agent's addresses again for one it does not know, at most once per
\* localAddrRefresh; the read may fail.
IsLocal(h) ==
    /\ stage[h] = "checked"
    /\ IF req[h].host \in local \/ agentClock - localRead < localAddrRefresh
       THEN AfterLocal(h, local) /\ UNCHANGED <<local, localRead>>
       ELSE /\ localRead' = agentClock
            /\ local' \in {addrs, local}
            /\ AfterLocal(h, local')
    /\ UNCHANGED <<agentClock, sent, cacheVars, addrs, req, now>>

Live(s) == {n \in Nonce : s[n] # Absent}

\* Mutant: a nonce is dropped in the last second it is acceptable in.
PruneEarly(t) == [n \in Nonce |-> IF t >= seen[n] THEN Absent ELSE seen[n]]
Prune(t) == [n \in Nonce |-> IF t > seen[n] THEN Absent ELSE seen[n]]

SmallerOf(a, b) == IF a < b THEN a ELSE b
LargerOf(a, b) == IF a > b THEN a ELSE b

PruneBound(size) == SmallerOf(maxSeenNonces, LargerOf(seenPruneSize, 2 * size))

PrunedNever(t) == seen      \* mutant

\* The cache after the prune that `remember' makes when it is due.
Pruned(t) == IF Cardinality(Live(seen)) >= pruneAt THEN Prune(t) ELSE seen

Full(s) == Cardinality(Live(s)) >= maxSeenNonces

Remember(h) ==
    LET n == req[h].nonce
        kept == Pruned(now[h])
        due == Cardinality(Live(seen)) >= pruneAt
    IN
    /\ stage[h] = "local"
    /\ stage' = [stage EXCEPT ![h] = "idle"]
    /\ IF seen[n] # Absent
       THEN UNCHANGED cacheVars
       ELSE /\ pruneAt' = IF due THEN PruneBound(Cardinality(Live(kept))) ELSE pruneAt
            /\ IF Full(kept)
               THEN seen' = kept /\ UNCHANGED accepted
               ELSE /\ seen' = [kept EXCEPT ![n] = req[h].ts + MaxClockSkew]
                    /\ accepted' = [accepted EXCEPT ![n] = @ + 1]
    /\ UNCHANGED <<agentClock, sent, addrVars, req, now>>

----------------------------------------------------------------------------

\* Time passes; no verification takes longer than Delay.
Tick ==
    /\ agentClock < MaxAgentClock
    /\ \A h \in Handler : stage[h] # "idle" => agentClock - now[h] < Delay
    /\ agentClock' = agentClock + 1
    /\ UNCHANGED <<sent, cacheVars, addrVars, stage, req, now>>

\* A network is attached to the agent or detached from it.
Readdress(s) ==
    /\ addrs' = s
    /\ UNCHANGED <<agentClock, sent, cacheVars, local, localRead, stage, req, now>>

AuthNext ==
    \/ \E n \in Nonce, ts \in 0 .. MaxAgentClock, a \in Addr : Authorize(n, ts, a)
    \/ \E h \in Handler : (\E r \in sent : Verify(h, r)) \/ IsLocal(h) \/ Remember(h)
    \/ Tick
    \/ \E s \in SUBSET Addr : Readdress(s)

AuthSpec == AuthInit /\ [][AuthNext]_authVars

----------------------------------------------------------------------------

AuthTypeOK ==
    /\ agentClock \in Nat
    /\ sent \subseteq Request
    /\ seen \in [Nonce -> Nat \union {Absent}]
    /\ pruneAt \in seenPruneSize .. maxSeenNonces
    /\ local \subseteq Addr /\ addrs \subseteq Addr
    /\ localRead \in Nat
    /\ stage \in [Handler -> {"idle", "checked", "local"}]
    /\ req \in [Handler -> Request]
    /\ now \in [Handler -> Nat]
    /\ accepted \in [Nonce -> Nat]

\* "The replay cache holds each nonce while its timestamp is acceptable"
\* (verify.go:25), whatever was pruned and whenever its pruning handler read the
\* clock.
KeptWhileAcceptable ==
    \A r \in sent : accepted[r.nonce] > 0 /\ agentClock <= r.ts + MaxClockSkew =>
        seen[r.nonce] = r.ts + MaxClockSkew

\* "Not seen before" (verify.go:62-63): a request delivered again is refused, unless its
\* time ran out while it was verified.  Then a verification that read a later clock may
\* have dropped its nonce in between, and it is accepted once more: the clock is read
\* (verify.go:73) before the lock is taken under which the cache is pruned.
ReplayRefused ==
    [][\A h \in Handler :
        /\ stage[h] = "local" /\ stage'[h] = "idle" /\ accepted[req[h].nonce] > 0
        /\ agentClock <= req[h].ts + MaxClockSkew
        => accepted' = accepted]_authVars

\* The cache is bounded "whatever happens" (verify.go:26-27).
CacheBounded == Cardinality(Live(seen)) <= maxSeenNonces

\* A request that passed every other check is refused only if it was accepted
\* before or the cache is full of nonces still acceptable: "a full cache is still
\* pruned once its nonces expire" (verify.go:197).
RefusedJustly ==
    [][\A h \in Handler :
        stage[h] = "local" /\ stage'[h] = "idle" /\ accepted' = accepted =>
            \/ accepted[req[h].nonce] > 0
            \/ Cardinality({n \in Nonce : seen[n] >= now[h]}) >= maxSeenNonces]_authVars
=============================================================================
