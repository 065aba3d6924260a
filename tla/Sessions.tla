------------------------------ MODULE Sessions ------------------------------
(***************************************************************************)
(* Login sessions: the signed tokens of auth/jwt.go and                    *)
(* auth/handlers.go, the SessionManager of auth/session.go that ends all   *)
(* of them, and the middleware that accepts a request (auth/middleware.go).*)
(*                                                                         *)
(* A token holds when it was issued and when it expires as whole seconds   *)
(* (SignToken writes Unix()); the SessionManager keeps the time of the     *)
(* last logout as it is.  The signing key is drawn at start, so a restart  *)
(* refuses every token of the process before.                              *)
(***************************************************************************)
EXTENDS Clock

CONSTANTS
  Login,      \* requests that may log in
  maxAge,     \* sessionMaxAge, in ticks
  MaxStarts   \* bound of this model: processes

ASSUME SessionsAssumption ==
  /\ maxAge \in Nat
  /\ MaxStarts \in Nat

VARIABLES
  signingKey,       \* the number of the process stands for its key
  invalidatedAt,    \* Zero until a logout
  cookie,           \* per login, the token it was given, if it was
  asked             \* the requests that hold `now' and no cookie yet

sessionVars == <<signingKey, invalidatedAt, cookie, asked>>

Zero == 0
None == [key |-> 0, iat |-> 0, exp |-> 0, at |-> 0]

\* Whole seconds, in ticks.
Unix(at) == (at \div second) * second

\* The claims of a token issued at `at' (which is history) with key k.
SignToken(at, k) ==
  [key |-> k, iat |-> Unix(at), exp |-> Unix(at + maxAge), at |-> at]

\* SessionManager.IsValid.
IsValid(issuedAt) == invalidatedAt = Zero \/ issuedAt > invalidatedAt

\* VerifyToken: the signature, then the expiry.
VerifyToken(t) == t.key = signingKey /\ clock <= t.exp

AcceptedSinceSecond(t) ==       \* a mutant: the second of the logout counts
  VerifyToken(t) /\ (invalidatedAt = Zero \/ t.iat >= Unix(invalidatedAt))

\* Whether the middleware lets a request with token t through.
validateRequest(t) == VerifyToken(t) /\ IsValid(t.iat)

SessionsInit ==
  /\ clock = 1
  /\ signingKey = 1
  /\ invalidatedAt = Zero
  /\ cookie = [l \in Login |-> None]
  /\ asked = [l \in Login |-> Zero]

\* The password is right: setSessionCookie reads the clock,
TakeNow(l) ==
  /\ asked[l] = Zero
  /\ asked' = [asked EXCEPT ![l] = clock]
  /\ UNCHANGED <<clock, signingKey, invalidatedAt, cookie>>

\* and signs the token.
SetCookie(l) ==
  /\ asked[l] # Zero
  /\ cookie' = [cookie EXCEPT ![l] = SignToken(asked[l], signingKey)]
  /\ asked' = [asked EXCEPT ![l] = Zero]
  /\ UNCHANGED <<clock, signingKey, invalidatedAt>>

\* Logout, by a request the middleware let through with the token of l: every
\* session ends.  The answer takes l's cookie back, but requests under way may
\* still carry the token, so the model keeps it.
Logout(l) ==
  /\ validateRequest(cookie[l])
  /\ invalidatedAt' = clock
  /\ UNCHANGED <<clock, signingKey, cookie, asked>>

RestartSameKey ==               \* a mutant: the key outlives the process
  /\ signingKey < MaxStarts
  /\ invalidatedAt' = Zero
  /\ asked' = [l \in Login |-> Zero]
  /\ UNCHANGED <<clock, signingKey, cookie>>

\* The server restarts: a new key, no logout seen, no request in progress.
Restart ==
  /\ signingKey < MaxStarts
  /\ signingKey' = signingKey + 1
  /\ invalidatedAt' = Zero
  /\ asked' = [l \in Login |-> Zero]
  /\ UNCHANGED <<clock, cookie>>

SessionsTick ==
  /\ clock < MaxClock
  /\ clock' = clock + 1
  /\ UNCHANGED <<signingKey, invalidatedAt, cookie, asked>>

SessionsNext ==
  \/ \E l \in Login : TakeNow(l) \/ SetCookie(l) \/ Logout(l)
  \/ Restart
  \/ SessionsTick

SessionsSpec == SessionsInit /\ [][SessionsNext]_<<clock, sessionVars>>

-----------------------------------------------------------------------------
(* Properties.                                                             *)

Token == [key : Nat, iat : Nat, exp : Nat, at : Nat]

SessionsTypeOK ==
  /\ clock \in Nat \ {0}
  /\ signingKey \in Nat \ {0}
  /\ invalidatedAt \in Nat
  /\ cookie \in [Login -> Token]
  /\ asked \in [Login -> Nat]

\* A token carries what a token issued at its time carries, and none is from
\* the future or from a process to come.
Issued ==
  \A l \in Login :
    /\ asked[l] <= clock /\ cookie[l].at <= clock
    /\ cookie[l].key <= signingKey
    /\ cookie[l].key # 0 =>
         /\ cookie[l].at # Zero
         /\ cookie[l] = SignToken(cookie[l].at, cookie[l].key)

\* A request the middleware accepts has a token of this process, issued after
\* the last logout and no longer ago than a session lasts
\* (auth/session.go:9 "All tokens issued before the invalidation time are
\* considered invalid"): what the seconds lose never lets an old token in.
AcceptedJustly ==
  \A l \in Login : validateRequest(cookie[l]) =>
    /\ cookie[l].key = signingKey
    /\ cookie[l].at > invalidatedAt
    /\ clock <= cookie[l].at + maxAge

\* A logout ends every session that was open, and none comes back: a token that
\* was issued is accepted again only if it is a new one.
EndedForGood ==
  [][\A l \in Login :
       cookie'[l] = cookie[l] /\ validateRequest(cookie[l])'
         => validateRequest(cookie[l])]_<<clock, sessionVars>>
=============================================================================
