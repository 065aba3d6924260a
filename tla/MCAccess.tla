------------------------------ MODULE MCAccess ------------------------------
(***************************************************************************)
(* Who gets in: an agent that authenticates a server's requests            *)
(* (AgentAuth), and the two halves of signing in, the limit on attempts    *)
(* (LoginLimiter) and the sessions a right password opens (Sessions).      *)
(* The last two share the server's clock, and nothing else is shared, so a *)
(* behaviour exercises one of the three and the others rest.  Of the       *)
(* limiter there are two scenes: a crowd of clients whose logins come one  *)
(* at a time, and two clients whose logins are concurrent.                 *)
(***************************************************************************)
EXTENDS AgentAuth, LoginLimiter, Sessions, TLC

CONSTANTS Two     \* the two clients

Symmetries == Permutations(Nonce) \cup Permutations(Handler) \cup Permutations(Two)
                \cup Permutations(Visitor) \cup Permutations(Login)

VARIABLE scene

vars == <<scene, clock, limiterVars, sessionVars, authVars>>

Init ==
  /\ scene \in {"agent", "crowd", "two", "sessions"}
  /\ LimiterInit /\ SessionsInit /\ AuthInit
  \* One initial state of an agent that rests.
  /\ scene # "agent" => addrs = {} /\ \A h, i \in Handler : req[h] = req[i]

OneAtATime == \A g, h \in Visitor :
  handler'[g].pc # "idle" /\ handler'[h].pc # "idle" => g = h

OnlyTwo == \A k \in Key \ Two : tried'[k] = Never

Next ==
  /\ scene' = scene
  /\ \/ scene = "agent" /\ AuthNext /\ UNCHANGED <<clock, limiterVars, sessionVars>>
     \/ /\ scene \in {"crowd", "two"} /\ LimiterNext /\ UNCHANGED <<sessionVars, authVars>>
        /\ IF scene = "crowd" THEN OneAtATime ELSE OnlyTwo
     \/ scene = "sessions" /\ SessionsNext /\ UNCHANGED <<limiterVars, authVars>>

Spec == Init /\ [][Next]_vars
=============================================================================
