----------------------------- MODULE MCHubFeed -----------------------------
(***************************************************************************)
(* HubFeed on a few connections; `own' has a client address to itself, the *)
(* others share one.                                                       *)
(***************************************************************************)
EXTENDS HubFeed, TLC

CONSTANTS own, k1, k2

MCKeyOf == [c \in Conn |-> IF c = own THEN k1 ELSE k2]
\* Bounds of the safety run, which explores two parts of the state space: three
\* connections, expiring sessions and no broadcast; or a feed of graphs and stats
\* to two connections whose sessions last.
NoBroadcast == version = 0 /\ Idle("stats")
TwoStay == ~closed /\ Idle("stats") /\ expired = {} /\ \E c \in Conn : handler[c] = "none"
TwoScenes == NoBroadcast \/ TwoStay

ConnSymmetry == Permutations(Conn \ {own})
=============================================================================
