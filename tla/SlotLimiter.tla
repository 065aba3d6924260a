---------------------------- MODULE SlotLimiter ----------------------------
(***************************************************************************)
(* slotLimiter (backend/api/limits.go): how many connections or requests   *)
(* are held, overall and per client.  Each method holds the limiter's lock *)
(* from start to end, so each is an operator on the pair of counts.        *)
(***************************************************************************)
EXTENDS Integers

\* The counts of a limiter: a client with no entry in the map counts as 0.
Slots(Client) == [total : Int, perClient : [Client -> Int]]

FreeSlots(Client) == [total |-> 0, perClient |-> [k \in Client |-> 0]]

\* A bound of 0 or less means none.
BelowBound(count, bound) == bound <= 0 \/ count < bound

CanAcquire(slots, client, maxTotal, maxPerClient) ==
    /\ BelowBound(slots.total, maxTotal)
    /\ BelowBound(slots.perClient[client], maxPerClient)

Acquire(slots, client) ==
    [total |-> slots.total + 1,
     perClient |-> [slots.perClient EXCEPT ![client] = @ + 1]]

\* The client's entry goes away with its last slot.
Release(slots, client) ==
    [total |-> slots.total - 1,
     perClient |-> [slots.perClient EXCEPT ![client] = IF @ <= 1 THEN 0 ELSE @ - 1]]
=============================================================================
