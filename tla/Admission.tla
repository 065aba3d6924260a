----------------------------- MODULE Admission -----------------------------
(***************************************************************************)
(* What the hub promises about whom it serves, without counters, pumps or  *)
(* locks: a set of connections within the bounds, some of which are        *)
(* clients that broadcasts reach, and none joins once the hub is closed.   *)
(***************************************************************************)
EXTENDS Integers, FiniteSets

CONSTANTS Conn, Key, KeyOf, MaxClients, MaxClientsPerKey

VARIABLES
    served,     \* the connections that hold a slot
    clients,    \* the connections broadcasts reach
    closed      \* no client may join any more

ServedOf(k) == {c \in served : KeyOf[c] = k}

Init == served = {} /\ clients = {} /\ closed = FALSE

\* A connection is served only below both bounds; 0 or less means no bound.
Admit(c) ==
    /\ c \notin served
    /\ MaxClients > 0 => Cardinality(served) < MaxClients
    /\ MaxClientsPerKey > 0 => Cardinality(ServedOf(KeyOf[c])) < MaxClientsPerKey
    /\ served' = served \union {c}
    /\ UNCHANGED <<clients, closed>>

Join(c) ==
    /\ ~closed
    /\ c \in served
    /\ clients' = clients \union {c}
    /\ UNCHANGED <<served, closed>>

Quit(c) == clients' = clients \ {c} /\ UNCHANGED <<served, closed>>

Leave(c) == served' = served \ {c} /\ UNCHANGED <<clients, closed>>

Close == closed' = TRUE /\ UNCHANGED <<served, clients>>

Next == Close \/ \E c \in Conn : Admit(c) \/ Join(c) \/ Quit(c) \/ Leave(c)

Spec == Init /\ [][Next]_<<served, clients, closed>>
=============================================================================
