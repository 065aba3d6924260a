------------------------------ MODULE HubFeed ------------------------------
(***************************************************************************)
(* The hub fed with numbered versions of the graph: pipeToHub (main.go)    *)
(* broadcasts a snapshot, then one delta per version, each message with    *)
(* its version as snapshot.                                                *)
(*                                                                         *)
(* `start' and `dropped' are history: the version current when a client    *)
(* registered, and the clients a state message was dropped for.            *)
(***************************************************************************)
EXTENDS Hub

CONSTANT MaxVersion     \* bound: how many state messages are broadcast

ASSUME FeedAssumption == MaxVersion \in Nat /\ Nil \notin Nat

VARIABLES version, start, dropped

vars == <<hubVars, version, start, dropped>>

Init ==
    /\ HubInit
    /\ version = 0
    /\ start = [c \in Conn |-> 0]
    /\ dropped = {}

StateMsg(v) == [type |-> IF v = 1 THEN "snapshot" ELSE "delta", data |-> v]

\* pipeToHub takes the manager's next message.
PipeToHub ==
    /\ version < MaxVersion
    /\ version' = version + 1
    /\ Broadcast(StateMsg(version'), version')

\* The clients a step of the state broadcast was offered to in vain.
DroppedNow ==
    {c \in bcast["state"].todo \ bcast'["state"].todo : sendCh'[c] = sendCh[c]}

History ==
    /\ start' = [c \in Conn |-> IF c \in clients' \ clients THEN version ELSE start[c]]
    /\ dropped' = dropped \union DroppedNow

Next ==
    /\ PipeToHub \/ (HubNext /\ UNCHANGED version)
    /\ History

Spec == Init /\ [][Next]_vars
FairSpec == Spec /\ HubFairness

----------------------------------------------------------------------------

TypeOK ==
    /\ HubTypeOK
    /\ version \in 0 .. MaxVersion
    /\ start \in [Conn -> 0 .. MaxVersion]
    /\ dropped \subseteq Conn

\* The clients with a live connection no state message was dropped for.
Fed == {c \in clients \ dropped : writer[c] # "exited"}

\* The messages a client was sent, its channel's included.
Got(c) == wire[c] \o sendCh[c]

\* The last version its channel was offered: a broadcast may still be on its way.
Offered(c) == IF c \in bcast["state"].todo THEN version - 1 ELSE version

\* Where in a sequence of messages the graphs newer than a version are, and the others.
GraphsOf(q) == {i \in DOMAIN q : q[i].type \in {"snapshot", "delta"}}
Newer(q, base) == {i \in GraphsOf(q) : q[i].data > base}
Older(q, base) == GraphsOf(q) \ Newer(q, base)

\* The newer graphs in q are the versions from base + 1 to last, once each and in order.
InOrder(q, base, last) ==
    /\ {q[i] : i \in Newer(q, base)} = {StateMsg(v) : v \in base + 1 .. last}
    /\ \A i, j \in Newer(q, base) : i < j => q[i].data < q[j].data

\* A client no message was dropped for has every version from the one current
\* when it registered, once and in order: registering and copying the client list
\* under one lock with the snapshot leaves no gap and no repetition.  Only the
\* place of the first snapshot among the messages is open: it is sent after the
\* lock, so that messages broadcast since may precede it.
NoVersionMissed ==
    \A c \in Fed :
        /\ InOrder(Got(c), start[c], Offered(c))
        /\ c \in bcast["state"].todo => bcast["state"].msg = StateMsg(version)
        /\ IF start[c] > 0 /\ handler[c] = "started"
           THEN \E i \in DOMAIN Got(c) : Older(Got(c), start[c]) = {i}
                                         /\ Got(c)[i] = SnapshotMsg(start[c])
           ELSE Older(Got(c), start[c]) = {}

=============================================================================
