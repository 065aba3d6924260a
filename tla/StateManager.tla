---------------------------- MODULE StateManager ----------------------------
(***************************************************************************)
(* backend/state/manager.go: the manager stores the last snapshot of the   *)
(* docker (runtime) and compose (declarative) collectors, merges them and  *)
(* broadcasts a snapshot, then deltas, to its subscribers.  Every handler  *)
(* holds the manager's lock from start to end, so each is one action; a    *)
(* subscriber that does not keep up loses messages.                        *)
(*                                                                         *)
(* `seen' and `lost' are history: the graph of the last state message a    *)
(* subscriber took, and whether a state message was dropped for it.        *)
(***************************************************************************)
EXTENDS Graph

Collector == {"docker", "compose"}

CONSTANTS
    Offers,     \* the snapshots each collector may send
    Sub,        \* subscription ids: each is handed out once
    ChanCap     \* capacity of a subscriber's channel (16)

ASSUME ManagerAssumption ==
    /\ Offers \in [Collector -> SUBSET Graph]
    /\ ChanCap \in Nat \ {0}
    /\ Nil \notin Graph
    /\ Nil \notin Delta

VARIABLES
    snapshots,  \* per collector, its last snapshot; empty before the first
    merged,     \* the merged graph
    hasState,   \* some update has been handled
    status,     \* per subscription: not made yet, open, closed
    chan,       \* per subscription, the buffered messages
    seen,       \* history: the graph of the last state message received
    lost        \* history: a state message was dropped for the subscription

vars == <<snapshots, merged, hasState, status, chan, seen, lost>>

----------------------------------------------------------------------------

StateMessage ==
    [type : {"snapshot"}, delta : {Nil}, snapshot : Graph]
      \union [type : {"delta"}, delta : Delta, snapshot : Graph]
      \union [type : {"stats"}, delta : {Nil}, snapshot : {Nil}]

SnapshotMsg(graph) == [type |-> "snapshot", delta |-> Nil, snapshot |-> graph]
DeltaMsg(delta, graph) == [type |-> "delta", delta |-> delta, snapshot |-> graph]
StatsMsg == [type |-> "stats", delta |-> Nil, snapshot |-> Nil]

Subscribers == {s \in Sub : status[s] = "open"}

HasRoom(s) == Len(chan[s]) < ChanCap

Init ==
    /\ snapshots = [c \in Collector |-> EmptyGraph]
    /\ merged = EmptyGraph
    /\ hasState = FALSE
    /\ status = [s \in Sub |-> "new"]
    /\ chan = [s \in Sub |-> << >>]
    /\ seen = [s \in Sub |-> EmptyGraph]
    /\ lost = [s \in Sub |-> FALSE]

\* The non-blocking send of a message to every subscriber.
SendToAll(msg) ==
    chan' = [s \in Sub |-> IF s \in Subscribers /\ HasRoom(s)
                           THEN Append(chan[s], msg) ELSE chan[s]]

\* Mutant: the new subscriber starts from nothing, whatever is merged already.
SubscribeWithoutSnapshot(s) ==
    /\ status[s] = "new"
    /\ status' = [status EXCEPT ![s] = "open"]
    /\ UNCHANGED <<snapshots, merged, hasState, chan, seen, lost>>

\* A new subscriber is sent the merged graph, unless it has no nodes.
Subscribe(s) ==
    /\ status[s] = "new"
    /\ status' = [status EXCEPT ![s] = "open"]
    /\ chan' = [chan EXCEPT ![s] = IF DOMAIN merged.nodes # {}
                                   THEN <<SnapshotMsg(merged)>> ELSE << >>]
    /\ UNCHANGED <<snapshots, merged, hasState, seen, lost>>

\* The channel is closed: what it buffers can still be received.
Unsubscribe(s) ==
    /\ status[s] = "open"
    /\ status' = [status EXCEPT ![s] = "closed"]
    /\ UNCHANGED <<snapshots, merged, hasState, chan, seen, lost>>

\* What the lock is released with: the message to broadcast, if any.
Publish(curr) ==
    LET delta == DiffSnapshots(merged, curr)
        send(msg) == /\ SendToAll(msg)
                     /\ lost' = [s \in Sub |-> lost[s] \/ (s \in Subscribers /\ ~HasRoom(s))]
    IN  \/ ~hasState /\ send(SnapshotMsg(curr))
        \/ hasState /\ Changed(delta) /\ send(DeltaMsg(delta, curr))
        \/ hasState /\ ~Changed(delta) /\ UNCHANGED <<chan, lost>>

HandleUpdate(c, update) ==
    /\ snapshots' = IF update = Nil THEN snapshots
                    ELSE [snapshots EXCEPT ![c] = update]
    /\ merged' = MergeSnapshots(snapshots'["compose"], snapshots'["docker"])
    /\ hasState' = TRUE
    /\ Publish(merged')
    /\ UNCHANGED <<status, seen>>

HandleStats ==
    /\ SendToAll(StatsMsg)
    /\ UNCHANGED <<snapshots, merged, hasState, status, seen, lost>>

\* A subscriber takes the next message.
Receive(s) ==
    /\ chan[s] # << >>
    /\ chan' = [chan EXCEPT ![s] = Tail(@)]
    /\ seen' = [seen EXCEPT ![s] = IF Head(chan[s]).type = "stats"
                                   THEN @ ELSE Head(chan[s]).snapshot]
    /\ UNCHANGED <<snapshots, merged, hasState, status, lost>>

Next ==
    \/ \E c \in Collector : \E update \in Offers[c] \union {Nil} : HandleUpdate(c, update)
    \/ HandleStats
    \/ \E s \in Sub : Subscribe(s) \/ Unsubscribe(s) \/ Receive(s)

Spec == Init /\ [][Next]_vars

----------------------------------------------------------------------------

TypeOK ==
    /\ snapshots \in [Collector -> Graph]
    /\ merged \in Graph
    /\ hasState \in BOOLEAN
    /\ status \in [Sub -> {"new", "open", "closed"}]
    /\ chan \in [Sub -> Seq(StateMessage)]
    /\ \A s \in Sub : Len(chan[s]) <= ChanCap
    /\ seen \in [Sub -> Graph]
    /\ lost \in [Sub -> BOOLEAN]

\* clearDanglingNetworkIDs and mergeEdges leave the merged graph consistent,
\* whichever of the two collectors reported last and whatever each left out:
\* no container names a network that is not there, no edge lacks an endpoint.
MergedWellFormed == WellFormed(merged)

\* A message takes a subscriber that shows graph g to the graph it carries.
Advances(g, msg) ==
    msg.type = "delta" => msg.delta = DiffSnapshots(g, msg.snapshot)

IsStateMsg(msg) == msg.type # "stats"
OnlyStatsBetween(q, i, j) == \A k \in i + 1 .. j - 1 : ~IsStateMsg(q[k])

\* The state messages of q, one after the other, take a subscriber from graph g to
\* graph m: each delta is the difference between the graph of the state message
\* before it and its own, and nothing diffSnapshots can tell is left between the
\* last one and m.
Chain(g, q, m) ==
    /\ \A j \in 1 .. Len(q) :
          IsStateMsg(q[j]) /\ OnlyStatsBetween(q, 0, j) => Advances(g, q[j])
    /\ \A i, j \in 1 .. Len(q) :
          i < j /\ IsStateMsg(q[i]) /\ IsStateMsg(q[j]) /\ OnlyStatsBetween(q, i, j)
            => Advances(q[i].snapshot, q[j])
    /\ OnlyStatsBetween(q, 0, Len(q) + 1) => SameToDiff(g, m)
    /\ \A i \in 1 .. Len(q) :
          IsStateMsg(q[i]) /\ OnlyStatsBetween(q, i, Len(q) + 1) => SameToDiff(q[i].snapshot, m)

\* What is buffered for a subscriber that lost nothing takes it from the graph it
\* last saw to the merged graph.  Subscribing in the middle of updates, a first
\* update that merges to nothing, stats in between and updates that change nothing
\* all keep the chain: this is why HandleUpdate sends under its lock.
FeedsChain ==
    \A s \in Sub : status[s] = "open" /\ ~lost[s] => Chain(seen[s], chan[s], merged)

\* A subscription not made yet has seen and lost nothing.
NewUntouched ==
    \A s \in Sub : status[s] = "new" => chan[s] = << >> /\ seen[s] = EmptyGraph /\ ~lost[s]

\* The inductive invariant.
Inv == TypeOK /\ MergedWellFormed /\ NewUntouched /\ FeedsChain

=============================================================================
