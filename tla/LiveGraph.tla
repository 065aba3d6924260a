----------------------------- MODULE LiveGraph -----------------------------
(***************************************************************************)
(* From the collectors' snapshots to what one browser shows: the state     *)
(* manager, the pipeToHub goroutine (backend/main.go), the hub, and the    *)
(* useDockGraph hook, which reconnects whenever its connection ends.       *)
(*                                                                         *)
(* `dropped' and `sync' are history, see below.                            *)
(***************************************************************************)
EXTENDS StateManager, GraphView

CONSTANTS Conn, SendCap, WireCap, PromptHandlers,
    MaxUpdates      \* bound: how many snapshots the collectors send

\* main subscribes the hub, and nobody else, once.
ASSUME LiveAssumption ==
    /\ \E s \in Sub : Sub = {s}
    /\ Nil \notin Conn

VARIABLES
    clients, current, closed, slots, handler, gift, writer, reader, socket,
    sendCh, wire, expired, bcast, sweep, closing,   \* the hub's
    updates,    \* how many snapshots the collectors sent
    page,       \* what the browser shows, and the fingerprint it keeps
    link,       \* the browser's connection, or Nil while it has none
    dropped,    \* history: the hub dropped a graph message for the connection
    sync        \* history of the current connection: "waiting" for its first graph
                \* message; then "synced" if that was a snapshot and the page shows
                \* it, "broken" if it was a delta or the page skipped the snapshot

hub == INSTANCE Hub WITH
    Key <- {"peer"}, KeyOf <- [c \in Conn |-> "peer"],
    MaxClients <- 0, MaxClientsPerKey <- 0, AuthOn <- FALSE

mgrVars == vars
hubButWire == <<clients, current, closed, slots, handler, gift, writer, reader, socket,
                sendCh, expired, bcast, sweep, closing>>
hubVars == <<hubButWire, wire>>
liveVars == <<updates, mgrVars, hubVars, page, link, dropped, sync>>

LiveInit ==
    /\ Init
    /\ updates = 0
    /\ hub!HubInit
    /\ page = FreshPage
    /\ link = Nil
    /\ dropped = {}
    /\ sync = "waiting"

----------------------------------------------------------------------------

\* The WireMessage of a state message: a delta travels without its snapshot.
WireMsg(msg) ==
    [type |-> msg.type, data |-> IF msg.type = "delta" THEN msg.delta ELSE msg.snapshot]

\* pipeUpdates: a collector's snapshot goes to the manager.
PipeUpdates ==
    /\ updates < MaxUpdates
    /\ updates' = updates + 1
    /\ \E c \in Collector : \E update \in Offers[c] : HandleUpdate(c, update)
    /\ UNCHANGED <<hubVars, page, link, dropped, sync>>

\* main subscribes the hub, then starts to serve.
MainSubscribe ==
    /\ \E s \in Sub : Subscribe(s)
    /\ UNCHANGED <<updates, hubVars, page, link, dropped, sync>>

\* pipeToHub: the next state message is broadcast.
PipeToHub ==
    \E s \in Sub :
        /\ Receive(s)
        /\ hub!Broadcast(WireMsg(Head(chan[s])), Head(chan[s]).snapshot)
        /\ UNCHANGED <<updates, page, link, dropped, sync>>

\* The hub's own steps, for connections the browser made.
HubStep(c) ==
    /\ hub!Register(c) \/ hub!StartPumps(c) \/ hub!Writer(c) \/ hub!StopReader(c)
    /\ UNCHANGED <<updates, mgrVars, page, link, dropped, sync>>

HubDeliver(c) ==
    /\ hub!Deliver("state", c)
    /\ dropped' = IF sendCh' = sendCh THEN dropped \union {c} ELSE dropped
    /\ UNCHANGED <<updates, mgrVars, page, link, sync>>

NetworkBreaks(c) ==
    /\ hub!PeerGone(c)
    /\ UNCHANGED <<updates, mgrVars, page, link, dropped, sync>>

----------------------------------------------------------------------------
(* The browser: connect, onmessage and onclose.                            *)

Connect ==
    /\ link = Nil
    /\ Subscribers # {}
    /\ \E c \in Conn : hub!HandleWS(c) /\ link' = c
    /\ sync' = "waiting"
    /\ UNCHANGED <<updates, mgrVars, page, dropped>>

\* The connection is down, and what it still held with it: the hook connects again
\* after its delay.
OnClose ==
    /\ link # Nil
    /\ socket[link] # "open"
    /\ link' = Nil
    /\ wire' = [wire EXCEPT ![link] = << >>]
    /\ UNCHANGED <<updates, mgrVars, hubButWire, page, dropped, sync>>

OnMessage ==
    /\ link # Nil
    /\ wire[link] # << >>
    /\ LET msg == Head(wire[link])
       IN  /\ page' = HandleMessage(page, msg)
           /\ sync' = IF sync # "waiting" THEN sync
                      ELSE IF msg.type = "snapshot" /\ Covers(page'.view, msg.data)
                      THEN "synced" ELSE "broken"
    /\ wire' = [wire EXCEPT ![link] = Tail(@)]
    /\ UNCHANGED <<updates, mgrVars, hubButWire, link, dropped>>

LiveNext ==
    \/ PipeUpdates \/ MainSubscribe \/ PipeToHub
    \/ \E c \in Conn : HubStep(c) \/ HubDeliver(c) \/ NetworkBreaks(c)
    \/ Connect \/ OnClose \/ OnMessage

LiveSpec == LiveInit /\ [][LiveNext]_liveVars

----------------------------------------------------------------------------

LiveTypeOK ==
    /\ updates \in 0 .. MaxUpdates
    /\ TypeOK
    /\ hub!HubTypeOK
    /\ page.view \in View
    /\ link \in Conn \union {Nil}
    /\ dropped \subseteq Conn
    /\ sync \in {"waiting", "synced", "broken"}

\* What the browser will show once it took every message now on its way: on the
\* connection, in its channel, being broadcast, and in the manager's channel.
Pending(c) ==
    wire[c] \o sendCh[c]
        \o (IF c \in bcast["state"].todo THEN <<bcast["state"].msg>> ELSE << >>)
InManager(s) == [i \in 1 .. Len(chan[s]) |-> WireMsg(chan[s][i])]
Replay(msgs) ==
    LET after[i \in 0 .. Len(msgs)] ==
            IF i = 0 THEN page ELSE HandleMessage(after[i - 1], msgs[i])
    IN  after[Len(msgs)].view

\* Nothing was dropped for the connection on the way, and it is up.
Lossless == link \notin dropped /\ (\A s \in Sub : ~lost[s])
Up == link # Nil /\ socket[link] = "open"

\* End to end: the messages on their way take what the page shows to the merged
\* graph, on a connection whose page showed its first snapshot and that lost
\* nothing; so once they are all taken the page shows every node and edge once,
\* with its current fields.  The two ways the code can break this are the two ways
\* `sync' can be broken, and a full channel.
PageConverges ==
    Up /\ sync = "synced" /\ Lossless =>
        \A s \in Sub : Covers(Replay(Pending(link) \o InManager(s)), merged)

\* And they are taken: once the collectors have nothing new, a page on a connection
\* that stays up and lost nothing ends up showing the merged graph.
PageCatchesUp == <>[](Up /\ sync = "synced" /\ Lossless => Covers(page.view, merged))

\* The snapshot the hub hands new connections follows the manager by deltas alone:
\* with nothing left in the manager's channel it is the merged graph, as far as
\* diffSnapshots tells, even when the hub's clients missed messages.
CurrentFollows ==
    current # Nil => \A s \in Sub : ~lost[s] /\ chan[s] = << >> => SameToDiff(current, merged)

\* Both hold whatever comes, goes and breaks on the way: what is on its way to a page,
\* and what the next page will start from, lead to the merged graph.
PageFollows == PageConverges /\ CurrentFollows

TakesSnapshot(c) ==
    /\ link = c /\ link' = c
    /\ wire[c] # << >> /\ wire'[c] = Tail(wire[c])
    /\ Head(wire[c]).type = "snapshot"

\* "Prevents redundant re-renders when the WebSocket pushes a snapshot that is
\* structurally identical to what we already have" (deltaUtils.ts:17-18): after a
\* snapshot, applied or skipped as redundant, the page shows what it says of nodes,
\* statuses, networks and edges.
SnapshotShown ==
    [][\A c \in Conn :
          TakesSnapshot(c) => Shows(page'.view, Head(wire[c]).data, {"status", "networkId"})]_liveVars

=============================================================================
