-------------------------------- MODULE Hub --------------------------------
(***************************************************************************)
(* backend/api/ws.go: the WebSocket hub.  One connection is served by      *)
(* three goroutines in turn: the HTTP handler (HandleWS) takes a slot,     *)
(* registers the client under the hub's lock and, after the lock, puts the *)
(* current snapshot in the client's channel; then a writer and a reader    *)
(* pump run until the connection ends.  Meanwhile two goroutines broadcast *)
(* (state messages and stats), one sweeps expired sessions, and the main   *)
(* goroutine shuts the hub down.                                           *)
(*                                                                         *)
(* An action is what one goroutine does between two points where another   *)
(* can see it: a critical section, or one send on a channel.               *)
(***************************************************************************)
EXTENDS Sequences, FiniteSets, SlotLimiter

CONSTANTS
    Conn,               \* connections: each is one upgraded request
    Key, KeyOf,         \* the client address a connection is counted under
    MaxClients,         \* Hub.MaxClients (128)
    MaxClientsPerKey,   \* Hub.MaxClientsPerKey (16)
    SendCap,            \* capacity of a client's channel (32)
    WireCap,            \* bound: messages a connection buffers for its peer
    AuthOn,             \* sessions are checked: CheckExpired is set
    PromptHandlers,     \* see Deliver
    Nil                 \* a nil pointer, and no message

ASSUME HubAssumption ==
    /\ IsFiniteSet(Conn)
    /\ KeyOf \in [Conn -> Key]
    /\ MaxClients \in Int
    /\ MaxClientsPerKey \in Int
    /\ SendCap \in Nat \ {0}
    /\ WireCap \in Nat \ {0}
    /\ AuthOn \in BOOLEAN
    /\ PromptHandlers \in BOOLEAN

VARIABLES
    clients,    \* the registered clients
    current,    \* the snapshot of the last broadcast, or Nil
    closed,     \* Shutdown was called
    slots,      \* the slot limiter's counts
    handler,    \* per connection, how far HandleWS got
    gift,       \* per connection, the snapshot HandleWS read under the lock and has to send
    writer,     \* per connection, the write pump
    reader,     \* per connection, the read pump
    socket,     \* per connection: open, gone (the peer left or hangs), closed
    sendCh,     \* per connection, the messages waiting for the writer
    wire,       \* per connection, the messages sent on it, stats left out
    expired,    \* the connections whose session expired or was logged out
    bcast,      \* per broadcasting goroutine, its message and who is still to get it
    sweep,      \* the expired clients the running sweep has still to tell
    closing     \* the connections a goroutine is about to close

hubVars == <<clients, current, closed, slots, handler, gift, writer, reader, socket,
             sendCh, wire, expired, bcast, sweep, closing>>

----------------------------------------------------------------------------

Broadcaster == {"state", "stats"}

SnapshotMsg(snapshot) == [type |-> "snapshot", data |-> snapshot]
StatsMsg == [type |-> "stats", data |-> Nil]
AuthExpiredMsg == [type |-> "auth_expired", data |-> Nil]

HubInit ==
    /\ clients = {} /\ current = Nil /\ closed = FALSE
    /\ slots = FreeSlots(Key)
    /\ handler = [c \in Conn |-> "none"]
    /\ gift = [c \in Conn |-> Nil]
    /\ writer = [c \in Conn |-> "off"]
    /\ reader = [c \in Conn |-> "off"]
    /\ socket = [c \in Conn |-> "closed"]
    /\ sendCh = [c \in Conn |-> << >>]
    /\ wire = [c \in Conn |-> << >>]
    /\ expired = {}
    /\ bcast = [b \in Broadcaster |-> [msg |-> Nil, todo |-> {}]]
    /\ sweep = {} /\ closing = {}

\* select { case ch <- msg: default: } : a full channel drops the message, and
\* nobody reads the channel of an exited writer any more.
HasRoom(c) == Len(sendCh[c]) < SendCap
TrySend(c, msg) ==
    sendCh' = IF HasRoom(c) /\ writer[c] # "exited"
              THEN [sendCh EXCEPT ![c] = Append(@, msg)] ELSE sendCh

----------------------------------------------------------------------------
(* HandleWS, in its three steps.                                           *)

\* The upgrade, and a slot or the "too many connections" close.
HandleWS(c) ==
    /\ handler[c] = "none"
    /\ IF CanAcquire(slots, KeyOf[c], MaxClients, MaxClientsPerKey)
       THEN /\ slots' = Acquire(slots, KeyOf[c])
            /\ handler' = [handler EXCEPT ![c] = "admitted"]
            /\ socket' = [socket EXCEPT ![c] = "open"]
       ELSE /\ handler' = [handler EXCEPT ![c] = "refused"]
            /\ UNCHANGED <<slots, socket>>
    /\ UNCHANGED <<clients, current, closed, gift, writer, reader, sendCh,
                   wire, expired, bcast, sweep, closing>>

\* Mutant: a client turned away by a closed hub keeps its slot.
RegisterLeaksSlot(c) ==
    /\ handler[c] = "admitted"
    /\ clients' = IF closed THEN clients ELSE clients \union {c}
    /\ gift' = IF closed THEN gift ELSE [gift EXCEPT ![c] = current]
    /\ handler' = [handler EXCEPT ![c] = IF closed THEN "refused" ELSE "registered"]
    /\ socket' = [socket EXCEPT ![c] = IF closed THEN "closed" ELSE @]
    /\ UNCHANGED <<current, closed, slots, writer, reader, sendCh, wire, expired,
                   bcast, sweep, closing>>

\* Mutant: a closed hub takes new clients.
RegisterWhenClosed(c) ==
    /\ handler[c] = "admitted"
    /\ clients' = clients \union {c}
    /\ gift' = [gift EXCEPT ![c] = current]
    /\ handler' = [handler EXCEPT ![c] = "registered"]
    /\ UNCHANGED <<current, closed, slots, writer, reader, socket, sendCh, wire, expired,
                   bcast, sweep, closing>>

\* Under the hub's lock: a closed hub turns the client away.
Register(c) ==
    /\ handler[c] = "admitted"
    /\ IF closed
       THEN /\ slots' = Release(slots, KeyOf[c])
            /\ socket' = [socket EXCEPT ![c] = "closed"]
            /\ handler' = [handler EXCEPT ![c] = "refused"]
            /\ UNCHANGED <<clients, gift>>
       ELSE /\ clients' = clients \union {c}
            /\ gift' = [gift EXCEPT ![c] = current]
            /\ handler' = [handler EXCEPT ![c] = "registered"]
            /\ UNCHANGED <<slots, socket>>
    /\ UNCHANGED <<current, closed, writer, reader, sendCh, wire, expired,
                   bcast, sweep, closing>>

\* Mutant: the snapshot is read after the lock, when it is sent.
StartPumpsLateRead(c) ==
    /\ handler[c] = "registered"
    /\ IF current = Nil
       THEN UNCHANGED sendCh
       ELSE HasRoom(c) /\ sendCh' = [sendCh EXCEPT ![c] = Append(@, SnapshotMsg(current))]
    /\ handler' = [handler EXCEPT ![c] = "started"]
    /\ writer' = [writer EXCEPT ![c] = "running"]
    /\ reader' = [reader EXCEPT ![c] = "running"]
    /\ gift' = [gift EXCEPT ![c] = Nil]
    /\ UNCHANGED <<clients, current, closed, slots, socket, wire, expired,
                   bcast, sweep, closing>>

\* After the lock: the send of the snapshot blocks while the channel is full,
\* and nobody drains it before the pumps start.
StartPumps(c) ==
    /\ handler[c] = "registered"
    /\ IF gift[c] = Nil
       THEN UNCHANGED sendCh
       ELSE HasRoom(c) /\ sendCh' = [sendCh EXCEPT ![c] = Append(@, SnapshotMsg(gift[c]))]
    /\ handler' = [handler EXCEPT ![c] = "started"]
    /\ writer' = [writer EXCEPT ![c] = "running"]
    /\ reader' = [reader EXCEPT ![c] = "running"]
    /\ gift' = [gift EXCEPT ![c] = Nil]
    /\ UNCHANGED <<clients, current, closed, slots, socket, wire, expired,
                   bcast, sweep, closing>>

----------------------------------------------------------------------------
(* The pumps of a connection.                                              *)

\* A write waits for room on the connection.  One to a connection whose peer is
\* gone may still succeed; one to a closed connection fails (StopWriter).
WriteMessage(c) ==
    /\ writer[c] = "running"
    /\ sendCh[c] # << >>
    /\ socket[c] # "closed"
    /\ Len(wire[c]) < WireCap
    /\ sendCh' = [sendCh EXCEPT ![c] = Tail(@)]
    /\ wire' = IF Head(sendCh[c]) = StatsMsg THEN wire
               ELSE [wire EXCEPT ![c] = Append(@, Head(sendCh[c]))]
    /\ UNCHANGED <<clients, current, closed, slots, handler, gift, writer, reader,
                   socket, expired, bcast, sweep, closing>>

\* Mutant: the writer exits once its channel is drained.
StopWriterDrained(c) ==
    /\ writer[c] = "running"
    /\ reader[c] = "exited" \/ socket[c] # "open"
    /\ sendCh[c] = << >>
    /\ writer' = [writer EXCEPT ![c] = "exited"]
    /\ socket' = [socket EXCEPT ![c] = "closed"]
    /\ slots' = Release(slots, KeyOf[c])
    /\ UNCHANGED <<clients, current, closed, handler, gift, reader, sendCh, wire,
                   expired, bcast, sweep, closing>>

\* A failed write or ping, or the reader's done signal.  Only now is the slot
\* free: until then the connection may hold a message in memory.
StopWriter(c) ==
    /\ writer[c] = "running"
    /\ reader[c] = "exited" \/ socket[c] # "open"
    /\ writer' = [writer EXCEPT ![c] = "exited"]
    /\ socket' = [socket EXCEPT ![c] = "closed"]
    /\ slots' = Release(slots, KeyOf[c])
    /\ sendCh' = [sendCh EXCEPT ![c] = << >>]
    /\ UNCHANGED <<clients, current, closed, handler, gift, reader, wire,
                   expired, bcast, sweep, closing>>

\* A read error: the peer left, missed its pongs, or the server closed the
\* connection.  The client is unregistered and the writer told to stop.
StopReader(c) ==
    /\ reader[c] = "running"
    /\ socket[c] # "open"
    /\ reader' = [reader EXCEPT ![c] = "exited"]
    /\ clients' = clients \ {c}
    /\ UNCHANGED <<current, closed, slots, handler, gift, writer, socket, sendCh,
                   wire, expired, bcast, sweep, closing>>

\* External: the peer closes, crashes, or stops reading and answering pings.
PeerGone(c) ==
    /\ socket[c] = "open"
    /\ socket' = [socket EXCEPT ![c] = "gone"]
    /\ UNCHANGED <<clients, current, closed, slots, handler, gift, writer, reader,
                   sendCh, wire, expired, bcast, sweep, closing>>

----------------------------------------------------------------------------
(* Broadcasts.  Each broadcasting goroutine is sequential: it starts its   *)
(* next message when the last one was offered to every client.             *)

Idle(b) == bcast[b].todo = {}
Job(msg, todo) == [msg |-> IF todo = {} THEN Nil ELSE msg, todo |-> todo]

\* Mutant: only full snapshots are kept for the next clients.
BroadcastKeepsFirst(msg, snapshot) ==
    /\ Idle("state")
    /\ current' = IF msg.type = "snapshot" THEN snapshot ELSE current
    /\ bcast' = [bcast EXCEPT !["state"] = Job(msg, clients)]
    /\ UNCHANGED <<clients, closed, slots, handler, gift, writer, reader, socket,
                   sendCh, wire, expired, sweep, closing>>

\* Broadcast, under the lock: store the snapshot and copy the client list.
Broadcast(msg, snapshot) ==
    /\ Idle("state")
    /\ current' = IF snapshot = Nil THEN current ELSE snapshot
    /\ bcast' = [bcast EXCEPT !["state"] = Job(msg, clients)]
    /\ UNCHANGED <<clients, closed, slots, handler, gift, writer, reader, socket,
                   sendCh, wire, expired, sweep, closing>>

\* BroadcastStats: snapshotClients copies the client list under the read lock.
BroadcastStats ==
    /\ Idle("stats")
    /\ bcast' = [bcast EXCEPT !["stats"] = Job(StatsMsg, clients)]
    /\ UNCHANGED <<clients, current, closed, slots, handler, gift, writer, reader,
                   socket, sendCh, wire, expired, sweep, closing>>

\* With PromptHandlers, a handler gets from its critical section to its send
\* before broadcasts fill the new channel: that takes SendCap messages, 32 in the
\* code, within a few of the handler's instructions.
Prompt(c) ==
    PromptHandlers /\ handler[c] = "registered" => Len(sendCh[c]) < SendCap - 1

\* The loop after the lock offers the message to one client of the copy.
Deliver(b, c) ==
    /\ c \in bcast[b].todo
    /\ Prompt(c)
    /\ TrySend(c, bcast[b].msg)
    /\ bcast' = [bcast EXCEPT ![b] = Job(@.msg, @.todo \ {c})]
    /\ UNCHANGED <<clients, current, closed, slots, handler, gift, writer, reader,
                   socket, wire, expired, sweep, closing>>

----------------------------------------------------------------------------
(* The session sweep and the shutdown.                                     *)

\* The session of a client's cookie runs out, or its user logs out.  Only the
\* sweep looks, and only at registered clients.
Expire(c) ==
    /\ AuthOn
    /\ c \in clients
    /\ expired' = expired \union {c}
    /\ UNCHANGED <<clients, current, closed, slots, handler, gift, writer, reader,
                   socket, sendCh, wire, bcast, sweep, closing>>

\* SweepExpiredClients, under the read lock: list the expired clients.  Sweeps are
\* 30 seconds apart, the connections of the last one closed 100 ms after it.
SweepExpiredClients ==
    /\ AuthOn
    /\ sweep = {} /\ closing = {}
    /\ sweep' = clients \intersect expired
    /\ UNCHANGED <<clients, current, closed, slots, handler, gift, writer, reader,
                   socket, sendCh, wire, expired, bcast, closing>>

\* Mutant: a client whose channel is full is left alone.
TellExpiredIfRoom(c) ==
    /\ c \in sweep
    /\ Prompt(c)
    /\ TrySend(c, AuthExpiredMsg)
    /\ sweep' = sweep \ {c}
    /\ closing' = IF HasRoom(c) THEN closing \union {c} ELSE closing
    /\ UNCHANGED <<clients, current, closed, slots, handler, gift, writer, reader,
                   socket, wire, expired, bcast>>

\* Tell one of them, if there is room, and have a goroutine close it.
TellExpired(c) ==
    /\ c \in sweep
    /\ Prompt(c)
    /\ TrySend(c, AuthExpiredMsg)
    /\ sweep' = sweep \ {c}
    /\ closing' = closing \union {c}
    /\ UNCHANGED <<clients, current, closed, slots, handler, gift, writer, reader,
                   socket, wire, expired, bcast>>

\* Shutdown, under the lock; a goroutine per client then closes it.
Shutdown ==
    /\ ~closed
    /\ closed' = TRUE
    /\ closing' = closing \union clients
    /\ UNCHANGED <<clients, current, slots, handler, gift, writer, reader, socket,
                   sendCh, wire, expired, bcast, sweep>>

CloseConn(c) ==
    /\ c \in closing
    /\ closing' = closing \ {c}
    /\ socket' = [socket EXCEPT ![c] = "closed"]
    /\ UNCHANGED <<clients, current, closed, slots, handler, gift, writer, reader,
                   sendCh, wire, expired, bcast, sweep>>

----------------------------------------------------------------------------

Writer(c) == WriteMessage(c) \/ StopWriter(c)

ConnNext(c) ==
    \/ HandleWS(c) \/ Register(c) \/ StartPumps(c)
    \/ Writer(c) \/ StopReader(c) \/ PeerGone(c)
    \/ Expire(c) \/ TellExpired(c) \/ CloseConn(c)
    \/ \E b \in Broadcaster : Deliver(b, c)

\* Every step but the start of a state broadcast.
HubNext ==
    \/ \E c \in Conn : ConnNext(c)
    \/ BroadcastStats
    \/ SweepExpiredClients
    \/ Shutdown

\* The scheduler runs every goroutine; the peers, the sessions and the end of
\* the process are not the hub's to schedule.  The read deadline and failing pings
\* end a connection whose peer is gone; a sweep starts every 30 seconds.
HubFairness ==
    /\ \A c \in Conn :
          /\ WF_hubVars(Register(c)) /\ WF_hubVars(StartPumps(c))
          /\ WF_hubVars(Writer(c)) /\ WF_hubVars(StopReader(c))
          /\ WF_hubVars(TellExpired(c)) /\ WF_hubVars(CloseConn(c))
          /\ \A b \in Broadcaster : WF_hubVars(Deliver(b, c))
    /\ WF_hubVars(SweepExpiredClients)

----------------------------------------------------------------------------

HubTypeOK ==
    /\ clients \subseteq Conn
    /\ closed \in BOOLEAN
    /\ slots \in Slots(Key)
    /\ handler \in [Conn -> {"none", "admitted", "registered", "started", "refused"}]
    /\ writer \in [Conn -> {"off", "running", "exited"}]
    /\ reader \in [Conn -> {"off", "running", "exited"}]
    /\ socket \in [Conn -> {"open", "gone", "closed"}]
    /\ \A c \in Conn : Len(sendCh[c]) <= SendCap
    /\ expired \subseteq Conn
    /\ \A b \in Broadcaster : bcast[b].todo \subseteq Conn
    /\ sweep \subseteq Conn
    /\ closing \subseteq Conn

\* The connections that hold a slot: from HandleWS's acquire until the handler
\* gives up or the writer has exited.
Holds(c) == handler[c] \in {"admitted", "registered"} \/ writer[c] = "running"
Holders == {c \in Conn : Holds(c)}
HoldersOf(k) == {c \in Holders : KeyOf[c] = k}

\* Every successful acquire is paired with one release (limits.go:75-76): the
\* limiter's counts are the connections alive, whichever of the handler, the
\* reader, the writer, a sweep and a shutdown ends one and in whatever order.  A
\* slot released twice would let connections past the bounds.
SlotAccounting ==
    /\ slots.total = Cardinality(Holders)
    /\ \A k \in Key : slots.perClient[k] = Cardinality(HoldersOf(k))

\* The hub implements Admission: never more connections than MaxClients, nor more
\* of one client address than MaxClientsPerKey, counted on the connections
\* themselves; and "after Shutdown, the hub rejects new connections" (ws.go:275).
Gate == INSTANCE Admission WITH served <- Holders
ImplementsAdmission == Gate!Spec

\* Shutdown ends every connection and gives every slot back, including those whose
\* handler was between its acquire and its pumps (ws.go:273-275).
ShutdownDrains == closed ~> (clients = {} /\ Holders = {})

\* A client whose session expired is disconnected, whatever it is doing.
ExpiredDisconnected == \A c \in Conn : c \in expired /\ c \in clients ~> c \notin clients

\* A peer that left gives its slot back, its message in the writer or not.
GoneReleases == \A c \in Conn : socket[c] = "gone" ~> ~Holds(c)

\* No connection outlasts its peer or its session.
ConnectionsEnd == ExpiredDisconnected /\ GoneReleases
=============================================================================
