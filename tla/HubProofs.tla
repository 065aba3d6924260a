----------------------------- MODULE HubProofs -----------------------------
(***************************************************************************)
(* Proofs about the hub and its feed, for any connections and bounds: the  *)
(* types, that the slot limiter counts the connections alive, that the hub *)
(* implements Admission, and that no client misses a version.              *)
(***************************************************************************)
EXTENDS HubFeed, FiniteSetTheorems, SequenceTheorems, TLAPS

\* The messages a connection can be sent.
SnapshotVersion == 1 .. MaxVersion
Msg ==
    {StatsMsg, AuthExpiredMsg}
        \union {SnapshotMsg(v) : v \in SnapshotVersion}
        \union {StateMsg(v) : v \in SnapshotVersion}

\* The connections the hub has, or had, among its clients.
Known == {c \in Conn : handler[c] \in {"registered", "started"}}

\* The types of the hub's variables, those HubTypeOK leaves open included.
HubTyped ==
    /\ HubTypeOK
    /\ current \in {Nil} \union SnapshotVersion
    /\ gift \in [Conn -> {Nil} \union SnapshotVersion]
    /\ sendCh \in [Conn -> Seq(Msg)]
    /\ wire \in [Conn -> Seq(Msg)]
    /\ bcast \in [Broadcaster -> [msg : Msg \union {Nil}, todo : SUBSET Conn]]
    /\ \A b \in Broadcaster : bcast[b].todo # {} => bcast[b].msg \in Msg

Typed ==
    /\ HubTyped
    /\ version \in 0 .. MaxVersion
    /\ start \in [Conn -> 0 .. MaxVersion]
    /\ dropped \subseteq Conn

\* How far the handler got tells what runs: the pumps start last, and nobody but
\* the handler knows of a connection before it is registered.
Staged ==
    /\ \A c \in Conn : handler[c] = "started" <=> writer[c] # "off"
    /\ clients \subseteq Known
    /\ \A b \in Broadcaster : bcast[b].todo \subseteq Known
    /\ sweep \subseteq Known

\* The inductive invariant behind the slot counts.
HubInv == Typed /\ Staged /\ SlotAccounting

----------------------------------------------------------------------------
(* Types.                                                                  *)

\* The messages the hub sends are messages.
LEMMA MsgHas ==
    /\ StatsMsg \in Msg /\ AuthExpiredMsg \in Msg
    /\ \A v \in SnapshotVersion : SnapshotMsg(v) \in Msg /\ StateMsg(v) \in Msg
BY DEF Msg

\* slotLimiter.acquire and release leave counts.
LEMMA SlotsStay ==
    ASSUME NEW s \in Slots(Key), NEW k \in Key
    PROVE  Acquire(s, k) \in Slots(Key) /\ Release(s, k) \in Slots(Key)
BY DEF Slots, Acquire, Release

\* An offer to a client keeps its channel within its capacity.
LEMMA TrySendTyped ==
    ASSUME HubTyped, NEW c \in Conn, NEW m \in Msg, TrySend(c, m)
    PROVE  sendCh' \in [Conn -> Seq(Msg)] /\ \A d \in Conn : Len(sendCh'[d]) <= SendCap
<1>1. CASE sendCh' = sendCh
  BY <1>1 DEF HubTyped, HubTypeOK
<1>2. CASE HasRoom(c) /\ sendCh' = [sendCh EXCEPT ![c] = Append(@, m)]
  <2>1. sendCh[c] \in Seq(Msg) /\ Len(sendCh[c]) < SendCap
    BY <1>2 DEF HubTyped, HasRoom
  <2>2. Append(sendCh[c], m) \in Seq(Msg) /\ Len(Append(sendCh[c], m)) = Len(sendCh[c]) + 1
    BY <2>1, AppendProperties
  <2>3. Len(Append(sendCh[c], m)) <= SendCap
    BY <2>1, <2>2, LenProperties, HubAssumption
  <2> QED
    BY <1>2, <2>2, <2>3 DEF HubTyped, HubTypeOK
<1> QED
  BY <1>1, <1>2 DEF TrySend

\* Nothing is connected, sent or counted before the first request.
LEMMA InitTyped == Init => Typed
<1> SUFFICES ASSUME Init PROVE Typed
  OBVIOUS
<1>1. HubTypeOK
  <2>1. FreeSlots(Key) \in Slots(Key)
    BY DEF FreeSlots, Slots
  <2>2. Len(<< >>) <= SendCap
    BY HubAssumption
  <2> QED
    BY <2>1, <2>2 DEF Init, HubInit, HubTypeOK
<1> QED
  BY <1>1, FeedAssumption DEF Init, HubInit, Typed, HubTyped

\* Each step of the hub keeps the types of its variables.
LEMMA HubStepTyped == HubTyped /\ HubNext => HubTyped'
<1> SUFFICES ASSUME HubTyped, HubNext PROVE HubTyped'
  OBVIOUS
<1> USE HubAssumption, MsgHas
<1>1. ASSUME NEW c \in Conn, HandleWS(c) PROVE HubTyped'
  <2>1. Acquire(slots, KeyOf[c]) \in Slots(Key)
    BY SlotsStay DEF HubTyped, HubTypeOK
  <2> QED
    BY <1>1, <2>1 DEF HubTyped, HubTypeOK, HandleWS
<1>2. ASSUME NEW c \in Conn, Register(c) PROVE HubTyped'
  <2>1. Release(slots, KeyOf[c]) \in Slots(Key)
    BY SlotsStay DEF HubTyped, HubTypeOK
  <2>2. gift' \in [Conn -> {Nil} \union SnapshotVersion]
    BY <1>2 DEF HubTyped, Register
  <2>3. slots' \in Slots(Key)
    BY <1>2, <2>1 DEF HubTyped, HubTypeOK, Register
  <2>4. HubTypeOK'
    <3>1. CASE closed
      BY <1>2, <2>3, <3>1 DEF HubTyped, HubTypeOK, Register
    <3>2. CASE ~closed
      <4>1. clients' = clients \union {c} /\ handler' = [handler EXCEPT ![c] = "registered"]
        BY <1>2, <3>2 DEF Register
      <4>2. UNCHANGED <<closed, slots, writer, reader, socket, sendCh, expired, bcast, sweep, closing>>
        BY <1>2, <3>2 DEF Register
      <4> QED
        BY <4>1, <4>2 DEF HubTyped, HubTypeOK
    <3> QED
      BY <3>1, <3>2
  <2> QED
    BY <1>2, <2>2, <2>4 DEF HubTyped, Register
<1>3. ASSUME NEW c \in Conn, StartPumps(c) PROVE HubTyped'
  <2>1. sendCh' \in [Conn -> Seq(Msg)] /\ \A d \in Conn : Len(sendCh'[d]) <= SendCap
    <3>1. CASE gift[c] = Nil
      BY <1>3, <3>1 DEF HubTyped, HubTypeOK, StartPumps
    <3>2. CASE gift[c] # Nil
      <4>1. SnapshotMsg(gift[c]) \in Msg
        BY <3>2 DEF HubTyped
      <4>2. TrySend(c, SnapshotMsg(gift[c])) \/ writer[c] = "exited"
        BY <1>3, <3>2 DEF StartPumps, TrySend
      <4>3. sendCh[c] \in Seq(Msg) /\ Len(sendCh[c]) < SendCap
        BY <1>3, <3>2 DEF HubTyped, HasRoom, StartPumps
      <4>4. /\ Append(sendCh[c], SnapshotMsg(gift[c])) \in Seq(Msg)
            /\ Len(Append(sendCh[c], SnapshotMsg(gift[c]))) = Len(sendCh[c]) + 1
        BY <4>1, <4>3, AppendProperties
      <4>5. Len(Append(sendCh[c], SnapshotMsg(gift[c]))) <= SendCap
        BY <4>3, <4>4, LenProperties
      <4> QED
        BY <1>3, <3>2, <4>4, <4>5 DEF HubTyped, HubTypeOK, StartPumps
    <3> QED
      BY <3>1, <3>2
  <2> QED
    BY <1>3, <2>1 DEF HubTyped, HubTypeOK, StartPumps
<1>4. ASSUME NEW c \in Conn, WriteMessage(c) PROVE HubTyped'
  <2>1. /\ Head(sendCh[c]) \in Msg /\ Tail(sendCh[c]) \in Seq(Msg)
        /\ Len(Tail(sendCh[c])) <= SendCap
    <3>1. sendCh[c] \in Seq(Msg) /\ sendCh[c] # << >> /\ Len(sendCh[c]) <= SendCap
      BY <1>4 DEF WriteMessage, HubTyped, HubTypeOK
    <3> QED
      BY <3>1, HeadTailProperties, LenProperties
  <2>2. Append(wire[c], Head(sendCh[c])) \in Seq(Msg)
    BY <2>1, AppendProperties DEF HubTyped
  <2> QED
    BY <1>4, <2>1, <2>2 DEF HubTyped, HubTypeOK, WriteMessage
<1>5. ASSUME NEW c \in Conn, StopWriter(c) PROVE HubTyped'
  <2>1. Release(slots, KeyOf[c]) \in Slots(Key)
    BY SlotsStay DEF HubTyped, HubTypeOK
  <2>2. << >> \in Seq(Msg) /\ Len(<< >>) = 0
    OBVIOUS
  <2> QED
    BY <1>5, <2>1, <2>2 DEF HubTyped, HubTypeOK, StopWriter
<1>6. ASSUME NEW c \in Conn, StopReader(c) \/ PeerGone(c) \/ Expire(c) \/ CloseConn(c)
      PROVE  HubTyped'
  BY <1>6 DEF HubTyped, HubTypeOK, StopReader, PeerGone, Expire, CloseConn
<1>7. ASSUME NEW c \in Conn, TellExpired(c) PROVE HubTyped'
  <2>1. sendCh' \in [Conn -> Seq(Msg)] /\ \A d \in Conn : Len(sendCh'[d]) <= SendCap
    BY <1>7, TrySendTyped DEF TellExpired
  <2> QED
    BY <1>7, <2>1 DEF HubTyped, HubTypeOK, TellExpired
<1>8. ASSUME NEW c \in Conn, NEW b \in Broadcaster, Deliver(b, c) PROVE HubTyped'
  <2>1. bcast[b].msg \in Msg /\ bcast[b].todo \subseteq Conn
    BY <1>8 DEF HubTyped, HubTypeOK, Deliver
  <2>2. sendCh' \in [Conn -> Seq(Msg)] /\ \A d \in Conn : Len(sendCh'[d]) <= SendCap
    BY <1>8, <2>1, TrySendTyped DEF Deliver
  <2>3. bcast' = [bcast EXCEPT ![b] = Job(bcast[b].msg, bcast[b].todo \ {c})]
    BY <1>8 DEF Deliver, HubTyped
  <2> QED
    BY <1>8, <2>1, <2>2, <2>3 DEF HubTyped, HubTypeOK, Deliver, Job
<1>9. CASE BroadcastStats
  BY <1>9 DEF HubTyped, HubTypeOK, BroadcastStats, Job, Broadcaster
<1>10. CASE SweepExpiredClients \/ Shutdown
  BY <1>10 DEF HubTyped, HubTypeOK, SweepExpiredClients, Shutdown
<1> QED
  BY <1>1, <1>2, <1>3, <1>4, <1>5, <1>6, <1>7, <1>8, <1>9, <1>10 DEF HubNext, ConnNext, Writer

\* Each step of the feed keeps the types.
LEMMA StepTyped == Typed /\ [Next]_vars => Typed'
<1> SUFFICES ASSUME Typed, [Next]_vars PROVE Typed'
  OBVIOUS
<1>1. CASE UNCHANGED vars
  BY <1>1 DEF vars, hubVars, Typed, HubTyped, HubTypeOK
<1>2. CASE Next
  <2>1. HubTyped' /\ version' \in 0 .. MaxVersion
    <3>1. CASE HubNext /\ UNCHANGED version
      BY <3>1, HubStepTyped DEF Typed
    <3>2. CASE PipeToHub
      <4>1. version' \in SnapshotVersion /\ version' # Nil
        BY <3>2, FeedAssumption DEF PipeToHub, Typed, SnapshotVersion
      <4>2. StateMsg(version') \in Msg
        BY <4>1, MsgHas
      <4>3. Broadcast(StateMsg(version'), version')
        BY <3>2 DEF PipeToHub
      <4>4. /\ current' \in {Nil} \union SnapshotVersion
            /\ bcast' \in [Broadcaster -> [msg : Msg \union {Nil}, todo : SUBSET Conn]]
            /\ \A b \in Broadcaster : bcast'[b].todo # {} => bcast'[b].msg \in Msg
            /\ \A b \in Broadcaster : bcast'[b].todo \subseteq Conn
        BY <4>1, <4>2, <4>3 DEF Broadcast, Job, Typed, HubTyped, HubTypeOK
      <4>5. HubTyped'
        BY <4>3, <4>4 DEF Broadcast, Typed, HubTyped, HubTypeOK
      <4> QED
        BY <4>1, <4>5 DEF SnapshotVersion
    <3> QED
      BY <1>2, <3>1, <3>2 DEF Next
  <2>2. start' \in [Conn -> 0 .. MaxVersion]
    BY <1>2 DEF Next, History, Typed
  <2>3. dropped' \subseteq Conn
    BY <1>2 DEF Next, History, DroppedNow, Typed, HubTyped, HubTypeOK, Broadcaster
  <2> QED
    BY <2>1, <2>2, <2>3 DEF Typed
<1> QED
  BY <1>1, <1>2

\* TypeOK: no client's channel ever exceeds its capacity (ws.go:264-271), and the hub's
\* and the feed's variables stay in their sets.
THEOREM TypeCorrect == Spec => []TypeOK
<1>1. Typed => TypeOK
  BY DEF Typed, HubTyped, TypeOK
<1> QED
  BY <1>1, InitTyped, StepTyped, PTL DEF Spec

----------------------------------------------------------------------------
(* The slots.                                                              *)

\* The writer runs only behind a started handler, and who a broadcast or a sweep still
\* has to reach was registered.
LEMMA StepStaged == HubTyped /\ Staged /\ [HubNext]_hubVars => Staged'
<1> SUFFICES ASSUME HubTyped, Staged, [HubNext]_hubVars PROVE Staged'
  OBVIOUS
<1> USE DEF Known
<1>1. CASE UNCHANGED hubVars
  BY <1>1 DEF hubVars, Staged
<1>2. ASSUME NEW c \in Conn, HandleWS(c) PROVE Staged'
  <2>1. /\ \E h \in {"admitted", "refused"} : handler' = [handler EXCEPT ![c] = h]
        /\ handler[c] = "none"
        /\ UNCHANGED <<writer, clients, bcast, sweep>>
    BY <1>2 DEF HandleWS
  <2> QED
    BY <2>1 DEF HubTyped, HubTypeOK, Staged
<1>3. ASSUME NEW c \in Conn, Register(c) PROVE Staged'
  <2>1. /\ \/ handler' = [handler EXCEPT ![c] = "refused"] /\ UNCHANGED clients
           \/ handler' = [handler EXCEPT ![c] = "registered"] /\ clients' = clients \union {c}
        /\ handler[c] = "admitted"
        /\ UNCHANGED <<writer, bcast, sweep>>
    BY <1>3 DEF Register
  <2>2. Known \subseteq Known' /\ clients' \subseteq Known'
    <3>1. \A d \in Conn \ {c} : handler'[d] = handler[d]
      BY <2>1 DEF HubTyped, HubTypeOK
    <3>2. c \notin Known /\ clients \subseteq Known
      BY <2>1 DEF Staged
    <3>3. \/ handler'[c] = "refused" /\ UNCHANGED clients
          \/ handler'[c] = "registered" /\ clients' = clients \union {c}
      BY <2>1 DEF HubTyped, HubTypeOK
    <3> QED
      BY <3>1, <3>2, <3>3
  <2>3. \A d \in Conn : handler'[d] = "started" <=> handler[d] = "started"
    BY <2>1 DEF HubTyped, HubTypeOK
  <2> QED
    BY <2>1, <2>2, <2>3 DEF Staged
<1>4. ASSUME NEW c \in Conn, StartPumps(c) PROVE Staged'
  BY <1>4 DEF HubTyped, HubTypeOK, Staged, StartPumps
<1>5. ASSUME NEW c \in Conn,
             WriteMessage(c) \/ PeerGone(c) \/ Expire(c) \/ CloseConn(c) \/ StopReader(c)
      PROVE  Staged'
  BY <1>5 DEF Staged, WriteMessage, PeerGone, Expire, CloseConn, StopReader
<1>6. ASSUME NEW c \in Conn, StopWriter(c) PROVE Staged'
  BY <1>6 DEF HubTyped, HubTypeOK, Staged, StopWriter
<1>7. ASSUME NEW c \in Conn, TellExpired(c) PROVE Staged'
  BY <1>7 DEF Staged, TellExpired
<1>8. ASSUME NEW c \in Conn, NEW b \in Broadcaster, Deliver(b, c) PROVE Staged'
  BY <1>8 DEF HubTyped, Staged, Deliver, Job
<1>9. CASE BroadcastStats
  BY <1>9 DEF HubTyped, Staged, BroadcastStats, Job
<1>10. CASE SweepExpiredClients \/ Shutdown
  BY <1>10 DEF Staged, SweepExpiredClients, Shutdown
<1> QED
  BY <1>1, <1>2, <1>3, <1>4, <1>5, <1>6, <1>7, <1>8, <1>9, <1>10 DEF HubNext, ConnNext, Writer

\* A slot is taken by HandleWS alone, for a connection that held none, and given back by
\* a handler that gives up or by a writer that exits, for one that held it.
Taken(c) ==
    /\ c \notin Holders
    /\ CanAcquire(slots, KeyOf[c], MaxClients, MaxClientsPerKey)
    /\ slots' = Acquire(slots, KeyOf[c])
    /\ Holders' = Holders \union {c}
    /\ UNCHANGED <<clients, closed>>

GivenBack(c) ==
    /\ c \in Holders
    /\ slots' = Release(slots, KeyOf[c])
    /\ Holders' = Holders \ {c}
    /\ UNCHANGED <<clients, closed>>

\* What the clients and the hub's end do while nobody takes or gives back a slot.
Served ==
    \/ UNCHANGED <<clients, closed>>
    \/ closed' = TRUE /\ UNCHANGED clients
    \/ \E c \in Conn : clients' = clients \ {c} /\ UNCHANGED closed
    \/ \E c \in Holders : ~closed /\ clients' = clients \union {c} /\ UNCHANGED closed

\* Every step of the hub is one of these.
LEMMA HoldersMove ==
    ASSUME HubTyped, Staged, [HubNext]_hubVars
    PROVE  \/ Served /\ UNCHANGED <<slots, Holders>>
           \/ \E c \in Conn : Taken(c) \/ GivenBack(c)
<1> DEFINE Same == UNCHANGED <<slots, Holders>>
<1> USE DEF Holders, Holds, Served
<1>1. CASE UNCHANGED hubVars
  BY <1>1 DEF hubVars
<1>2. ASSUME NEW c \in Conn, HandleWS(c) PROVE Taken(c) \/ (Served /\ Same)
  <2>1. writer[c] = "off"
    BY <1>2 DEF HandleWS, HubTyped, HubTypeOK, Staged
  <2> QED
    BY <1>2, <2>1 DEF HandleWS, HubTyped, HubTypeOK, Taken
<1>3. ASSUME NEW c \in Conn, Register(c) PROVE GivenBack(c) \/ (Served /\ Same)
  <2>1. writer[c] = "off"
    BY <1>3 DEF Register, HubTyped, HubTypeOK, Staged
  <2>2. CASE closed
    BY <1>3, <2>1, <2>2 DEF Register, HubTyped, HubTypeOK, GivenBack
  <2>3. CASE ~closed
    <3>1. /\ clients' = clients \union {c} /\ handler' = [handler EXCEPT ![c] = "registered"]
          /\ UNCHANGED <<closed, slots, writer>>
      BY <1>3, <2>3 DEF Register
    <3> QED
      BY <1>3, <2>3, <3>1 DEF Register, HubTyped, HubTypeOK
  <2> QED
    BY <2>2, <2>3
<1>4. ASSUME NEW c \in Conn, StartPumps(c) PROVE Served /\ Same
  BY <1>4 DEF StartPumps, HubTyped, HubTypeOK
<1>5. ASSUME NEW c \in Conn,
             \/ WriteMessage(c) \/ PeerGone(c) \/ Expire(c) \/ CloseConn(c) \/ StopReader(c)
             \/ TellExpired(c) \/ \E b \in Broadcaster : Deliver(b, c)
      PROVE  Served /\ Same
  BY <1>5 DEF WriteMessage, PeerGone, Expire, CloseConn, StopReader, TellExpired, Deliver
<1>6. ASSUME NEW c \in Conn, StopWriter(c) PROVE GivenBack(c)
  <2>1. handler[c] = "started"
    BY <1>6 DEF StopWriter, HubTyped, HubTypeOK, Staged
  <2> QED
    BY <1>6, <2>1 DEF StopWriter, HubTyped, HubTypeOK, GivenBack
<1>7. CASE BroadcastStats \/ SweepExpiredClients \/ Shutdown
  BY <1>7 DEF BroadcastStats, SweepExpiredClients, Shutdown
<1> HIDE DEF Holders, Holds, Served
<1> QED
  BY <1>1, <1>2, <1>3, <1>4, <1>5, <1>6, <1>7 DEF HubNext, ConnNext, Writer

\* The holders are connections, hence finitely many, of one client or of all.
LEMMA HoldersFinite ==
    ASSUME NEW k
    PROVE  /\ IsFiniteSet(Holders) /\ Cardinality(Holders) \in Nat
           /\ IsFiniteSet(HoldersOf(k)) /\ Cardinality(HoldersOf(k)) \in Nat
<1>1. Holders \in SUBSET Conn /\ HoldersOf(k) \in SUBSET Conn
  BY DEF Holders, HoldersOf
<1> QED
  BY <1>1, HubAssumption, FS_Subset, FS_CardinalityType

\* An acquire counts the connection it admits.
LEMMA TakenCounts ==
    ASSUME HubTyped, SlotAccounting, NEW c \in Conn, Taken(c)
    PROVE  SlotAccounting'
<1>1. slots.total \in Int /\ slots.perClient \in [Key -> Int] /\ KeyOf[c] \in Key
  BY HubAssumption DEF HubTyped, HubTypeOK, Slots
<1>2. slots'.total = slots.total + 1
      /\ slots'.perClient = [slots.perClient EXCEPT ![KeyOf[c]] = @ + 1]
  BY DEF Taken, Acquire
<1>3. Cardinality(Holders') = Cardinality(Holders) + 1
  BY HoldersFinite, FS_AddElement DEF Taken
<1>4. ASSUME NEW k \in Key PROVE slots'.perClient[k] = Cardinality(HoldersOf(k)')
  <2>1. CASE k = KeyOf[c]
    <3>1. HoldersOf(k)' = HoldersOf(k) \union {c} /\ c \notin HoldersOf(k)
      BY <2>1 DEF Taken, HoldersOf
    <3>2. Cardinality(HoldersOf(k)') = Cardinality(HoldersOf(k)) + 1
      BY <3>1, HoldersFinite, FS_AddElement
    <3> QED
      BY <1>1, <1>2, <2>1, <3>2 DEF SlotAccounting
  <2>2. CASE k # KeyOf[c]
    <3>1. HoldersOf(k)' = HoldersOf(k)
      BY <2>2 DEF Taken, HoldersOf
    <3> QED
      BY <1>1, <1>2, <2>2, <3>1 DEF SlotAccounting
  <2> QED
    BY <2>1, <2>2
<1> QED
  BY <1>2, <1>3, <1>4 DEF SlotAccounting

\* A release takes the connection it ends off both counts: that of its client is never 0
\* before, so that the entry release deletes is its last slot.
LEMMA GivenBackCounts ==
    ASSUME HubTyped, SlotAccounting, NEW c \in Conn, GivenBack(c)
    PROVE  SlotAccounting'
<1>1. slots.total \in Int /\ slots.perClient \in [Key -> Int] /\ KeyOf[c] \in Key
  BY HubAssumption DEF HubTyped, HubTypeOK, Slots
<1>2. slots'.total = slots.total - 1
      /\ slots'.perClient = [slots.perClient EXCEPT ![KeyOf[c]] = IF @ <= 1 THEN 0 ELSE @ - 1]
  BY DEF GivenBack, Release
<1>3. Cardinality(Holders') = Cardinality(Holders) - 1
  BY HoldersFinite, FS_RemoveElement DEF GivenBack
<1>4. ASSUME NEW k \in Key PROVE slots'.perClient[k] = Cardinality(HoldersOf(k)')
  <2>1. CASE k = KeyOf[c]
    <3>1. HoldersOf(k)' = HoldersOf(k) \ {c} /\ c \in HoldersOf(k)
      BY <2>1 DEF GivenBack, HoldersOf
    <3>2. Cardinality(HoldersOf(k)') = Cardinality(HoldersOf(k)) - 1
      BY <3>1, HoldersFinite, FS_RemoveElement
    <3>3. Cardinality(HoldersOf(k)) # 0
      BY <3>1, HoldersFinite, FS_EmptySet
    <3> QED
      BY <1>1, <1>2, <2>1, <3>2, <3>3, HoldersFinite DEF SlotAccounting
  <2>2. CASE k # KeyOf[c]
    <3>1. HoldersOf(k)' = HoldersOf(k)
      BY <2>2 DEF GivenBack, HoldersOf
    <3> QED
      BY <1>1, <1>2, <2>2, <3>1 DEF SlotAccounting
  <2> QED
    BY <2>1, <2>2
<1> QED
  BY <1>2, <1>3, <1>4 DEF SlotAccounting

\* The hub's step in the feed's.
LEMMA HubStep ==
    ASSUME [Next]_vars
    PROVE  \/ [HubNext]_hubVars
           \/ UNCHANGED <<slots, clients, closed, handler, writer, sweep>> /\ PipeToHub
BY DEF Next, vars, PipeToHub, Broadcast

\* No slot is held, and nobody counted, at first.
LEMMA InitInv == Init => HubInv
<1> SUFFICES ASSUME Init PROVE HubInv
  OBVIOUS
<1>1. Staged
  BY DEF Init, HubInit, Staged, Known
<1>2. Holders = {} /\ \A k : HoldersOf(k) = {}
  BY DEF Init, HubInit, Holders, Holds, HoldersOf
<1>3. slots.total = 0 /\ \A k \in Key : slots.perClient[k] = 0
  BY DEF Init, HubInit, FreeSlots
<1> QED
  BY <1>1, <1>2, <1>3, InitTyped, FS_EmptySet DEF HubInv, SlotAccounting

\* Every step of the feed keeps the slots counted.
LEMMA StepInv == HubInv /\ [Next]_vars => HubInv'
<1> SUFFICES ASSUME HubInv, [Next]_vars PROVE HubInv'
  OBVIOUS
<1>1. Typed' /\ HubTyped
  BY StepTyped DEF HubInv, Typed
<1>2. CASE [HubNext]_hubVars
  <2>1. Staged'
    BY <1>1, <1>2, StepStaged DEF HubInv
  <2>2. SlotAccounting'
    <3>1. CASE UNCHANGED <<slots, Holders>>
      BY <3>1 DEF HubInv, SlotAccounting, HoldersOf
    <3>2. CASE \E c \in Conn : Taken(c) \/ GivenBack(c)
      BY <1>1, <3>2, TakenCounts, GivenBackCounts DEF HubInv
    <3> QED
      BY <1>1, <1>2, <3>1, <3>2, HoldersMove DEF HubInv
  <2> QED
    BY <1>1, <2>1, <2>2 DEF HubInv
<1>3. CASE UNCHANGED <<slots, clients, closed, handler, writer, sweep>> /\ PipeToHub
  <2>1. Staged'
    BY <1>1, <1>3 DEF HubInv, HubTyped, Staged, Known, PipeToHub, Broadcast, Job
  <2>2. SlotAccounting'
    BY <1>3 DEF HubInv, SlotAccounting, Holders, Holds, HoldersOf
  <2> QED
    BY <1>1, <2>1, <2>2 DEF HubInv
<1> QED
  BY <1>2, <1>3, HubStep

\* SlotAccounting: every acquire is paired with one release, whichever of the handler,
\* the reader, the writer, a sweep and a shutdown ends a connection (limits.go:75-76).
THEOREM SlotsAccounted == Spec => []SlotAccounting
<1>1. HubInv => SlotAccounting
  BY DEF HubInv
<1> QED
  BY <1>1, InitInv, StepInv, PTL DEF Spec

----------------------------------------------------------------------------
(* Admission.                                                              *)

\* The mapped state starts where Admission does.
LEMMA InitAdmits == Init => Gate!Init
BY DEF Init, HubInit, Gate!Init, Holders, Holds

\* Every step of the hub is a step of Admission, or none that it sees.
LEMMA StepAdmits == HubInv /\ [Next]_vars => [Gate!Next]_<<Holders, clients, closed>>
<1> SUFFICES ASSUME HubInv, [Next]_vars PROVE [Gate!Next]_<<Holders, clients, closed>>
  OBVIOUS
<1>1. CASE [HubNext]_hubVars
  <2>1. HubTyped /\ Staged /\ Holders \subseteq Conn
    BY DEF HubInv, Typed, Holders
  <2>2. CASE Served /\ UNCHANGED <<slots, Holders>>
    BY <2>1, <2>2 DEF Served, Gate!Next, Gate!Close, Gate!Join, Gate!Quit
  <2>3. ASSUME NEW c \in Conn, Taken(c) PROVE Gate!Admit(c)
    <3>1. slots.total = Cardinality(Holders)
          /\ slots.perClient[KeyOf[c]] = Cardinality(HoldersOf(KeyOf[c]))
      BY HubAssumption DEF HubInv, SlotAccounting
    <3>2. HoldersOf(KeyOf[c]) = Gate!ServedOf(KeyOf[c])
      BY DEF HoldersOf, Gate!ServedOf
    <3>3. /\ BelowBound(Cardinality(Holders), MaxClients)
          /\ BelowBound(Cardinality(HoldersOf(KeyOf[c])), MaxClientsPerKey)
      BY <2>3, <3>1 DEF Taken, CanAcquire
    <3>4. /\ MaxClients > 0 => Cardinality(Holders) < MaxClients
          /\ MaxClientsPerKey > 0 => Cardinality(HoldersOf(KeyOf[c])) < MaxClientsPerKey
      BY <3>3, HoldersFinite, HubAssumption DEF BelowBound
    <3>5. c \notin Holders /\ Holders' = Holders \union {c} /\ UNCHANGED <<clients, closed>>
      BY <2>3 DEF Taken
    <3>6. /\ c \notin Holders
          /\ MaxClients > 0 => Cardinality(Holders) < MaxClients
          /\ MaxClientsPerKey > 0 => Cardinality(Gate!ServedOf(KeyOf[c])) < MaxClientsPerKey
          /\ Holders' = Holders \union {c}
          /\ UNCHANGED <<clients, closed>>
      BY <3>2, <3>4, <3>5
    <3> QED
      BY <3>6 DEF Gate!Admit, Gate!Cardinality, Cardinality
  <2>4. ASSUME NEW c \in Conn, GivenBack(c) PROVE Gate!Leave(c)
    BY <2>4 DEF GivenBack, Gate!Leave
  <2> QED
    BY <1>1, <2>1, <2>2, <2>3, <2>4, HoldersMove DEF Gate!Next
<1>2. CASE UNCHANGED <<slots, clients, closed, handler, writer, sweep>> /\ PipeToHub
  BY <1>2 DEF Holders, Holds
<1> QED
  BY <1>1, <1>2, HubStep

\* ImplementsAdmission: never more connections than MaxClients, nor more of one client
\* address than MaxClientsPerKey, and "after Shutdown, the hub rejects new connections"
\* (ws.go:275), for any number of connections.
THEOREM AdmissionImplemented == Spec => ImplementsAdmission
BY InitInv, StepInv, InitAdmits, StepAdmits, PTL DEF Spec, ImplementsAdmission, Gate!Spec

----------------------------------------------------------------------------
(* The feed.                                                               *)

\* What a client was sent, once its handler has begun to or before: NoVersionMissed of q.
Fits(q, base, last, begun) ==
    /\ InOrder(q, base, last)
    /\ IF base > 0 /\ begun
       THEN \E i \in DOMAIN q : Older(q, base) = {i} /\ q[i] = SnapshotMsg(base)
       ELSE Older(q, base) = {}

\* r has the graphs of q, in the same order.
SameGraphs(q, r) ==
    \E f \in [GraphsOf(q) -> GraphsOf(r)] :
        /\ \A j \in GraphsOf(r) : \E i \in GraphsOf(q) : f[i] = j
        /\ \A i \in GraphsOf(q) : r[f[i]] = q[i]
        /\ \A i, j \in GraphsOf(q) : i < j => f[i] < f[j]

\* A message is a graph of a version, or no graph.
LEMMA MsgData ==
    ASSUME NEW m \in Msg
    PROVE  /\ m.type \in {"snapshot", "delta"} => m.data \in SnapshotVersion
           /\ m.type \in {"snapshot", "delta"} <=> m \notin {StatsMsg, AuthExpiredMsg}
<1>1. CASE m \in {StatsMsg, AuthExpiredMsg}
  BY <1>1 DEF StatsMsg, AuthExpiredMsg
<1>2. CASE \E v \in SnapshotVersion : m = SnapshotMsg(v) \/ m = StateMsg(v)
  BY <1>2 DEF SnapshotMsg, StateMsg, StatsMsg, AuthExpiredMsg
<1> QED
  BY <1>1, <1>2 DEF Msg

\* Where the graphs of a sequence of messages are.
LEMMA GraphsAt ==
    ASSUME NEW q \in Seq(Msg)
    PROVE  /\ GraphsOf(q) = {i \in 1 .. Len(q) : q[i] \notin {StatsMsg, AuthExpiredMsg}}
           /\ Len(q) \in Nat
           /\ \A i \in GraphsOf(q) : i \in Nat /\ q[i].data \in Nat /\ q[i] \in Msg
<1>1. Len(q) \in Nat /\ DOMAIN q = 1 .. Len(q) /\ \A i \in 1 .. Len(q) : q[i] \in Msg
  BY LenProperties, ElementOfSeq
<1> QED
  BY <1>1, MsgData DEF GraphsOf, SnapshotVersion

\* What holds of a client's messages holds of any with the same graphs.
LEMMA SameFits ==
    ASSUME NEW q \in Seq(Msg), NEW r \in Seq(Msg), SameGraphs(q, r),
           NEW base \in Nat, NEW last \in Int, NEW begun \in BOOLEAN, Fits(q, base, last, begun)
    PROVE  Fits(r, base, last, begun)
<1>1. PICK f \in [GraphsOf(q) -> GraphsOf(r)] :
        /\ \A j \in GraphsOf(r) : \E i \in GraphsOf(q) : f[i] = j
        /\ \A i \in GraphsOf(q) : r[f[i]] = q[i]
        /\ \A i, j \in GraphsOf(q) : i < j => f[i] < f[j]
  BY DEF SameGraphs
<1>2. \A i \in GraphsOf(q) : /\ i \in Nat /\ f[i] \in Nat
                             /\ i \in Newer(q, base) <=> f[i] \in Newer(r, base)
                             /\ i \in Older(q, base) <=> f[i] \in Older(r, base)
  BY <1>1, GraphsAt DEF Newer, Older
<1>3. /\ Newer(q, base) \subseteq GraphsOf(q) /\ Older(q, base) \subseteq GraphsOf(q)
      /\ Newer(r, base) \subseteq GraphsOf(r) /\ Older(r, base) \subseteq GraphsOf(r)
  BY DEF Newer, Older
<1>4. {r[j] : j \in Newer(r, base)} = {q[i] : i \in Newer(q, base)}
  BY <1>1, <1>2, <1>3
<1>5. ASSUME NEW j \in Newer(r, base), NEW l \in Newer(r, base), j < l
      PROVE  r[j].data < r[l].data
  <2>1. PICK i \in GraphsOf(q), k \in GraphsOf(q) : f[i] = j /\ f[k] = l
    BY <1>1, <1>3
  <2>2. i \in Newer(q, base) /\ k \in Newer(q, base) /\ i < k
    BY <1>1, <1>2, <1>5, <2>1
  <2> QED
    BY <1>1, <2>1, <2>2 DEF Fits, InOrder
<1>6. InOrder(r, base, last)
  BY <1>4, <1>5 DEF Fits, InOrder
<1>7. CASE base > 0 /\ begun
  <2>1. PICK i \in DOMAIN q : Older(q, base) = {i} /\ q[i] = SnapshotMsg(base)
    BY <1>7 DEF Fits
  <2>2. Older(r, base) = {f[i]} /\ r[f[i]] = SnapshotMsg(base) /\ f[i] \in DOMAIN r
    BY <1>1, <1>2, <1>3, <2>1 DEF GraphsOf
  <2> QED
    BY <1>6, <1>7, <2>2 DEF Fits
<1>8. CASE ~(base > 0 /\ begun)
  <2>1. Older(r, base) = {}
    BY <1>1, <1>2, <1>3, <1>8 DEF Fits
  <2> QED
    BY <1>6, <1>8, <2>1 DEF Fits
<1> QED
  BY <1>7, <1>8

\* Stats and the end of a session are no graphs: neither their place in the channel ...
LEMMA AppendOther ==
    ASSUME NEW q \in Seq(Msg), NEW m \in {StatsMsg, AuthExpiredMsg}
    PROVE  Append(q, m) \in Seq(Msg) /\ SameGraphs(q, Append(q, m))
<1>1. /\ Append(q, m) \in Seq(Msg) /\ Len(Append(q, m)) = Len(q) + 1
      /\ \A i \in 1 .. Len(q) : Append(q, m)[i] = q[i]
      /\ Append(q, m)[Len(q) + 1] = m
  BY MsgHas, AppendProperties
<1>2. GraphsOf(Append(q, m)) = GraphsOf(q)
  <2>1. GraphsOf(q) = {i \in 1 .. Len(q) : q[i] \notin {StatsMsg, AuthExpiredMsg}} /\ Len(q) \in Nat
    BY GraphsAt
  <2>2. GraphsOf(Append(q, m)) =
          {i \in 1 .. Len(q) + 1 : Append(q, m)[i] \notin {StatsMsg, AuthExpiredMsg}}
    BY <1>1, GraphsAt
  <2> QED
    BY <1>1, <2>1, <2>2
<1>3. \A i \in GraphsOf(q) : i \in 1 .. Len(q)
  BY GraphsAt
<1> DEFINE f == [i \in GraphsOf(q) |-> i]
<1>4. /\ f \in [GraphsOf(q) -> GraphsOf(Append(q, m))]
      /\ \A j \in GraphsOf(Append(q, m)) : \E i \in GraphsOf(q) : f[i] = j
      /\ \A i \in GraphsOf(q) : Append(q, m)[f[i]] = q[i]
      /\ \A i, j \in GraphsOf(q) : i < j => f[i] < f[j]
  BY <1>1, <1>2, <1>3
<1> HIDE DEF f
<1> QED
  BY <1>1, <1>4 DEF SameGraphs

\* ... nor that the writer sends stats on without a trace tells of the graphs.
LEMMA DropStats ==
    ASSUME NEW w \in Seq(Msg), NEW s \in Seq(Msg), s # << >>, Head(s) = StatsMsg
    PROVE  SameGraphs(w \o s, w \o Tail(s))
<1> DEFINE q == w \o s
           r == w \o Tail(s)
           n == Len(w)
           f == [i \in GraphsOf(q) |-> IF i <= n THEN i ELSE i - 1]
<1>1. /\ Tail(s) \in Seq(Msg) /\ Len(Tail(s)) = Len(s) - 1 /\ Len(s) \in Nat /\ Len(s) > 0
      /\ \A i \in 1 .. Len(Tail(s)) : Tail(s)[i] = s[i + 1]
      /\ s[1] = StatsMsg /\ n \in Nat
  BY HeadTailProperties, LenProperties, EmptySeq
<1>2. /\ q \in Seq(Msg) /\ Len(q) = n + Len(s)
      /\ \A i \in 1 .. n + Len(s) : q[i] = IF i <= n THEN w[i] ELSE s[i - n]
  BY ConcatProperties
<1>3. /\ r \in Seq(Msg) /\ Len(r) = n + Len(s) - 1
      /\ \A i \in 1 .. n + Len(s) - 1 : r[i] = IF i <= n THEN w[i] ELSE Tail(s)[i - n]
  BY <1>1, ConcatProperties
<1>4. /\ q[n + 1] = StatsMsg
      /\ \A i \in 1 .. n : r[i] = q[i]
      /\ \A i \in n + 1 .. n + Len(s) - 1 : r[i] = q[i + 1]
  BY <1>1, <1>2, <1>3
<1> HIDE DEF q, r, n
<1>5. /\ GraphsOf(q) = {i \in 1 .. Len(q) : q[i] \notin {StatsMsg, AuthExpiredMsg}}
      /\ GraphsOf(r) = {i \in 1 .. Len(r) : r[i] \notin {StatsMsg, AuthExpiredMsg}}
  BY <1>2, <1>3, GraphsAt
<1>6. ASSUME NEW i \in GraphsOf(q)
      PROVE  /\ i \in 1 .. n + Len(s) /\ i # n + 1
             /\ f[i] \in GraphsOf(r) /\ r[f[i]] = q[i]
  <2>1. i \in 1 .. n + Len(s) /\ q[i] \notin {StatsMsg, AuthExpiredMsg} /\ i # n + 1
    BY <1>2, <1>4, <1>5
  <2>2. CASE i <= n
    BY <1>1, <1>3, <1>4, <1>5, <2>1, <2>2
  <2>3. CASE i > n
    <3>1. i - 1 \in n + 1 .. n + Len(s) - 1 /\ r[i - 1] = q[i] /\ f[i] = i - 1
      BY <1>1, <1>4, <2>1, <2>3
    <3> QED
      BY <1>1, <1>3, <1>5, <2>1, <3>1
  <2> QED
    BY <1>1, <2>1, <2>2, <2>3
<1>7. ASSUME NEW j \in GraphsOf(r) PROVE \E i \in GraphsOf(q) : f[i] = j
  <2>1. j \in 1 .. n + Len(s) - 1 /\ r[j] \notin {StatsMsg, AuthExpiredMsg}
    BY <1>3, <1>5
  <2>2. CASE j <= n
    BY <1>1, <1>2, <1>4, <2>1, <2>2, <1>5
  <2>3. CASE j > n
    <3>1. j + 1 \in GraphsOf(q)
      BY <1>1, <1>2, <1>4, <2>1, <2>3, <1>5
    <3> QED
      BY <1>1, <2>1, <2>3, <3>1
  <2> QED
    BY <1>1, <2>1, <2>2, <2>3
<1>8. \A i, j \in GraphsOf(q) : i < j => f[i] < f[j]
  BY <1>1, <1>6
<1>9. f \in [GraphsOf(q) -> GraphsOf(r)]
  BY <1>6
<1> HIDE DEF f
<1>10. SameGraphs(q, r)
  BY <1>6, <1>7, <1>8, <1>9 DEF SameGraphs
<1> QED
  BY <1>10 DEF q, r

\* The handler's send, after the lock, of the snapshot it read under it.
LEMMA AppendBase ==
    ASSUME NEW q \in Seq(Msg), NEW base \in SnapshotVersion, NEW last \in Int,
           Fits(q, base, last, FALSE)
    PROVE  /\ Append(q, SnapshotMsg(base)) \in Seq(Msg)
           /\ Fits(Append(q, SnapshotMsg(base)), base, last, TRUE)
<1> DEFINE m == SnapshotMsg(base)
           r == Append(q, m)
<1>1. m \in Msg /\ m \notin {StatsMsg, AuthExpiredMsg} /\ m.data = base /\ base \in Nat /\ base > 0
  BY MsgHas DEF SnapshotMsg, StatsMsg, AuthExpiredMsg, SnapshotVersion
<1> HIDE DEF m
<1>2. /\ r \in Seq(Msg) /\ Len(r) = Len(q) + 1
      /\ \A i \in 1 .. Len(q) : r[i] = q[i]
      /\ r[Len(q) + 1] = m
  BY <1>1, AppendProperties
<1> HIDE DEF r
<1>3. /\ GraphsOf(q) = {i \in 1 .. Len(q) : q[i] \notin {StatsMsg, AuthExpiredMsg}}
      /\ GraphsOf(r) = {i \in 1 .. Len(r) : r[i] \notin {StatsMsg, AuthExpiredMsg}}
      /\ Len(q) \in Nat
  BY <1>2, GraphsAt
<1>4. GraphsOf(r) = GraphsOf(q) \union {Len(q) + 1} /\ Len(q) + 1 \notin GraphsOf(q)
  BY <1>1, <1>2, <1>3
<1>5. \A i \in GraphsOf(q) : r[i] = q[i]
  BY <1>2, <1>3
<1>6. Newer(r, base) = Newer(q, base)
  BY <1>1, <1>2, <1>4, <1>5 DEF Newer
<1>7. Older(r, base) = {Len(q) + 1}
  BY <1>4, <1>6 DEF Older, Fits, Newer
<1>8. InOrder(r, base, last)
  <2>1. \A i \in Newer(q, base) : r[i] = q[i]
    BY <1>5 DEF Newer
  <2>2. {r[i] : i \in Newer(r, base)} = {q[i] : i \in Newer(q, base)}
    BY <1>6, <2>1
  <2>3. \A i, j \in Newer(r, base) : i < j => r[i].data < r[j].data
    BY <1>6, <2>1 DEF Fits, InOrder
  <2> QED
    BY <2>2, <2>3 DEF Fits, InOrder
<1>9. Len(q) + 1 \in DOMAIN r
  BY <1>4 DEF GraphsOf
<1>10. Fits(r, base, last, TRUE)
  BY <1>1, <1>2, <1>7, <1>8, <1>9 DEF Fits, m
<1> QED
  BY <1>2, <1>10 DEF m, r

\* The delivery of the next version.
LEMMA AppendNext ==
    ASSUME NEW q \in Seq(Msg), NEW base \in Nat, NEW last \in Nat, base <= last,
           last + 1 \in SnapshotVersion, NEW begun \in BOOLEAN, Fits(q, base, last, begun)
    PROVE  /\ Append(q, StateMsg(last + 1)) \in Seq(Msg)
           /\ Fits(Append(q, StateMsg(last + 1)), base, last + 1, begun)
<1> DEFINE m == StateMsg(last + 1)
           r == Append(q, m)
           n == Len(q) + 1
<1>1. m \in Msg /\ m \notin {StatsMsg, AuthExpiredMsg} /\ m.data = last + 1
  BY MsgHas DEF StateMsg, StatsMsg, AuthExpiredMsg
<1> HIDE DEF m
<1>2. /\ r \in Seq(Msg) /\ Len(r) = n
      /\ \A i \in 1 .. Len(q) : r[i] = q[i]
      /\ r[n] = m
  BY <1>1, AppendProperties
<1> HIDE DEF r
<1>3. /\ GraphsOf(q) = {i \in 1 .. Len(q) : q[i] \notin {StatsMsg, AuthExpiredMsg}}
      /\ GraphsOf(r) = {i \in 1 .. n : r[i] \notin {StatsMsg, AuthExpiredMsg}}
      /\ Len(q) \in Nat
  BY <1>2, GraphsAt
<1>4. GraphsOf(r) = GraphsOf(q) \union {n} /\ n \notin GraphsOf(q) /\ n \in Nat
      /\ \A i \in GraphsOf(q) : i < n /\ i \in Nat
  BY <1>1, <1>2, <1>3
<1>5. \A i \in GraphsOf(q) : r[i] = q[i] /\ q[i].data \in Nat
  BY <1>2, <1>3, GraphsAt
<1> HIDE DEF n
<1>6. Newer(r, base) = Newer(q, base) \union {n} /\ n \notin Newer(q, base)
  BY <1>1, <1>2, <1>4, <1>5 DEF Newer
<1>7. Older(r, base) = Older(q, base)
  BY <1>4, <1>6 DEF Older
<1>8. \A i \in Newer(q, base) : /\ r[i] = q[i] /\ i < n /\ i \in Nat
                                /\ q[i].data < last + 1 /\ q[i].data \in Nat
  <2> SUFFICES ASSUME NEW i \in Newer(q, base)
               PROVE  /\ r[i] = q[i] /\ i < n /\ i \in Nat
                      /\ q[i].data < last + 1 /\ q[i].data \in Nat
    OBVIOUS
  <2>1. PICK v \in base + 1 .. last : q[i] = StateMsg(v)
    BY DEF Fits, InOrder
  <2>2. q[i].data = v
    BY <2>1 DEF StateMsg
  <2> QED
    BY <1>4, <1>5, <2>2 DEF Newer
<1>9. InOrder(r, base, last + 1)
  <2>1. {r[i] : i \in Newer(r, base)} = {q[i] : i \in Newer(q, base)} \union {m}
    BY <1>2, <1>6, <1>8
  <2>2. base + 1 .. last + 1 = (base + 1 .. last) \union {last + 1}
    OBVIOUS
  <2>3. {StateMsg(v) : v \in base + 1 .. last + 1} = {StateMsg(v) : v \in base + 1 .. last} \union {m}
    BY <2>2 DEF m
  <2>4. \A i, j \in Newer(r, base) : i < j => r[i].data < r[j].data
    BY <1>1, <1>2, <1>4, <1>6, <1>8 DEF Fits, InOrder
  <2> QED
    BY <2>1, <2>3, <2>4 DEF Fits, InOrder
<1>10. \A i \in Older(q, base) : r[i] = q[i] /\ i \in DOMAIN r
  BY <1>4, <1>5 DEF Older, GraphsOf
<1> QED
  BY <1>2, <1>7, <1>9, <1>10 DEF Fits, m, r

\* An offer that a client's channel takes is the last of its messages.
LEMMA GotAppend ==
    ASSUME NEW w \in Seq(Msg), NEW s \in Seq(Msg), NEW m \in Msg
    PROVE  w \o Append(s, m) = Append(w \o s, m)
<1>1. <<m>> \in Seq(Msg) /\ w \o s \in Seq(Msg)
  BY ConcatProperties
<1>2. Append(s, m) = s \o <<m>> /\ Append(w \o s, m) = (w \o s) \o <<m>>
  BY <1>1, AppendIsConcat
<1> QED
  BY <1>1, <1>2, ConcatAssociative

\* A message the writer passes on keeps its place.
LEMMA GotMove ==
    ASSUME NEW w \in Seq(Msg), NEW s \in Seq(Msg), s # << >>
    PROVE  Append(w, Head(s)) \o Tail(s) = w \o s
<1> DEFINE v == Append(w, Head(s))
<1>1. /\ Head(s) \in Msg /\ Tail(s) \in Seq(Msg) /\ Len(Tail(s)) = Len(s) - 1
      /\ \A i \in 1 .. Len(Tail(s)) : Tail(s)[i] = s[i + 1]
      /\ Head(s) = s[1] /\ Len(s) \in Nat /\ Len(s) > 0 /\ Len(w) \in Nat
  BY HeadTailProperties, LenProperties, EmptySeq
<1>2. /\ v \in Seq(Msg) /\ Len(v) = Len(w) + 1
      /\ \A i \in 1 .. Len(w) : v[i] = w[i]
      /\ v[Len(w) + 1] = s[1]
  BY <1>1, AppendProperties
<1> HIDE DEF v
<1>3. /\ v \o Tail(s) \in Seq(Msg) /\ Len(v \o Tail(s)) = Len(w) + Len(s)
      /\ \A i \in 1 .. Len(w) + Len(s) :
            (v \o Tail(s))[i] = IF i <= Len(w) + 1 THEN v[i] ELSE Tail(s)[i - (Len(w) + 1)]
  <2>1. /\ v \o Tail(s) \in Seq(Msg) /\ Len(v \o Tail(s)) = Len(v) + Len(Tail(s))
        /\ \A i \in 1 .. Len(v) + Len(Tail(s)) :
              (v \o Tail(s))[i] = IF i <= Len(v) THEN v[i] ELSE Tail(s)[i - Len(v)]
    BY <1>1, <1>2, ConcatProperties
  <2>2. Len(v) + Len(Tail(s)) = Len(w) + Len(s)
    BY <1>1, <1>2
  <2> QED
    BY <1>2, <2>1, <2>2
<1>4. /\ w \o s \in Seq(Msg) /\ Len(w \o s) = Len(w) + Len(s)
      /\ \A i \in 1 .. Len(w) + Len(s) : (w \o s)[i] = IF i <= Len(w) THEN w[i] ELSE s[i - Len(w)]
  BY ConcatProperties
<1>5. ASSUME NEW i \in 1 .. Len(w) + Len(s) PROVE (v \o Tail(s))[i] = (w \o s)[i]
  <2>1. CASE i <= Len(w)
    BY <1>1, <1>2, <1>3, <1>4, <2>1
  <2>2. CASE i = Len(w) + 1
    BY <1>1, <1>2, <1>3, <1>4, <2>2
  <2>3. CASE i > Len(w) + 1
    <3>1. i - (Len(w) + 1) \in 1 .. Len(Tail(s)) /\ i - (Len(w) + 1) + 1 = i - Len(w)
      BY <1>1, <2>3
    <3>2. Tail(s)[i - (Len(w) + 1)] = s[i - Len(w)]
      BY <1>1, <3>1
    <3> QED
      BY <1>1, <1>3, <1>4, <2>3, <3>2
  <2>4. i <= Len(w) \/ i = Len(w) + 1 \/ i > Len(w) + 1
    BY <1>1
  <2> QED
    BY <2>1, <2>2, <2>3, <2>4, Zenon
<1> QED
  BY <1>3, <1>4, <1>5, SeqEqual DEF v

\* What the hub's messages to a client are made from: the snapshot a handler has to
\* send is the version that was current when its client registered, the message under
\* broadcast is the last version, and it goes to nobody that registered since.
Sources ==
    /\ \A c \in Conn \ Known : sendCh[c] = << >> /\ wire[c] = << >>
    /\ current = IF version = 0 THEN Nil ELSE version
    /\ \A c \in Conn : /\ start[c] <= version
                       /\ handler[c] = "registered" =>
                            gift[c] = IF start[c] = 0 THEN Nil ELSE start[c]
    /\ bcast["state"].todo # {} => bcast["state"].msg = StateMsg(version)
    /\ bcast["stats"].todo # {} => bcast["stats"].msg = StatsMsg
    /\ \A c \in bcast["state"].todo : start[c] < version

FitsNow(c) == Fits(Got(c), start[c], Offered(c), handler[c] = "started")

\* The inductive invariant behind NoVersionMissed.
FeedInv ==
    /\ HubInv
    /\ Sources
    /\ \A c \in Fed : FitsNow(c)

\* A step that tells a client nothing.
Same(c) ==
    /\ wire'[c] = wire[c] /\ sendCh'[c] = sendCh[c] /\ start'[c] = start[c] /\ version' = version
    /\ c \in bcast'["state"].todo <=> c \in bcast["state"].todo
    /\ handler'[c] = "started" <=> handler[c] = "started"

\* A step that leaves a client's messages leaves what it was offered.
LEMMA SameStays ==
    ASSUME NEW c, Same(c), FitsNow(c)
    PROVE  FitsNow(c)'
<1>1. Got(c)' = Got(c) /\ Offered(c)' = Offered(c) /\ start'[c] = start[c]
  BY DEF Same, Got, Offered
<1>2. (handler'[c] = "started") = (handler[c] = "started")
  BY DEF Same
<1> QED
  BY <1>1, <1>2 DEF FitsNow, Fits, InOrder, Newer, Older, GraphsOf, StateMsg

\* A step that starts no broadcast, delivers none and registers nobody.
Quiet ==
    /\ start' = start /\ UNCHANGED <<current, bcast, version>>
    /\ \A c \in Conn : c \in Known' <=> c \in Known
    /\ \A c \in Conn : c \notin Known => sendCh'[c] = sendCh[c] /\ wire'[c] = wire[c]
    /\ \A c \in Conn : handler'[c] = "registered" => handler[c] = "registered" /\ gift'[c] = gift[c]

\* A step that starts no broadcast leaves the messages' sources.
LEMMA QuietStays == Sources /\ Quiet => Sources'
BY DEF Sources, Quiet, Known

\* The clients still fed were fed before, or have just been registered.
LEMMA FedStays ==
    ASSUME HubTyped, Staged, [HubNext]_hubVars, History
    PROVE  \A c \in Fed' : c \in clients => c \in Fed
<1> SUFFICES ASSUME NEW c \in Fed', c \in clients PROVE writer[c] # "exited"
  BY DEF Fed, History
<1>1. writer'[c] # "exited" /\ c \in Conn
  BY DEF Fed, HubTyped, HubTypeOK
<1>2. ASSUME NEW d \in Conn, StartPumps(d) \/ StopWriter(d) PROVE writer[c] # "exited"
  BY <1>1, <1>2 DEF StartPumps, StopWriter, HubTyped, HubTypeOK, Staged
<1>3. CASE UNCHANGED writer
  BY <1>1, <1>3
<1> QED
  BY <1>2, <1>3 DEF hubVars, HubNext, ConnNext, Writer, HandleWS, Register, WriteMessage,
       StopReader, PeerGone, Expire, TellExpired, CloseConn, Deliver,
       BroadcastStats, SweepExpiredClients, Shutdown

\* The version a client started from is that of the moment it registered.
LEMMA StartStays ==
    ASSUME start \in [Conn -> 0 .. MaxVersion], History
    PROVE  /\ clients' \subseteq clients => start' = start
           /\ \A c \in Conn : c \notin clients' \ clients => start'[c] = start[c]
           /\ \A c \in Conn : c \in clients' \ clients => start'[c] = version
BY DEF History

\* What a channel takes that is no graph leaves its client's graphs as they were.
LEMMA OtherFits ==
    ASSUME HubTyped, version \in Nat, start \in [Conn -> 0 .. MaxVersion],
           NEW c \in Conn, FitsNow(c), NEW m \in {StatsMsg, AuthExpiredMsg}, TrySend(c, m),
           UNCHANGED <<wire, start, version, handler>>,
           c \in bcast'["state"].todo <=> c \in bcast["state"].todo
    PROVE  FitsNow(c)'
<1>1. wire[c] \in Seq(Msg) /\ sendCh[c] \in Seq(Msg) /\ Got(c) \in Seq(Msg)
  BY ConcatProperties DEF HubTyped, Got
<1>2. CASE sendCh'[c] = sendCh[c]
  BY <1>2, SameStays DEF Same
<1>3. CASE sendCh'[c] # sendCh[c]
  <2>1. sendCh'[c] = Append(sendCh[c], m)
    BY <1>3 DEF TrySend, HubTyped
  <2>2. Got(c)' = Append(Got(c), m)
    <3>1. wire[c] \o Append(sendCh[c], m) = Append(wire[c] \o sendCh[c], m)
      <4>1. m \in Msg
        BY MsgHas
      <4> QED
        BY <1>1, <4>1, GotAppend
    <3> QED
      BY <2>1, <3>1 DEF Got
  <2>3. Got(c)' \in Seq(Msg) /\ SameGraphs(Got(c), Got(c)')
    BY <1>1, <2>2, AppendOther
  <2>4. Offered(c)' = Offered(c) /\ Offered(c) \in Int /\ start'[c] = start[c] /\ start[c] \in Nat
    BY DEF Offered
  <2>5. Fits(Got(c)', start[c], Offered(c), handler[c] = "started")
    BY <1>1, <2>3, <2>4, SameFits DEF FitsNow
  <2>6. FitsNow(c)' <=> Fits(Got(c)', start[c], Offered(c), handler[c] = "started")
    BY <2>4 DEF FitsNow, Fits, InOrder, Newer, Older, GraphsOf, StateMsg
  <2> QED
    BY <2>5, <2>6
<1> QED
  BY <1>2, <1>3

\* Every step of the hub keeps the feed of every client.
LEMMA HubStepFeeds ==
    ASSUME FeedInv, HubNext, UNCHANGED version, History
    PROVE  Sources' /\ \A c \in Fed' : FitsNow(c)'
<1>1. /\ HubTyped /\ Staged /\ Sources /\ version \in Nat
      /\ start \in [Conn -> 0 .. MaxVersion] /\ \A c \in Fed : FitsNow(c)
  BY DEF FeedInv, HubInv, Typed
<1>2. /\ \A c \in Fed' : c \in Conn /\ (c \in clients => c \in Fed)
      /\ \A c \in Fed' : c \in clients' \ dropped' /\ writer'[c] # "exited"
  <2>1. HubTyped'
    BY <1>1, HubStepTyped
  <2> QED
    BY <1>1, <2>1, FedStays DEF Fed, HubTyped, HubTypeOK
<1>3. ASSUME Quiet, clients' \subseteq clients, NEW d \in Conn,
             \A c \in Fed' \ {d} : Same(c), d \in Fed /\ d \in Fed' => Same(d) \/ FitsNow(d)'
      PROVE  Sources' /\ \A c \in Fed' : FitsNow(c)'
  BY <1>1, <1>2, <1>3, QuietStays, SameStays
<1>4. clients' \subseteq clients => start' = start
  BY <1>1, StartStays
<1>5. ASSUME NEW d \in Conn, HandleWS(d) PROVE Sources' /\ \A c \in Fed' : FitsNow(c)'
  <2>1. /\ handler[d] = "none"
        /\ \E h \in {"admitted", "refused"} : handler' = [handler EXCEPT ![d] = h]
        /\ UNCHANGED <<clients, current, gift, sendCh, wire, bcast>>
    BY <1>5 DEF HandleWS
  <2>2. Quiet
    BY <1>1, <1>4, <2>1 DEF Quiet, Known, HubTyped, HubTypeOK
  <2>3. \A c \in Conn : Same(c)
    BY <1>1, <1>4, <2>1 DEF Same, HubTyped, HubTypeOK
  <2> QED
    BY <1>2, <1>3, <2>1, <2>2, <2>3
<1>6. ASSUME NEW d \in Conn, Register(d) PROVE Sources' /\ \A c \in Fed' : FitsNow(c)'
  <2>1. CASE closed
    <3>1. /\ handler[d] = "admitted" /\ handler' = [handler EXCEPT ![d] = "refused"]
          /\ UNCHANGED <<clients, current, gift, sendCh, wire, bcast>>
      BY <1>6, <2>1 DEF Register
    <3>2. Quiet
      BY <1>1, <1>4, <3>1 DEF Quiet, Known, HubTyped, HubTypeOK
    <3>3. \A c \in Conn : Same(c)
      BY <1>1, <1>4, <3>1 DEF Same, HubTyped, HubTypeOK
    <3> QED
      BY <1>2, <1>3, <3>1, <3>2, <3>3
  <2>2. CASE ~closed
    <3>1. /\ handler[d] = "admitted" /\ handler' = [handler EXCEPT ![d] = "registered"]
          /\ clients' = clients \union {d} /\ gift' = [gift EXCEPT ![d] = current]
          /\ UNCHANGED <<current, sendCh, wire, bcast>>
      BY <1>6, <2>2 DEF Register
    <3>2. d \notin Known /\ d \notin clients /\ d \notin bcast["state"].todo
      BY <1>1, <3>1 DEF Staged, Known, Broadcaster
    <3>3. start'[d] = version /\ \A c \in Conn \ {d} : start'[c] = start[c]
      BY <1>1, <3>1, <3>2, StartStays
    <3>4. \A c \in Fed' \ {d} : Same(c) /\ c \in Fed
      BY <1>1, <1>2, <3>1, <3>3 DEF Same, HubTyped, HubTypeOK
    <3>5. /\ sendCh[d] = << >> /\ wire[d] = << >> /\ handler'[d] = "registered"
          /\ gift'[d] = current
      BY <1>1, <3>1, <3>2 DEF Sources, HubTyped, HubTypeOK
    <3>6. Sources'
      <4>1. \A c \in Conn \ {d} : handler'[c] = handler[c] /\ gift'[c] = gift[c]
        BY <1>1, <3>1 DEF HubTyped, HubTypeOK
      <4>2. \A c \in Conn : /\ start'[c] <= version
                            /\ handler'[c] = "registered" =>
                                gift'[c] = IF start'[c] = 0 THEN Nil ELSE start'[c]
        BY <1>1, <3>3, <3>5, <4>1 DEF Sources
      <4>3. \A c \in Conn \ Known' : sendCh'[c] = << >> /\ wire'[c] = << >>
        BY <1>1, <3>1, <3>5, <4>1 DEF Sources, Known
      <4>4. \A c \in bcast["state"].todo : start'[c] < version
        BY <1>1, <3>2, <3>3 DEF Sources, Staged, Known, Broadcaster
      <4> QED
        BY <1>1, <3>1, <4>2, <4>3, <4>4 DEF Sources
    <3>7. FitsNow(d)'
      <4>1. Got(d)' = << >>
        BY <3>1, <3>5 DEF Got
      <4>2. Offered(d)' = version
        BY <3>1, <3>2 DEF Offered
      <4>3. GraphsOf(<< >>) = {}
        BY DEF GraphsOf
      <4>4. (version + 1 .. version) = {}
        BY <1>1
      <4> QED
        BY <3>3, <3>5, <4>1, <4>2, <4>3, <4>4 DEF FitsNow, Fits, InOrder, Newer, Older
    <3> QED
      BY <1>1, <3>4, <3>6, <3>7, SameStays
  <2> QED
    BY <2>1, <2>2
<1>7. ASSUME NEW d \in Conn, StartPumps(d) PROVE Sources' /\ \A c \in Fed' : FitsNow(c)'
  <2>1. /\ handler[d] = "registered" /\ handler' = [handler EXCEPT ![d] = "started"]
        /\ gift' = [gift EXCEPT ![d] = Nil]
        /\ UNCHANGED <<clients, current, wire, bcast>>
        /\ \A c \in Conn \ {d} : sendCh'[c] = sendCh[c]
    BY <1>1, <1>7 DEF StartPumps, HubTyped, HubTypeOK
  <2>2. Quiet
    BY <1>1, <1>4, <2>1 DEF Quiet, Known, HubTyped, HubTypeOK
  <2>3. \A c \in Conn \ {d} : Same(c)
    BY <1>1, <1>4, <2>1 DEF Same, HubTyped, HubTypeOK
  <2>4. ASSUME d \in Fed PROVE FitsNow(d)'
    <3>1. /\ wire[d] \in Seq(Msg) /\ sendCh[d] \in Seq(Msg) /\ Got(d) \in Seq(Msg)
          /\ start[d] \in 0 .. MaxVersion /\ Offered(d) \in Int
          /\ gift[d] = IF start[d] = 0 THEN Nil ELSE start[d]
      <4>1. wire[d] \in Seq(Msg) /\ sendCh[d] \in Seq(Msg)
        BY <1>1 DEF HubTyped
      <4>2. start[d] \in 0 .. MaxVersion /\ Offered(d) \in Int
        BY <1>1 DEF Offered
      <4>3. gift[d] = IF start[d] = 0 THEN Nil ELSE start[d]
        BY <1>1, <2>1 DEF Sources
      <4> QED
        BY <4>1, <4>2, <4>3, ConcatProperties DEF Got
    <3>2. Fits(Got(d), start[d], Offered(d), FALSE)
      BY <1>1, <2>1, <2>4 DEF FitsNow, Fits
    <3>3. start' = start /\ Offered(d)' = Offered(d) /\ handler'[d] = "started"
      BY <1>1, <1>4, <2>1 DEF Offered, HubTyped, HubTypeOK
    <3>4. Fits(Got(d)', start[d], Offered(d), TRUE)
      <4>1. CASE start[d] = 0
        <5>1. Got(d)' = Got(d)
          BY <1>7, <2>1, <3>1, <4>1 DEF StartPumps, Got
        <5> QED
          BY <3>2, <4>1, <5>1 DEF Fits
      <4>2. CASE start[d] # 0
        <5>1. start[d] \in SnapshotVersion /\ gift[d] = start[d] /\ gift[d] # Nil
          BY <3>1, <4>2, FeedAssumption DEF SnapshotVersion
        <5>2. sendCh'[d] = Append(sendCh[d], SnapshotMsg(start[d]))
          BY <1>1, <1>7, <5>1 DEF StartPumps, HubTyped
        <5>3. wire[d] \o Append(sendCh[d], SnapshotMsg(start[d])) =
                Append(wire[d] \o sendCh[d], SnapshotMsg(start[d]))
          BY <3>1, <5>1, GotAppend, MsgHas
        <5>4. Got(d)' = Append(Got(d), SnapshotMsg(start[d]))
          BY <2>1, <5>2, <5>3 DEF Got
        <5> QED
          BY <3>1, <3>2, <5>1, <5>4, AppendBase
      <4> QED
        BY <4>1, <4>2
    <3> QED
      BY <3>3, <3>4 DEF FitsNow, Fits, InOrder, Newer, Older, GraphsOf, StateMsg
  <2> QED
    BY <1>2, <1>3, <2>1, <2>2, <2>3, <2>4
<1>8. ASSUME NEW d \in Conn, WriteMessage(d) PROVE Sources' /\ \A c \in Fed' : FitsNow(c)'
  <2>1. /\ writer[d] = "running" /\ sendCh[d] # << >>
        /\ sendCh' = [sendCh EXCEPT ![d] = Tail(sendCh[d])]
        /\ wire' = IF Head(sendCh[d]) = StatsMsg THEN wire
                   ELSE [wire EXCEPT ![d] = Append(wire[d], Head(sendCh[d]))]
        /\ UNCHANGED <<clients, current, gift, handler, bcast>>
    BY <1>1, <1>8 DEF WriteMessage, HubTyped
  <2>2. Quiet
    <3>1. d \in Known
      BY <1>1, <2>1 DEF Staged, Known
    <3> QED
      BY <1>1, <1>4, <2>1, <3>1 DEF Quiet, Known, HubTyped
  <2>3. \A c \in Conn \ {d} : Same(c)
    BY <1>1, <1>4, <2>1 DEF Same, HubTyped
  <2>4. ASSUME d \in Fed PROVE FitsNow(d)'
    <3>1. /\ wire[d] \in Seq(Msg) /\ sendCh[d] \in Seq(Msg) /\ Got(d) \in Seq(Msg)
          /\ start[d] \in Nat /\ Offered(d) \in Int
      BY <1>1, ConcatProperties DEF HubTyped, Got, Offered
    <3>2. start' = start /\ Offered(d)' = Offered(d) /\ handler' = handler
      BY <1>1, <1>4, <2>1 DEF Offered
    <3>3. Fits(Got(d)', start[d], Offered(d), handler[d] = "started")
      <4>1. CASE Head(sendCh[d]) = StatsMsg
        <5>1. Got(d)' = wire[d] \o Tail(sendCh[d])
          BY <1>1, <2>1, <4>1 DEF Got, HubTyped
        <5>2. Tail(sendCh[d]) \in Seq(Msg)
          BY <2>1, <3>1, HeadTailProperties
        <5>3. Got(d)' \in Seq(Msg) /\ SameGraphs(Got(d), Got(d)')
          BY <2>1, <3>1, <4>1, <5>1, <5>2, DropStats, ConcatProperties DEF Got
        <5> QED
          BY <1>1, <2>4, <3>1, <5>3, SameFits DEF FitsNow
      <4>2. CASE Head(sendCh[d]) # StatsMsg
        <5>1. Got(d)' = Append(wire[d], Head(sendCh[d])) \o Tail(sendCh[d])
          BY <1>1, <2>1, <4>2 DEF Got, HubTyped
        <5>2. Got(d)' = Got(d)
          BY <2>1, <3>1, <5>1, GotMove DEF Got
        <5> QED
          BY <1>1, <2>4, <5>2 DEF FitsNow
      <4> QED
        BY <4>1, <4>2
    <3> QED
      BY <3>2, <3>3 DEF FitsNow, Fits, InOrder, Newer, Older, GraphsOf, StateMsg
  <2> QED
    BY <1>2, <1>3, <2>1, <2>2, <2>3, <2>4
<1>9. ASSUME NEW d \in Conn, StopWriter(d) PROVE Sources' /\ \A c \in Fed' : FitsNow(c)'
  <2>1. /\ writer[d] = "running" /\ writer'[d] = "exited"
        /\ sendCh' = [sendCh EXCEPT ![d] = << >>]
        /\ UNCHANGED <<clients, current, gift, handler, wire, bcast>>
    BY <1>1, <1>9 DEF StopWriter, HubTyped, HubTypeOK
  <2>2. Quiet
    <3>1. d \in Known
      BY <1>1, <2>1 DEF Staged, Known
    <3> QED
      BY <1>1, <1>4, <2>1, <3>1 DEF Quiet, Known, HubTyped
  <2>3. \A c \in Conn \ {d} : Same(c)
    BY <1>1, <1>4, <2>1 DEF Same, HubTyped
  <2>4. d \notin Fed'
    BY <1>2, <2>1
  <2> QED
    BY <1>3, <2>1, <2>2, <2>3, <2>4, <1>2
<1>10. ASSUME NEW d \in Conn, StopReader(d) \/ PeerGone(d) \/ Expire(d) \/ CloseConn(d)
       PROVE  Sources' /\ \A c \in Fed' : FitsNow(c)'
  <2>1. clients' \subseteq clients /\ UNCHANGED <<current, gift, handler, wire, sendCh, bcast>>
    BY <1>10 DEF StopReader, PeerGone, Expire, CloseConn
  <2> QED
    BY <1>1, <1>2, <1>3, <1>4, <2>1 DEF Quiet, Known, Same
<1>11. ASSUME NEW d \in Conn, TellExpired(d) PROVE Sources' /\ \A c \in Fed' : FitsNow(c)'
  <2>1. /\ d \in sweep /\ TrySend(d, AuthExpiredMsg)
        /\ UNCHANGED <<clients, current, gift, handler, wire, bcast>>
    BY <1>11 DEF TellExpired
  <2>2. \A c \in Conn \ {d} : sendCh'[c] = sendCh[c]
    BY <1>1, <2>1 DEF TrySend, HubTyped
  <2>3. Quiet
    <3>1. d \in Known
      BY <1>1, <2>1 DEF Staged
    <3> QED
      BY <1>1, <1>4, <2>1, <2>2, <3>1 DEF Quiet, Known
  <2>4. \A c \in Conn \ {d} : Same(c)
    BY <1>1, <1>4, <2>1, <2>2 DEF Same
  <2>5. d \in Fed => FitsNow(d)'
    BY <1>1, <1>4, <2>1, OtherFits
  <2> QED
    BY <1>2, <1>3, <2>1, <2>3, <2>4, <2>5
<1>12. ASSUME NEW d \in Conn, Deliver("stats", d) PROVE Sources' /\ \A c \in Fed' : FitsNow(c)'
  <2>1. /\ d \in bcast["stats"].todo /\ TrySend(d, StatsMsg)
        /\ bcast'["state"] = bcast["state"]
        /\ bcast'["stats"].todo # {} => bcast'["stats"].msg = StatsMsg
        /\ UNCHANGED <<clients, current, gift, handler, wire>>
    BY <1>1, <1>12 DEF Deliver, Job, Sources, HubTyped, Broadcaster
  <2>2. \A c \in Conn \ {d} : sendCh'[c] = sendCh[c]
    BY <1>1, <2>1 DEF TrySend, HubTyped
  <2>3. d \in Known
    BY <1>1, <2>1 DEF Staged, Broadcaster
  <2>4. Sources'
    BY <1>1, <1>4, <2>1, <2>2, <2>3 DEF Sources, Known
  <2>5. \A c \in Conn \ {d} : Same(c)
    BY <1>1, <1>4, <2>1, <2>2 DEF Same
  <2>6. d \in Fed => FitsNow(d)'
    BY <1>1, <1>4, <2>1, OtherFits
  <2> QED
    BY <1>1, <1>2, <2>1, <2>4, <2>5, <2>6, SameStays
<1>13. ASSUME NEW d \in Conn, Deliver("state", d) PROVE Sources' /\ \A c \in Fed' : FitsNow(c)'
  <2>1. /\ d \in bcast["state"].todo /\ TrySend(d, bcast["state"].msg)
        /\ bcast["state"].msg = StateMsg(version)
        /\ bcast'["stats"] = bcast["stats"]
        /\ bcast'["state"].todo = bcast["state"].todo \ {d}
        /\ bcast'["state"].todo # {} => bcast'["state"].msg = StateMsg(version)
        /\ UNCHANGED <<clients, current, gift, handler, wire>>
    BY <1>1, <1>13 DEF Deliver, Job, Sources, HubTyped, Broadcaster
  <2>2. \A c \in Conn \ {d} : sendCh'[c] = sendCh[c]
    BY <1>1, <2>1 DEF TrySend, HubTyped
  <2>3. d \in Known
    BY <1>1, <2>1 DEF Staged, Broadcaster
  <2>4. Sources'
    BY <1>1, <1>4, <2>1, <2>2, <2>3 DEF Sources, Known
  <2>5. \A c \in Conn \ {d} : Same(c)
    BY <1>1, <1>4, <2>1, <2>2 DEF Same
  <2>6. ASSUME d \in Fed, d \in Fed' PROVE FitsNow(d)'
    <3>1. sendCh'[d] # sendCh[d]
      BY <1>1, <1>2, <2>1, <2>6 DEF History, DroppedNow
    <3>2. sendCh'[d] = Append(sendCh[d], StateMsg(version))
      BY <1>1, <2>1, <3>1 DEF TrySend, HubTyped
    <3>3. /\ wire[d] \in Seq(Msg) /\ sendCh[d] \in Seq(Msg) /\ Got(d) \in Seq(Msg)
          /\ start[d] \in Nat /\ start[d] < version /\ version \in SnapshotVersion
          /\ StateMsg(version) \in Msg
      BY <1>1, <2>1, ConcatProperties, MsgHas
      DEF HubTyped, Got, Sources, FeedInv, HubInv, Typed, SnapshotVersion
    <3>4. wire[d] \o Append(sendCh[d], StateMsg(version)) =
            Append(wire[d] \o sendCh[d], StateMsg(version))
      BY <3>3, GotAppend
    <3>5. Got(d)' = Append(Got(d), StateMsg(version))
      BY <2>1, <3>2, <3>4 DEF Got
    <3>6. Fits(Got(d), start[d], version - 1, handler[d] = "started")
      BY <1>1, <2>1, <2>6 DEF FitsNow, Offered
    <3>7. version - 1 \in Nat /\ start[d] <= version - 1 /\ version - 1 + 1 = version
      BY <1>1, <3>3
    <3>8. Fits(Got(d)', start[d], version, handler[d] = "started")
      <4> DEFINE last == version - 1
      <4>1. /\ last \in Nat /\ start[d] <= last /\ last + 1 = version
            /\ Fits(Got(d), start[d], last, handler[d] = "started")
        BY <3>6, <3>7
      <4> HIDE DEF last
      <4>2. Fits(Append(Got(d), StateMsg(last + 1)), start[d], last + 1, handler[d] = "started")
        BY <3>3, <4>1, AppendNext
      <4> QED
        BY <3>5, <4>1, <4>2
    <3>9. start' = start /\ Offered(d)' = version
      BY <1>4, <2>1 DEF Offered
    <3> QED
      BY <2>1, <3>8, <3>9 DEF FitsNow, Fits, InOrder, Newer, Older, GraphsOf, StateMsg
  <2> QED
    BY <1>1, <1>2, <2>1, <2>4, <2>5, <2>6, SameStays
<1>14. CASE BroadcastStats
  <2>1. /\ bcast'["state"] = bcast["state"] /\ bcast'["stats"] = Job(StatsMsg, clients)
        /\ UNCHANGED <<clients, current, gift, handler, wire, sendCh>>
    BY <1>1, <1>14 DEF BroadcastStats, HubTyped, Broadcaster
  <2>2. Sources'
    BY <1>1, <1>4, <2>1 DEF Sources, Known, Job
  <2>3. \A c \in Conn : Same(c)
    BY <1>1, <1>4, <2>1 DEF Same
  <2> QED
    BY <1>1, <1>2, <2>1, <2>2, <2>3, SameStays
<1>15. CASE SweepExpiredClients \/ Shutdown
  <2>1. UNCHANGED <<clients, current, gift, handler, wire, sendCh, bcast>>
    BY <1>15 DEF SweepExpiredClients, Shutdown
  <2>2. Quiet /\ \A c \in Conn : Same(c)
    BY <1>1, <1>4, <2>1 DEF Quiet, Known, Same
  <2> QED
    BY <1>1, <1>2, <2>1, <2>2, QuietStays, SameStays
<1> QED
  BY <1>5, <1>6, <1>7, <1>8, <1>9, <1>10, <1>11, <1>12, <1>13, <1>14, <1>15
  DEF HubNext, ConnNext, Writer, Broadcaster

\* The start of a state broadcast gives every client the next version to come.
LEMMA PipeFeeds ==
    ASSUME FeedInv, PipeToHub, History
    PROVE  Sources' /\ \A c \in Fed' : FitsNow(c)'
<1>1. /\ HubTyped /\ Staged /\ Sources /\ version \in Nat
      /\ start \in [Conn -> 0 .. MaxVersion] /\ \A c \in Fed : FitsNow(c)
  BY DEF FeedInv, HubInv, Typed
<1>2. /\ bcast["state"].todo = {} /\ bcast'["stats"] = bcast["stats"]
      /\ version' = version + 1 /\ current' = version'
      /\ bcast'["state"] = Job(StateMsg(version'), clients)
      /\ UNCHANGED <<clients, writer, handler, gift, wire, sendCh>>
  BY <1>1, FeedAssumption DEF PipeToHub, Broadcast, Idle, HubTyped, Broadcaster
<1>3. start' = start /\ clients \subseteq Conn
  BY <1>1, <1>2, StartStays DEF HubTyped, HubTypeOK
<1>4. \A c \in Conn : start[c] < version' /\ start[c] <= version'
  BY <1>1, <1>2 DEF Sources
<1>5. Sources'
  <2>1. current' = IF version' = 0 THEN Nil ELSE version'
    BY <1>1, <1>2
  <2>2. bcast'["state"].todo # {} => bcast'["state"].msg = StateMsg(version')
    BY <1>2 DEF Job
  <2>3. \A c \in bcast'["state"].todo : start'[c] < version'
    BY <1>2, <1>3, <1>4 DEF Job
  <2>4. \A c \in Conn : /\ start'[c] <= version'
                        /\ handler'[c] = "registered" =>
                            gift'[c] = IF start'[c] = 0 THEN Nil ELSE start'[c]
    BY <1>1, <1>2, <1>3, <1>4 DEF Sources
  <2>5. \A c \in Conn \ Known' : sendCh'[c] = << >> /\ wire'[c] = << >>
    BY <1>1, <1>2 DEF Sources, Known
  <2> QED
    BY <1>1, <1>2, <2>1, <2>2, <2>3, <2>4, <2>5 DEF Sources
<1>6. ASSUME NEW c \in Fed' PROVE FitsNow(c)'
  <2>1. c \in clients /\ c \in Fed
    BY <1>2, <1>6 DEF Fed, History
  <2>2. Offered(c)' = version /\ Offered(c) = version /\ Got(c)' = Got(c)
    BY <1>1, <1>2, <2>1 DEF Offered, Job, Got
  <2> QED
    BY <1>1, <1>2, <1>3, <2>1, <2>2 DEF FitsNow, Fits, InOrder, Newer, Older, GraphsOf, StateMsg
<1> QED
  BY <1>5, <1>6

\* Nobody was sent anything at first.
LEMMA InitFeeds == Init => FeedInv
<1> SUFFICES ASSUME Init PROVE FeedInv
  OBVIOUS
<1>1. Sources
  BY DEF Init, HubInit, Sources, Broadcaster
<1>2. Fed = {}
  BY DEF Init, HubInit, Fed
<1> QED
  BY <1>1, <1>2, InitInv DEF FeedInv

\* Every step of the feed keeps what each client gets.
LEMMA StepFeeds == FeedInv /\ [Next]_vars => FeedInv'
<1> SUFFICES ASSUME FeedInv, [Next]_vars PROVE FeedInv'
  OBVIOUS
<1>1. HubInv'
  BY StepInv DEF FeedInv
<1>2. CASE UNCHANGED vars
  <2>1. Sources' /\ Fed' = Fed /\ clients \subseteq Conn
    BY <1>2 DEF vars, hubVars, FeedInv, Sources, Known, Fed, HubInv, Typed, HubTyped, HubTypeOK
  <2>2. \A c : Same(c)
    BY <1>2 DEF vars, hubVars, Same
  <2> QED
    BY <1>1, <2>1, <2>2, SameStays DEF FeedInv
<1>3. CASE Next
  BY <1>1, <1>3, HubStepFeeds, PipeFeeds DEF Next, FeedInv
<1> QED
  BY <1>2, <1>3

\* NoVersionMissed: a client no message was dropped for has every version from the one
\* current when it registered, once and in order, for any clients, channels and number of
\* broadcasts (ws.go:131-148, 213-243).
THEOREM VersionsKept == Spec => []NoVersionMissed
<1>1. FeedInv => NoVersionMissed
  BY DEF FeedInv, Sources, NoVersionMissed, FitsNow, Fits
<1> QED
  BY <1>1, InitFeeds, StepFeeds, PTL DEF Spec
=============================================================================
