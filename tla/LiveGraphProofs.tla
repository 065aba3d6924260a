--------------------------- MODULE LiveGraphProofs ---------------------------
(***************************************************************************)
(* Proofs about StateManager and LiveGraph, for every set of ids and of    *)
(* snapshots, any number of connections and all capacities: types, the     *)
(* consistency of the merged graph, that what a subscriber is sent leads   *)
(* it to the merged graph, and that what is on its way to a page does.     *)
(***************************************************************************)
EXTENDS LiveGraph, SequenceTheorems, WellFoundedInduction, TLAPS

----------------------------------------------------------------------------
(* Graphs.                                                                 *)

\* Partial functions, from their domain and back.
LEMMA PartialIntro ==
    ASSUME NEW S, NEW T, NEW D \in SUBSET S, NEW f \in [D -> T]
    PROVE  f \in Partial(S, T)
BY DEF Partial

LEMMA PartialElim ==
    ASSUME NEW S, NEW T, NEW f \in Partial(S, T)
    PROVE  DOMAIN f \in SUBSET S /\ f \in [DOMAIN f -> T]
BY DEF Partial

\* Merging two graphs gives a graph, and a well-formed one: mergeSnapshots blanks
\* the network ids and skips the edges that dangle.
LEMMA MergeTyped ==
    ASSUME NEW compose \in Graph, NEW docker \in Graph
    PROVE  /\ MergeSnapshots(compose, docker) \in Graph
           /\ WellFormed(MergeSnapshots(compose, docker))
<1> DEFINE joined == MergeNodes(docker.nodes, compose.nodes)
           nodes == ClearDanglingNetworkIDs(joined)
           edges == MergeEdges(docker.edges, compose.edges, nodes)
<1>1. /\ docker.nodes \in Partial(NodeId, Node) /\ compose.nodes \in Partial(NodeId, Node)
      /\ docker.edges \in Partial(EdgeId, Mount) /\ compose.edges \in Partial(EdgeId, Mount)
  BY DEF Graph
<1>2. /\ DOMAIN docker.nodes \in SUBSET NodeId /\ docker.nodes \in [DOMAIN docker.nodes -> Node]
      /\ DOMAIN compose.nodes \in SUBSET NodeId /\ compose.nodes \in [DOMAIN compose.nodes -> Node]
  BY <1>1, PartialElim
<1>3. /\ DOMAIN docker.edges \in SUBSET EdgeId /\ docker.edges \in [DOMAIN docker.edges -> Mount]
      /\ DOMAIN compose.edges \in SUBSET EdgeId /\ compose.edges \in [DOMAIN compose.edges -> Mount]
  BY <1>1, PartialElim
<1>4. /\ DOMAIN joined = DOMAIN docker.nodes \union DOMAIN compose.nodes
      /\ joined \in [DOMAIN joined -> Node]
  <2>1. ASSUME NEW d \in Node, NEW m \in Node PROVE BackfillNode(d, m) \in Node
    BY DEF BackfillNode, Node
  <2> QED BY <1>2, <2>1 DEF MergeNodes
<1>5. /\ DOMAIN nodes = DOMAIN joined
      /\ nodes \in [DOMAIN nodes -> Node]
      /\ \A n \in DOMAIN nodes : nodes[n].networkId \in DOMAIN nodes \union {Empty}
  BY <1>4 DEF ClearDanglingNetworkIDs, Node
<1>6. /\ DOMAIN edges \in SUBSET EdgeId
      /\ edges \in [DOMAIN edges -> Mount]
      /\ \A e \in DOMAIN edges : From[e] \in DOMAIN nodes /\ To[e] \in DOMAIN nodes
  BY <1>3 DEF MergeEdges
<1>7. nodes \in Partial(NodeId, Node) /\ edges \in Partial(EdgeId, Mount)
  BY <1>2, <1>4, <1>5, <1>6, PartialIntro
<1>8. MergeSnapshots(compose, docker) = [nodes |-> nodes, edges |-> edges]
  BY DEF MergeSnapshots
<1> QED BY <1>5, <1>6, <1>7, <1>8 DEF Graph, WellFormed

\* The graph a collector stands at before its first report.
LEMMA EmptyGraphTyped == EmptyGraph \in Graph /\ WellFormed(EmptyGraph)
<1>1. /\ [n \in {} |-> Empty] \in [{} -> Node]
      /\ [e \in {} |-> Empty] \in [{} -> Mount]
  OBVIOUS
<1>2. /\ [n \in {} |-> Empty] \in Partial(NodeId, Node)
      /\ [e \in {} |-> Empty] \in Partial(EdgeId, Mount)
  BY <1>1, PartialIntro
<1> QED BY <1>2 DEF EmptyGraph, Graph, WellFormed

\* diffSnapshots makes a delta of any two graphs.
LEMMA DiffTyped ==
    ASSUME NEW prev \in Graph, NEW curr \in Graph
    PROVE  DiffSnapshots(prev, curr) \in Delta
<1>1. /\ DOMAIN prev.nodes \in SUBSET NodeId /\ DOMAIN curr.nodes \in SUBSET NodeId
      /\ DOMAIN prev.edges \in SUBSET EdgeId /\ DOMAIN curr.edges \in SUBSET EdgeId
      /\ curr.nodes \in [DOMAIN curr.nodes -> Node]
      /\ curr.edges \in [DOMAIN curr.edges -> Mount]
  BY PartialElim DEF Graph
<1>2. \A D \in SUBSET DOMAIN curr.nodes : Restrict(curr.nodes, D) \in Partial(NodeId, Node)
  <2> TAKE D \in SUBSET DOMAIN curr.nodes
  <2>1. D \in SUBSET NodeId /\ Restrict(curr.nodes, D) \in [D -> Node]
    BY <1>1 DEF Restrict
  <2> QED BY <2>1, PartialIntro
<1>3. \A D \in SUBSET DOMAIN curr.edges : Restrict(curr.edges, D) \in Partial(EdgeId, Mount)
  <2> TAKE D \in SUBSET DOMAIN curr.edges
  <2>1. D \in SUBSET EdgeId /\ Restrict(curr.edges, D) \in [D -> Mount]
    BY <1>1 DEF Restrict
  <2> QED BY <2>1, PartialIntro
<1>4. UpdatedNodes(prev, curr) \in SUBSET DOMAIN curr.nodes
  BY DEF UpdatedNodes
<1> QED BY <1>1, <1>2, <1>3, <1>4 DEF DiffSnapshots, Delta

\* A delta says nothing exactly when its graphs are the same to diffSnapshots.
LEMMA UnchangedIsSame ==
    ASSUME NEW g \in Graph, NEW h \in Graph, ~Changed(DiffSnapshots(g, h))
    PROVE  SameToDiff(g, h)
<1>1. DOMAIN g.nodes = DOMAIN h.nodes /\ DOMAIN g.edges = DOMAIN h.edges
  BY DEF Changed, DiffSnapshots, Restrict
<1>2. \A n \in DOMAIN g.nodes : g.nodes[n] = h.nodes[n]
  BY <1>1 DEF Changed, DiffSnapshots, UpdatedNodes, Restrict
<1>3. g.nodes \in [DOMAIN g.nodes -> Node] /\ h.nodes \in [DOMAIN h.nodes -> Node]
  BY PartialElim DEF Graph
<1> QED BY <1>1, <1>2, <1>3 DEF SameToDiff

\* diffSnapshots cannot tell such graphs apart as its first argument.
LEMMA SameDiff ==
    ASSUME NEW g, NEW h, NEW curr, SameToDiff(g, h)
    PROVE  DiffSnapshots(g, curr) = DiffSnapshots(h, curr)
BY DEF SameToDiff, DiffSnapshots, UpdatedNodes

----------------------------------------------------------------------------
(* Chains of messages.                                                     *)

\* A subscriber with nothing to read is where the manager is.
LEMMA ChainEmpty ==
    ASSUME NEW g, NEW m, SameToDiff(g, m)
    PROVE  Chain(g, << >>, m)
BY DEF Chain

\* The graph a chain leads to may be replaced by one that is the same to
\* diffSnapshots: an update that changes nothing.
LEMMA ChainTarget ==
    ASSUME NEW g, NEW q, NEW m, NEW m2, Chain(g, q, m), SameToDiff(m, m2)
    PROVE  Chain(g, q, m2)
BY DEF Chain, SameToDiff

\* A stats message leads nowhere, and harms no chain.
LEMMA ChainStats ==
    ASSUME NEW g, NEW q \in Seq(StateMessage), NEW m, Chain(g, q, m)
    PROVE  Chain(g, Append(q, StatsMsg), m)
<1> DEFINE r == Append(q, StatsMsg)
<1>1. /\ Len(r) = Len(q) + 1 /\ Len(q) \in Nat
      /\ \A i \in 1 .. Len(q) : r[i] = q[i]
      /\ r[Len(q) + 1] = StatsMsg
  OBVIOUS
<1>2. ~IsStateMsg(r[Len(q) + 1])
  BY <1>1 DEF StatsMsg, IsStateMsg
<1>3. \A j \in 1 .. Len(r) : IsStateMsg(r[j]) => j \in 1 .. Len(q)
  BY <1>1, <1>2
<1>4. \A i \in 0 .. Len(q) : \A j \in 1 .. Len(q) + 1 :
          OnlyStatsBetween(r, i, j) <=> OnlyStatsBetween(q, i, j)
  BY <1>1 DEF OnlyStatsBetween
<1>5. \A i \in 0 .. Len(q) :
          OnlyStatsBetween(r, i, Len(r) + 1) => OnlyStatsBetween(q, i, Len(q) + 1)
  BY <1>1 DEF OnlyStatsBetween
<1> HIDE DEF r
<1>6. Chain(g, r, m)
  <2>1. \A j \in 1 .. Len(r) :
            IsStateMsg(r[j]) /\ OnlyStatsBetween(r, 0, j) => Advances(g, r[j])
    BY <1>1, <1>3, <1>4 DEF Chain
  <2>2. \A i, j \in 1 .. Len(r) :
            i < j /\ IsStateMsg(r[i]) /\ IsStateMsg(r[j]) /\ OnlyStatsBetween(r, i, j)
              => Advances(r[i].snapshot, r[j])
    BY <1>1, <1>3, <1>4 DEF Chain
  <2>3. OnlyStatsBetween(r, 0, Len(r) + 1) => SameToDiff(g, m)
    BY <1>1, <1>5 DEF Chain
  <2>4. \A i \in 1 .. Len(r) :
            IsStateMsg(r[i]) /\ OnlyStatsBetween(r, i, Len(r) + 1) => SameToDiff(r[i].snapshot, m)
    BY <1>1, <1>3, <1>5 DEF Chain
  <2> QED BY <2>1, <2>2, <2>3, <2>4 DEF Chain
<1> QED BY <1>6 DEF r

\* A state message that advances the graph the chain led to extends it.
LEMMA ChainPush ==
    ASSUME NEW g, NEW q \in Seq(StateMessage), NEW m, NEW msg, Chain(g, q, m),
           IsStateMsg(msg), Advances(m, msg)
    PROVE  Chain(g, Append(q, msg), msg.snapshot)
<1> DEFINE r == Append(q, msg)
<1>1. /\ Len(r) = Len(q) + 1 /\ Len(q) \in Nat
      /\ \A i \in 1 .. Len(q) : r[i] = q[i]
      /\ r[Len(q) + 1] = msg
  OBVIOUS
<1>2. \A i \in 0 .. Len(q) : \A j \in 1 .. Len(q) + 1 :
          OnlyStatsBetween(r, i, j) <=> OnlyStatsBetween(q, i, j)
  BY <1>1 DEF OnlyStatsBetween
<1>3. \A h : SameToDiff(h, m) => Advances(h, msg)
  BY SameDiff DEF Advances
<1>4. \A i \in 0 .. Len(q) : ~OnlyStatsBetween(r, i, Len(r) + 1)
  BY <1>1 DEF OnlyStatsBetween
<1>5. \A j \in 1 .. Len(r) :
          IsStateMsg(r[j]) /\ OnlyStatsBetween(r, 0, j) => Advances(g, r[j])
  BY <1>1, <1>2, <1>3 DEF Chain
<1>6. \A i, j \in 1 .. Len(r) :
          i < j /\ IsStateMsg(r[i]) /\ IsStateMsg(r[j]) /\ OnlyStatsBetween(r, i, j)
            => Advances(r[i].snapshot, r[j])
  <2> TAKE i, j \in 1 .. Len(r)
  <2> HIDE DEF r
  <2> HAVE i < j /\ IsStateMsg(r[i]) /\ IsStateMsg(r[j]) /\ OnlyStatsBetween(r, i, j)
  <2>1. i \in 1 .. Len(q) /\ r[i] = q[i] /\ OnlyStatsBetween(q, i, j)
    BY <1>1, <1>2
  <2>2. CASE j \in 1 .. Len(q) BY <1>1, <2>1, <2>2 DEF Chain
  <2>3. CASE j = Len(q) + 1 BY <1>1, <1>3, <2>1, <2>3 DEF Chain
  <2> QED BY <1>1, <2>2, <2>3
<1>7. SameToDiff(msg.snapshot, msg.snapshot)
  BY DEF SameToDiff
<1> HIDE DEF r
<1>8. OnlyStatsBetween(r, 0, Len(r) + 1) => SameToDiff(g, msg.snapshot)
  BY <1>1, <1>4
<1>9. \A i \in 1 .. Len(r) :
          IsStateMsg(r[i]) /\ OnlyStatsBetween(r, i, Len(r) + 1)
            => SameToDiff(r[i].snapshot, msg.snapshot)
  BY <1>1, <1>4, <1>7
<1>10. Chain(g, r, msg.snapshot) BY <1>5, <1>6, <1>8, <1>9 DEF Chain
<1> QED BY <1>10 DEF r

\* Taking the first message leaves the chain from the graph it carries.
LEMMA ChainPop ==
    ASSUME NEW g, NEW q \in Seq(StateMessage), NEW m, Chain(g, q, m), q # << >>
    PROVE  Chain(IF Head(q).type = "stats" THEN g ELSE Head(q).snapshot, Tail(q), m)
<1> DEFINE r == Tail(q)
           h == IF Head(q).type = "stats" THEN g ELSE Head(q).snapshot
<1>1. /\ Len(q) \in Nat \ {0} /\ Len(r) = Len(q) - 1
      /\ \A i \in 1 .. Len(r) : r[i] = q[i + 1]
      /\ Head(q) = q[1]
  OBVIOUS
<1>2. \A i, j \in 0 .. Len(q) : OnlyStatsBetween(r, i, j) => OnlyStatsBetween(q, i + 1, j + 1)
  <2> TAKE i, j \in 0 .. Len(q)
  <2> HIDE DEF r
  <2> HAVE OnlyStatsBetween(r, i, j)
  <2>1. ASSUME NEW k \in i + 2 .. j PROVE ~IsStateMsg(q[k])
    <3>1. k - 1 \in i + 1 .. j - 1 /\ k - 1 \in 1 .. Len(r) BY <1>1
    <3>2. ~IsStateMsg(r[k - 1]) BY <3>1 DEF OnlyStatsBetween
    <3> QED BY <1>1, <3>1, <3>2
  <2> QED BY <2>1 DEF OnlyStatsBetween
<1>3. \A j \in 1 .. Len(q) : Head(q).type = "stats" /\ OnlyStatsBetween(q, 1, j)
          => OnlyStatsBetween(q, 0, j)
  BY <1>1 DEF OnlyStatsBetween, IsStateMsg
<1>4. OnlyStatsBetween(q, 1, Len(q) + 1) /\ Head(q).type = "stats"
          => OnlyStatsBetween(q, 0, Len(q) + 1)
  BY <1>1 DEF OnlyStatsBetween, IsStateMsg
<1>5. \A j \in 1 .. Len(r) :
          IsStateMsg(r[j]) /\ OnlyStatsBetween(r, 0, j) => Advances(h, r[j])
  <2> TAKE j \in 1 .. Len(r)
  <2> HIDE DEF r
  <2> HAVE IsStateMsg(r[j]) /\ OnlyStatsBetween(r, 0, j)
  <2>1. j + 1 \in 1 .. Len(q) /\ r[j] = q[j + 1] /\ OnlyStatsBetween(q, 1, j + 1)
    BY <1>1, <1>2
  <2>2. CASE Head(q).type = "stats" BY <1>3, <2>1, <2>2 DEF Chain
  <2>3. CASE Head(q).type # "stats"
    <3>1. 1 \in 1 .. Len(q) /\ 1 < j + 1 /\ IsStateMsg(q[1])
      BY <1>1, <2>3 DEF IsStateMsg
    <3> QED BY <1>1, <2>1, <2>3, <3>1 DEF Chain
  <2> QED BY <2>2, <2>3
<1>6. \A i, j \in 1 .. Len(r) :
          i < j /\ IsStateMsg(r[i]) /\ IsStateMsg(r[j]) /\ OnlyStatsBetween(r, i, j)
            => Advances(r[i].snapshot, r[j])
  <2> TAKE i, j \in 1 .. Len(r)
  <2> HIDE DEF r
  <2> HAVE i < j /\ IsStateMsg(r[i]) /\ IsStateMsg(r[j]) /\ OnlyStatsBetween(r, i, j)
  <2>1. /\ i + 1 \in 1 .. Len(q) /\ j + 1 \in 1 .. Len(q) /\ i + 1 < j + 1
        /\ r[i] = q[i + 1] /\ r[j] = q[j + 1] /\ OnlyStatsBetween(q, i + 1, j + 1)
    BY <1>1, <1>2
  <2> QED BY <2>1 DEF Chain
<1>7. OnlyStatsBetween(r, 0, Len(r) + 1) => SameToDiff(h, m)
  <2> HIDE DEF r
  <2> HAVE OnlyStatsBetween(r, 0, Len(r) + 1)
  <2>1. OnlyStatsBetween(q, 1, Len(q) + 1) BY <1>1, <1>2
  <2>2. CASE Head(q).type = "stats" BY <1>4, <2>1, <2>2 DEF Chain
  <2>3. CASE Head(q).type # "stats" BY <1>1, <2>1, <2>3 DEF Chain, IsStateMsg
  <2> QED BY <2>2, <2>3
<1>8. \A i \in 1 .. Len(r) :
          IsStateMsg(r[i]) /\ OnlyStatsBetween(r, i, Len(r) + 1) => SameToDiff(r[i].snapshot, m)
  <2> TAKE i \in 1 .. Len(r)
  <2> HIDE DEF r
  <2> HAVE IsStateMsg(r[i]) /\ OnlyStatsBetween(r, i, Len(r) + 1)
  <2>1. /\ i + 1 \in 1 .. Len(q) /\ r[i] = q[i + 1]
        /\ OnlyStatsBetween(q, i + 1, Len(q) + 1)
    BY <1>1, <1>2
  <2> QED BY <2>1 DEF Chain
<1> HIDE DEF r, h
<1>9. Chain(h, r, m) BY <1>5, <1>6, <1>7, <1>8 DEF Chain
<1> QED BY <1>9 DEF h, r

----------------------------------------------------------------------------
(* The steps of the manager.                                               *)

\* What the manager sends are messages.
LEMMA MessagesTyped ==
    /\ StatsMsg \in StateMessage
    /\ \A g \in Graph : SnapshotMsg(g) \in StateMessage
    /\ \A d \in Delta, g \in Graph : DeltaMsg(d, g) \in StateMessage
BY DEF StateMessage, StatsMsg, SnapshotMsg, DeltaMsg

\* Every message but stats carries the graph it leads to.
LEMMA StateMessageHasGraph ==
    \A msg \in StateMessage : msg.type # "stats" => msg.snapshot \in Graph
BY DEF StateMessage

\* A new manager has sent nothing.
LEMMA InitInv == Init => Inv
<1> SUFFICES ASSUME Init PROVE Inv OBVIOUS
<1>1. TypeOK
  <2>1. << >> \in Seq(StateMessage) /\ Len(<< >>) = 0 OBVIOUS
  <2>2. 0 <= ChanCap BY ManagerAssumption
  <2>3. \A s \in Sub : chan[s] = << >> BY DEF Init
  <2>4. \A s \in Sub : Len(chan[s]) <= ChanCap BY <2>1, <2>2, <2>3
  <2>5. chan \in [Sub -> Seq(StateMessage)] BY <2>1 DEF Init
  <2> QED BY <2>4, <2>5, EmptyGraphTyped DEF Init, TypeOK
<1>2. MergedWellFormed BY EmptyGraphTyped DEF Init, MergedWellFormed
<1>3. NewUntouched BY DEF Init, NewUntouched
<1>4. FeedsChain BY DEF Init, FeedsChain
<1> QED BY <1>1, <1>2, <1>3, <1>4 DEF Inv

\* The non-blocking send keeps the channels typed and bounded.
LEMMA SendTyped ==
    ASSUME TypeOK, NEW msg \in StateMessage, SendToAll(msg)
    PROVE  /\ chan' \in [Sub -> Seq(StateMessage)]
           /\ \A s \in Sub : Len(chan'[s]) <= ChanCap
           /\ \A s \in Sub : status[s] # "open" => chan'[s] = chan[s]
           /\ \A s \in Sub : status[s] = "open" =>
                 chan'[s] = IF HasRoom(s) THEN Append(chan[s], msg) ELSE chan[s]
<1>1. \A s \in Sub : /\ chan[s] \in Seq(StateMessage)
                     /\ Len(chan[s]) \in Nat /\ Len(chan[s]) <= ChanCap
  BY DEF TypeOK
<1>2. \A s \in Sub : /\ Append(chan[s], msg) \in Seq(StateMessage)
                     /\ Len(Append(chan[s], msg)) = Len(chan[s]) + 1
  BY <1>1
<1>3. ChanCap \in Nat BY ManagerAssumption
<1> QED BY <1>1, <1>2, <1>3 DEF SendToAll, Subscribers, HasRoom

\* The first message of a subscriber is the graph merged when it subscribed.
LEMMA SubscribeInv ==
    ASSUME Inv, NEW s \in Sub, Subscribe(s)
    PROVE  Inv'
<1> USE DEF Inv
<1>1. merged \in Graph /\ WellFormed(merged) BY DEF TypeOK, MergedWellFormed
<1> DEFINE first == IF DOMAIN merged.nodes # {} THEN <<SnapshotMsg(merged)>> ELSE << >>
<1>2. first \in Seq(StateMessage) /\ Len(first) <= ChanCap
  BY <1>1, MessagesTyped, ManagerAssumption
<1>3. chan' = [chan EXCEPT ![s] = first]
  BY DEF Subscribe
<1> HIDE DEF first
<1>4. TypeOK'
  BY <1>2, <1>3 DEF TypeOK, Subscribe
<1>5. chan[s] = << >> /\ seen[s] = EmptyGraph /\ ~lost[s]
  BY DEF NewUntouched, Subscribe
<1>6. Chain(EmptyGraph, first, merged)
  <2>1. CASE DOMAIN merged.nodes = {}
    <3>1. DOMAIN merged.edges = {} BY <1>1, <2>1 DEF WellFormed
    <3>2. merged.nodes \in [DOMAIN merged.nodes -> Node] BY <1>1, PartialElim DEF Graph
    <3>3. SameToDiff(EmptyGraph, merged) BY <2>1, <3>1, <3>2 DEF SameToDiff, EmptyGraph
    <3> QED BY <2>1, <3>3, ChainEmpty DEF first
  <2>2. CASE DOMAIN merged.nodes # {}
    <3>1. /\ Len(first) = 1 /\ first[1] = SnapshotMsg(merged)
      BY <2>2 DEF first
    <3>2. SameToDiff(merged, merged) BY DEF SameToDiff
    <3> HIDE DEF first
    <3> QED BY <3>1, <3>2 DEF Chain, SnapshotMsg, Advances, IsStateMsg, OnlyStatsBetween
  <2> QED BY <2>1, <2>2
<1>7. FeedsChain'
  <2> SUFFICES ASSUME NEW t \in Sub, status'[t] = "open", ~lost'[t]
               PROVE  Chain(seen'[t], chan'[t], merged')
    BY DEF FeedsChain
  <2>1. seen' = seen /\ merged' = merged /\ lost' = lost BY DEF Subscribe
  <2>2. CASE t = s BY <1>3, <1>5, <1>6, <2>1, <2>2 DEF TypeOK
  <2>3. CASE t # s BY <1>3, <2>1, <2>3 DEF FeedsChain, Subscribe, TypeOK
  <2> QED BY <2>2, <2>3
<1>8. MergedWellFormed' BY DEF MergedWellFormed, Subscribe
<1>9. NewUntouched' BY <1>3 DEF NewUntouched, Subscribe, TypeOK
<1> QED BY <1>4, <1>7, <1>8, <1>9

\* Unsubscribe closes the channel and sends nothing.
LEMMA UnsubscribeInv ==
    ASSUME Inv, NEW s \in Sub, Unsubscribe(s)
    PROVE  Inv'
<1>1. TypeOK' BY DEF Inv, TypeOK, Unsubscribe
<1> QED BY <1>1 DEF Inv, TypeOK, Unsubscribe, MergedWellFormed, NewUntouched, FeedsChain

\* Stats go to every subscriber with room.
LEMMA HandleStatsInv ==
    ASSUME Inv, HandleStats
    PROVE  Inv'
<1>1. TypeOK /\ SendToAll(StatsMsg) /\ StatsMsg \in StateMessage
  BY MessagesTyped DEF Inv, HandleStats
<1>2. TypeOK' BY <1>1, SendTyped DEF TypeOK, HandleStats
<1>3. FeedsChain'
  <2> SUFFICES ASSUME NEW t \in Sub, status'[t] = "open", ~lost'[t]
               PROVE  Chain(seen'[t], chan'[t], merged')
    BY DEF FeedsChain
  <2>1. status[t] = "open" /\ Chain(seen[t], chan[t], merged)
    BY DEF Inv, FeedsChain, HandleStats
  <2>2. chan'[t] = chan[t] \/ chan'[t] = Append(chan[t], StatsMsg)
    BY <1>1, <2>1, SendTyped
  <2>3. chan[t] \in Seq(StateMessage) BY <1>1 DEF TypeOK
  <2> QED BY <2>1, <2>2, <2>3, ChainStats DEF HandleStats
<1>4. NewUntouched' BY <1>1, SendTyped DEF Inv, NewUntouched, HandleStats
<1> QED BY <1>2, <1>3, <1>4 DEF Inv, MergedWellFormed, HandleStats

\* The merged graph stays a graph, and consistent, whatever a collector sends.
LEMMA MergeStep ==
    ASSUME TypeOK, NEW c \in Collector, NEW update \in Offers[c] \union {Nil},
           HandleUpdate(c, update)
    PROVE  snapshots' \in [Collector -> Graph] /\ merged' \in Graph /\ WellFormed(merged')
<1>1. snapshots' \in [Collector -> Graph]
  BY ManagerAssumption DEF TypeOK, HandleUpdate
<1>2. snapshots'["compose"] \in Graph /\ snapshots'["docker"] \in Graph
  BY <1>1 DEF Collector
<1> QED BY <1>1, <1>2, MergeTyped DEF HandleUpdate

\* An update sends the snapshot, the delta, or nothing, and so continues every chain.
LEMMA HandleUpdateInv ==
    ASSUME Inv, NEW c \in Collector, NEW update \in Offers[c] \union {Nil},
           HandleUpdate(c, update)
    PROVE  Inv'
<1>1. TypeOK BY DEF Inv
<1>2. snapshots' \in [Collector -> Graph] /\ merged' \in Graph /\ WellFormed(merged')
  BY <1>1, MergeStep
<1>3. hasState' = TRUE /\ status' = status /\ seen' = seen /\ Publish(merged')
  BY DEF HandleUpdate
<1>4. merged \in Graph BY <1>1 DEF TypeOK
<1> DEFINE delta == DiffSnapshots(merged, merged')
           lostNow == [s \in Sub |-> lost[s] \/ (s \in Subscribers /\ ~HasRoom(s))]
           Sent(msg) == SendToAll(msg) /\ lost' = lostNow
<1>5. \/ Sent(SnapshotMsg(merged'))
      \/ Changed(delta) /\ Sent(DeltaMsg(delta, merged'))
      \/ ~Changed(delta) /\ UNCHANGED <<chan, lost>>
  BY <1>3 DEF Publish
<1>6. delta \in Delta BY <1>2, <1>4, DiffTyped
<1>7. SnapshotMsg(merged') \in StateMessage /\ DeltaMsg(delta, merged') \in StateMessage
  BY <1>2, <1>6, MessagesTyped
<1> HIDE DEF delta
<1>8. ASSUME NEW msg \in StateMessage, Sent(msg), IsStateMsg(msg), msg.snapshot = merged',
             \A g : SameToDiff(g, merged) => Advances(g, msg)
      PROVE  Inv'
  <2>1. TypeOK'
    <3>1. lost' \in [Sub -> BOOLEAN] BY <1>8
    <3> QED BY <1>1, <1>2, <1>3, <1>8, <3>1, SendTyped DEF TypeOK
  <2>2. FeedsChain'
    <3> SUFFICES ASSUME NEW t \in Sub, status'[t] = "open", ~lost'[t]
                 PROVE  Chain(seen'[t], chan'[t], merged')
      BY DEF FeedsChain
    <3>1. status[t] = "open" /\ ~lost[t] /\ HasRoom(t) BY <1>3, <1>8 DEF Subscribers
    <3>2. chan'[t] = Append(chan[t], msg) BY <1>1, <1>8, <3>1, SendTyped
    <3>3. chan[t] \in Seq(StateMessage) /\ Chain(seen[t], chan[t], merged)
      BY <1>1, <3>1 DEF Inv, FeedsChain, TypeOK
    <3>4. Advances(merged, msg) BY <1>8 DEF SameToDiff
    <3>5. Chain(seen[t], Append(chan[t], msg), msg.snapshot)
      BY <1>8, <3>3, <3>4, ChainPush
    <3> QED BY <1>3, <1>8, <3>2, <3>5
  <2>3. NewUntouched'
    BY <1>1, <1>3, <1>8, SendTyped DEF Inv, NewUntouched, Subscribers
  <2> QED BY <1>2, <2>1, <2>2, <2>3 DEF Inv, MergedWellFormed
<1>9. CASE Sent(SnapshotMsg(merged'))
  BY <1>7, <1>8, <1>9 DEF SnapshotMsg, IsStateMsg, Advances
<1>10. CASE Changed(delta) /\ Sent(DeltaMsg(delta, merged'))
  <2>1. \A g : SameToDiff(g, merged) => delta = DiffSnapshots(g, merged')
    BY SameDiff DEF delta
  <2> QED BY <1>7, <1>8, <1>10, <2>1 DEF DeltaMsg, IsStateMsg, Advances
<1>11. CASE ~Changed(delta) /\ UNCHANGED <<chan, lost>>
  <2>1. SameToDiff(merged, merged') BY <1>2, <1>4, <1>11, UnchangedIsSame DEF delta
  <2>2. TypeOK' BY <1>1, <1>2, <1>3, <1>11 DEF TypeOK
  <2>3. FeedsChain'
    BY <1>1, <1>3, <1>11, <2>1, ChainTarget DEF Inv, FeedsChain, TypeOK
  <2> QED BY <1>2, <1>3, <1>11, <2>2, <2>3 DEF Inv, MergedWellFormed, NewUntouched
<1> QED BY <1>5, <1>9, <1>10, <1>11

\* A subscriber takes a message and sees its graph.
LEMMA ReceiveInv ==
    ASSUME Inv, NEW s \in Sub, Receive(s)
    PROVE  Inv'
<1>1. TypeOK BY DEF Inv
<1>2. chan[s] \in Seq(StateMessage) /\ chan[s] # << >> /\ Len(chan[s]) <= ChanCap
  BY <1>1 DEF Receive, TypeOK
<1>3. /\ Head(chan[s]) \in StateMessage
      /\ Tail(chan[s]) \in Seq(StateMessage)
      /\ Len(Tail(chan[s])) = Len(chan[s]) - 1 /\ Len(chan[s]) \in Nat
  BY <1>2
<1>4. Len(Tail(chan[s])) <= ChanCap BY <1>2, <1>3, ManagerAssumption
<1> DEFINE h == IF Head(chan[s]).type = "stats" THEN seen[s] ELSE Head(chan[s]).snapshot
<1>5. h \in Graph BY <1>1, <1>3, StateMessageHasGraph DEF TypeOK
<1>6. chan' = [chan EXCEPT ![s] = Tail(chan[s])] /\ seen' = [seen EXCEPT ![s] = h]
  BY DEF Receive
<1>7. Chain(seen[s], chan[s], merged) => Chain(h, Tail(chan[s]), merged)
  BY <1>2, ChainPop
<1> HIDE DEF h
<1>8. TypeOK' BY <1>1, <1>3, <1>4, <1>5, <1>6 DEF TypeOK, Receive
<1>9. FeedsChain'
  <2> SUFFICES ASSUME NEW t \in Sub, status[t] = "open", ~lost[t]
               PROVE  Chain(seen'[t], chan'[t], merged)
    BY DEF FeedsChain, Receive
  <2>1. Chain(seen[t], chan[t], merged) BY DEF Inv, FeedsChain
  <2>2. CASE t = s BY <1>1, <1>6, <1>7, <2>1, <2>2 DEF TypeOK
  <2>3. CASE t # s BY <1>1, <1>6, <2>1, <2>3 DEF TypeOK
  <2> QED BY <2>2, <2>3
<1>10. NewUntouched'
  BY <1>1, <1>2, <1>6 DEF Inv, NewUntouched, Receive, TypeOK
<1> QED BY <1>8, <1>9, <1>10 DEF Inv, MergedWellFormed, Receive

\* Every step of the manager keeps the invariant.
LEMMA NextInv == Inv /\ [Next]_vars => Inv'
<1> SUFFICES ASSUME Inv, [Next]_vars PROVE Inv' OBVIOUS
<1>1. CASE UNCHANGED vars
  BY <1>1 DEF vars, Inv, TypeOK, MergedWellFormed, NewUntouched, FeedsChain
<1>2. ASSUME NEW c \in Collector, NEW update \in Offers[c] \union {Nil},
             HandleUpdate(c, update)
      PROVE  Inv'
  BY <1>2, HandleUpdateInv
<1>3. CASE HandleStats BY <1>3, HandleStatsInv
<1>4. ASSUME NEW s \in Sub, Subscribe(s) PROVE Inv' BY <1>4, SubscribeInv
<1>5. ASSUME NEW s \in Sub, Unsubscribe(s) PROVE Inv' BY <1>5, UnsubscribeInv
<1>6. ASSUME NEW s \in Sub, Receive(s) PROVE Inv' BY <1>6, ReceiveInv
<1> QED BY <1>1, <1>2, <1>3, <1>4, <1>5, <1>6 DEF Next

\* The manager's inductive invariant: types, a consistent merged graph, and every chain
\* that lost nothing leads to it.
THEOREM InvHolds == Spec => []Inv
BY InitInv, NextInv, PTL DEF Spec

----------------------------------------------------------------------------

\* Type correctness of the manager, and the bound on every subscriber's channel.
THEOREM TypeCorrect == Spec => []TypeOK
<1>1. Inv => TypeOK BY DEF Inv
<1> QED BY InvHolds, <1>1, PTL

\* Whatever the two collectors report, and in whatever order, mergeSnapshots leaves
\* no container with a network that is not there and no edge without an endpoint.
THEOREM MergedConsistent == Spec => []MergedWellFormed
<1>1. Inv => MergedWellFormed BY DEF Inv
<1> QED BY InvHolds, <1>1, PTL

\* Subscribe and HandleUpdate under one lock: what a subscriber that lost nothing
\* has buffered always leads from the graph it last saw to the merged graph.
THEOREM FeedsCorrect == Spec => []FeedsChain
<1>1. Inv => FeedsChain BY DEF Inv
<1> QED BY InvHolds, <1>1, PTL
----------------------------------------------------------------------------
(* What the browser shows.                                                 *)

\* {...old, ...update} is a node again, with the fields the update has.
LEMMA OverlayTyped ==
    ASSUME NEW old \in Node, NEW update \in Node
    PROVE  /\ OverlayNode(old, update) \in Node
           /\ \A f \in Fields : update[f] # Empty => OverlayNode(old, update)[f] = update[f]
<1>1. DOMAIN old = Fields
  BY DEF Node, Fields
<1>2. OverlayNode(old, update) =
        [status |-> IF update.status = Empty THEN old.status ELSE update.status,
         networkId |-> IF update.networkId = Empty THEN old.networkId ELSE update.networkId,
         source |-> IF update.source = Empty THEN old.source ELSE update.source]
  BY <1>1 DEF OverlayNode, Fields
<1> QED BY <1>2 DEF Node, Fields

\* The elements of a sequence.
LEMMA SeqOf ==
    ASSUME NEW S, NEW s \in Seq(S)
    PROVE  Len(s) \in Nat /\ \A i \in 1 .. Len(s) : s[i] \in S
BY LenProperties, ElementOfSeq

\* The entries of one id after a delta: typed, and an update needs one to rewrite.
LEMMA PatchTyped ==
    ASSUME NEW T, NEW entries \in Seq(T), NEW removed, NEW id, NEW added,
           id \in DOMAIN added => added[id] \in T
    PROVE  PatchEntries(entries, removed, added, id) \in Seq(T)
<1> DEFINE kept == IF id \in removed THEN << >> ELSE entries
<1>1. kept \in Seq(T) BY EmptySeq
<1> HIDE DEF kept
<1>2. id \in DOMAIN added => Append(kept, added[id]) \in Seq(T)
  BY <1>1, AppendProperties
<1>3. PatchEntries(entries, removed, added, id) =
        IF id \in DOMAIN added THEN Append(kept, added[id]) ELSE kept
  BY DEF PatchEntries, kept
<1> QED BY <1>1, <1>2, <1>3

\* An update rewrites one node of the entries.
LEMMA UpdateTyped ==
    ASSUME NEW entries \in Seq(Node), NEW updated \in Partial(NodeId, Node), NEW id
    PROVE  UpdateFirst(entries, updated, id) \in Seq(Node)
<1>1. CASE id \in DOMAIN updated /\ entries # << >>
  <2>1. updated[id] \in Node BY <1>1, PartialElim
  <2>2. 1 \in 1 .. Len(entries) /\ entries[1] \in Node /\ Len(entries) \in Nat
    BY <1>1, EmptySeq, SeqOf
  <2>3. OverlayNode(entries[1], updated[id]) \in Node BY <2>1, <2>2, OverlayTyped
  <2>4. UpdateFirst(entries, updated, id) =
          [entries EXCEPT ![1] = OverlayNode(entries[1], updated[id])]
    BY <1>1 DEF UpdateFirst
  <2> QED BY <2>2, <2>3, <2>4, ExceptSeq
<1>2. CASE ~(id \in DOMAIN updated /\ entries # << >>)
  BY <1>2 DEF UpdateFirst
<1> QED BY <1>1, <1>2

\* Whatever the view and the message, what the page shows is a view again.
LEMMA DeltaViewed ==
    ASSUME NEW view \in View, NEW delta \in Delta
    PROVE  ApplyDelta(view, delta) \in View
<1>1. /\ view.nodes \in [NodeId -> Seq(Node)] /\ view.edges \in [EdgeId -> Seq(Mount)]
      /\ delta.nodesAdded \in Partial(NodeId, Node) /\ delta.nodesUpdated \in Partial(NodeId, Node)
      /\ delta.edgesAdded \in Partial(EdgeId, Mount)
  BY DEF View, Delta
<1>2. \A n \in DOMAIN delta.nodesAdded : delta.nodesAdded[n] \in Node
  BY <1>1, PartialElim
<1>3. \A e \in DOMAIN delta.edgesAdded : delta.edgesAdded[e] \in Mount
  BY <1>1, PartialElim
<1>4. ASSUME NEW n \in NodeId
      PROVE  UpdateFirst(PatchEntries(view.nodes[n], delta.nodesRemoved, delta.nodesAdded, n),
                         delta.nodesUpdated, n) \in Seq(Node)
  <2>1. PatchEntries(view.nodes[n], delta.nodesRemoved, delta.nodesAdded, n) \in Seq(Node)
    BY <1>1, <1>2, PatchTyped
  <2> QED BY <1>1, <2>1, UpdateTyped
<1>5. ASSUME NEW e \in EdgeId
      PROVE  PatchEntries(view.edges[e], delta.edgesRemoved, delta.edgesAdded, e) \in Seq(Mount)
  BY <1>1, <1>3, PatchTyped
<1> QED BY <1>4, <1>5 DEF ApplyDelta, View

\* A snapshot is shown as a view.
LEMMA GraphViewed ==
    ASSUME NEW graph \in Graph
    PROVE  ViewOf(graph) \in View
<1>1. /\ \A n \in DOMAIN graph.nodes : graph.nodes[n] \in Node
      /\ \A e \in DOMAIN graph.edges : graph.edges[e] \in Mount
  BY PartialElim DEF Graph
<1>2. /\ Entries(graph.nodes, NodeId) \in [NodeId -> Seq(Node)]
      /\ Entries(graph.edges, EdgeId) \in [EdgeId -> Seq(Mount)]
  BY <1>1, EmptySeq DEF Entries
<1> QED BY <1>2 DEF ViewOf, View

\* applyDelta takes a page that shows one graph to showing another, for the delta
\* diffSnapshots makes of the two.
LEMMA DeltaCovers ==
    ASSUME NEW view \in View, NEW g \in Graph, NEW h \in Graph, Covers(view, g)
    PROVE  Covers(ApplyDelta(view, DiffSnapshots(g, h)), h)
<1> DEFINE delta == DiffSnapshots(g, h)
           Patched(n) == PatchEntries(view.nodes[n], delta.nodesRemoved, delta.nodesAdded, n)
           Shown(n) == UpdateFirst(Patched(n), delta.nodesUpdated, n)
           Drawn(e) == PatchEntries(view.edges[e], delta.edgesRemoved, delta.edgesAdded, e)
<1>1. /\ view.nodes \in [NodeId -> Seq(Node)] /\ view.edges \in [EdgeId -> Seq(Mount)]
      /\ \A n \in DOMAIN g.nodes : g.nodes[n] \in Node
      /\ \A n \in DOMAIN h.nodes : h.nodes[n] \in Node
      /\ \A e \in DOMAIN h.edges : h.edges[e] \in Mount
  BY PartialElim DEF View, Graph
<1>2. ASSUME NEW n \in NodeId
      PROVE  IF n \in DOMAIN h.nodes
             THEN Len(Shown(n)) = 1 /\ FieldsShown(Shown(n)[1], h.nodes[n], Fields)
             ELSE Shown(n) = << >>
  <2> DEFINE old == view.nodes[n]
  <2>1. /\ old \in Seq(Node)
        /\ n \in DOMAIN g.nodes => Len(old) = 1 /\ FieldsShown(old[1], g.nodes[n], Fields)
        /\ n \notin DOMAIN g.nodes => old = << >>
    BY <1>1 DEF Covers, Shows
  <2>2. /\ n \in delta.nodesRemoved <=> n \in DOMAIN g.nodes /\ n \notin DOMAIN h.nodes
        /\ n \in DOMAIN delta.nodesAdded <=> n \in DOMAIN h.nodes /\ n \notin DOMAIN g.nodes
        /\ n \in DOMAIN delta.nodesUpdated <=>
              n \in DOMAIN g.nodes /\ n \in DOMAIN h.nodes /\ g.nodes[n] # h.nodes[n]
        /\ n \in DOMAIN delta.nodesAdded => delta.nodesAdded[n] = h.nodes[n]
        /\ n \in DOMAIN delta.nodesUpdated => delta.nodesUpdated[n] = h.nodes[n]
    BY DEF DiffSnapshots, Restrict, UpdatedNodes
  <2> HIDE DEF delta
  <2>3. CASE n \in DOMAIN g.nodes /\ n \in DOMAIN h.nodes
    <3>1. Patched(n) = old BY <2>2, <2>3 DEF PatchEntries
    <3>2. CASE g.nodes[n] = h.nodes[n]
      BY <2>1, <2>2, <2>3, <3>1, <3>2 DEF UpdateFirst
    <3>3. CASE g.nodes[n] # h.nodes[n]
      <4>1. old # << >> /\ old[1] \in Node /\ 1 \in 1 .. Len(old)
        BY <2>1, <2>3, SeqOf, EmptySeq
      <4>2. Shown(n) = [old EXCEPT ![1] = OverlayNode(old[1], h.nodes[n])]
        BY <2>2, <2>3, <3>1, <3>3, <4>1 DEF UpdateFirst
      <4>3. Len(Shown(n)) = 1 /\ Shown(n)[1] = OverlayNode(old[1], h.nodes[n])
        BY <1>1, <2>1, <2>3, <4>1, <4>2, OverlayTyped, ExceptSeq
      <4> QED BY <1>1, <2>3, <4>1, <4>3, OverlayTyped DEF FieldsShown
    <3> QED BY <3>2, <3>3
  <2>4. CASE n \in DOMAIN g.nodes /\ n \notin DOMAIN h.nodes
    BY <2>1, <2>2, <2>4 DEF PatchEntries, UpdateFirst
  <2>5. CASE n \notin DOMAIN g.nodes /\ n \in DOMAIN h.nodes
    <3>1. Patched(n) = Append(<< >>, h.nodes[n]) BY <2>1, <2>2, <2>5 DEF PatchEntries
    <3>2. Shown(n) = Patched(n) BY <2>2, <2>5 DEF UpdateFirst
    <3>3. Len(Shown(n)) = 1 /\ Shown(n)[1] = h.nodes[n] BY <3>1, <3>2
    <3> QED BY <2>5, <3>3 DEF FieldsShown
  <2>6. CASE n \notin DOMAIN g.nodes /\ n \notin DOMAIN h.nodes
    BY <2>1, <2>2, <2>6 DEF PatchEntries, UpdateFirst
  <2> QED BY <2>3, <2>4, <2>5, <2>6
<1>3. ASSUME NEW e \in EdgeId
      PROVE  Len(Drawn(e)) = IF e \in DOMAIN h.edges THEN 1 ELSE 0
  <2> DEFINE old == view.edges[e]
  <2>1. old \in Seq(Mount) /\ Len(old) = IF e \in DOMAIN g.edges THEN 1 ELSE 0
    BY <1>1 DEF Covers, Shows
  <2>2. /\ e \in delta.edgesRemoved <=> e \in DOMAIN g.edges /\ e \notin DOMAIN h.edges
        /\ e \in DOMAIN delta.edgesAdded <=> e \in DOMAIN h.edges /\ e \notin DOMAIN g.edges
        /\ e \in DOMAIN delta.edgesAdded => delta.edgesAdded[e] = h.edges[e]
    BY DEF DiffSnapshots, Restrict
  <2> HIDE DEF delta
  <2>3. CASE e \in DOMAIN delta.edgesAdded
    <3>1. Drawn(e) = Append(old, h.edges[e]) BY <2>2, <2>3 DEF PatchEntries
    <3>2. Len(Drawn(e)) = Len(old) + 1 BY <1>1, <2>1, <2>2, <2>3, <3>1, AppendProperties
    <3> QED BY <2>1, <2>2, <2>3, <3>2
  <2>4. CASE e \notin DOMAIN delta.edgesAdded
    BY <2>1, <2>2, <2>4 DEF PatchEntries
  <2> QED BY <2>3, <2>4
<1>4. /\ \A n \in NodeId : ApplyDelta(view, delta).nodes[n] = Shown(n)
      /\ \A e \in EdgeId : ApplyDelta(view, delta).edges[e] = Drawn(e)
  BY DEF ApplyDelta
<1> HIDE DEF Shown, Drawn
<1> QED BY <1>2, <1>3, <1>4 DEF Covers, Shows

----------------------------------------------------------------------------
(* Deltas on their way.                                                    *)

\* What goes over a connection.
Message == [type : {"snapshot"}, data : Graph] \union [type : {"delta"}, data : Delta]

DeltaOf(g, h) == [type |-> "delta", data |-> DiffSnapshots(g, h)]

\* The messages of q are the deltas of one graph after the other, from g to m as far as
\* diffSnapshots tells.
Leads(g, q, m) ==
    \E gs \in [0 .. Len(q) -> Graph] :
        /\ gs[0] = g /\ SameToDiff(gs[Len(q)], m)
        /\ \A i \in 1 .. Len(q) : q[i] = DeltaOf(gs[i - 1], gs[i])

\* Nothing on the way leads from a graph to itself.
LEMMA LeadsNowhere ==
    ASSUME NEW g \in Graph, NEW m, SameToDiff(g, m)
    PROVE  Leads(g, << >>, m)
<1> DEFINE gs == [i \in 0 .. 0 |-> g]
<1>1. gs \in [0 .. Len(<< >>) -> Graph] /\ gs[0] = g /\ gs[Len(<< >>)] = g
  OBVIOUS
<1>2. \A i \in 1 .. Len(<< >>) : << >>[i] = DeltaOf(gs[i - 1], gs[i])
  OBVIOUS
<1> HIDE DEF gs
<1> QED BY <1>1, <1>2 DEF Leads

\* One delta more.
LEMMA LeadsOn ==
    ASSUME NEW g, NEW q \in Seq(Message), NEW m, NEW h \in Graph, Leads(g, q, m)
    PROVE  Leads(g, Append(q, DeltaOf(m, h)), h)
<1>1. PICK n \in Nat : n = Len(q) BY LenProperties
<1>2. PICK gs \in [0 .. n -> Graph] :
        /\ gs[0] = g /\ SameToDiff(gs[n], m)
        /\ \A i \in 1 .. n : q[i] = DeltaOf(gs[i - 1], gs[i])
  BY <1>1 DEF Leads
<1> DEFINE hs == [i \in 0 .. n + 1 |-> IF i = n + 1 THEN h ELSE gs[i]]
           r == Append(q, DeltaOf(m, h))
<1>3. /\ hs \in [0 .. n + 1 -> Graph] /\ hs[0] = g /\ hs[n + 1] = h
      /\ \A i \in 0 .. n : hs[i] = gs[i]
  BY <1>2
<1>4. Len(r) = n + 1 /\ r[n + 1] = DeltaOf(m, h) /\ \A i \in 1 .. n : r[i] = q[i]
  BY <1>1
<1> HIDE DEF hs, r
<1>5. DeltaOf(m, h) = DeltaOf(gs[n], h)
  BY <1>2, SameDiff DEF DeltaOf
<1>6. \A i \in 1 .. n + 1 : r[i] = DeltaOf(hs[i - 1], hs[i])
  <2> SUFFICES ASSUME NEW i \in 1 .. n + 1 PROVE r[i] = DeltaOf(hs[i - 1], hs[i])
    OBVIOUS
  <2>1. CASE i = n + 1
    <3>1. hs[n] = gs[n] /\ i - 1 = n BY <1>3, <2>1
    <3> QED BY <1>3, <1>4, <1>5, <2>1, <3>1
  <2>2. CASE i # n + 1
    <3>1. i \in 1 .. n /\ i - 1 \in 0 .. n /\ i \in 0 .. n BY <2>2
    <3> QED BY <1>2, <1>3, <1>4, <3>1
  <2> QED BY <2>1, <2>2
<1>7. SameToDiff(hs[n + 1], h) BY <1>3 DEF SameToDiff
<1>8. Leads(g, r, h) BY <1>3, <1>4, <1>6, <1>7 DEF Leads
<1> QED BY <1>8 DEF r

\* The same to diffSnapshots will do.
LEMMA LeadsSame ==
    ASSUME NEW g, NEW q, NEW m, NEW m2, Leads(g, q, m), SameToDiff(m, m2)
    PROVE  Leads(g, q, m2)
BY DEF Leads, SameToDiff

\* One delta less.
LEMMA LeadsTail ==
    ASSUME NEW g, NEW q \in Seq(Message), NEW m, Leads(g, q, m), q # << >>
    PROVE  \E h \in Graph : Head(q) = DeltaOf(g, h) /\ Leads(h, Tail(q), m)
<1>1. PICK n \in Nat : n = Len(q) /\ n > 0 BY EmptySeq, LenProperties
<1>2. PICK gs \in [0 .. n -> Graph] :
        /\ gs[0] = g /\ SameToDiff(gs[n], m)
        /\ \A i \in 1 .. n : q[i] = DeltaOf(gs[i - 1], gs[i])
  BY <1>1 DEF Leads
<1> DEFINE hs == [i \in 0 .. n - 1 |-> gs[i + 1]]
           r == Tail(q)
<1>3. /\ hs \in [0 .. n - 1 -> Graph] /\ hs[n - 1] = gs[n]
      /\ \A i \in 0 .. n - 1 : hs[i] = gs[i + 1]
  BY <1>1, <1>2
<1>4. Len(r) = n - 1 /\ (\A i \in 1 .. n - 1 : r[i] = q[i + 1]) /\ Head(q) = q[1]
  BY <1>1
<1> HIDE DEF hs, r
<1>5. \A i \in 1 .. n - 1 : r[i] = DeltaOf(hs[i - 1], hs[i])
  <2> SUFFICES ASSUME NEW i \in 1 .. n - 1 PROVE r[i] = DeltaOf(hs[i - 1], hs[i])
    OBVIOUS
  <2>1. i + 1 \in 1 .. n /\ i - 1 \in 0 .. n - 1 /\ i \in 0 .. n - 1 /\ i + 1 - 1 = i /\ i - 1 + 1 = i
    BY <1>1
  <2>2. q[i + 1] = DeltaOf(gs[i], gs[i + 1]) BY <1>2, <2>1
  <2> QED BY <1>3, <1>4, <2>1, <2>2
<1>6. Leads(hs[0], r, m) /\ hs[0] = gs[1] /\ gs[1] \in Graph
  <2>1. 0 \in 0 .. n - 1 /\ 1 \in 0 .. n BY <1>1
  <2>2. gs[1] \in Graph BY <1>2, <2>1
  <2>3. hs[0] = gs[1] BY <1>3, <2>1
  <2>4. SameToDiff(hs[Len(r)], m) BY <1>2, <1>3, <1>4
  <2>5. hs \in [0 .. Len(r) -> Graph] BY <1>3, <1>4
  <2>6. \A i \in 1 .. Len(r) : r[i] = DeltaOf(hs[i - 1], hs[i]) BY <1>4, <1>5
  <2>7. Leads(hs[0], r, m) BY <2>4, <2>5, <2>6 DEF Leads
  <2> QED BY <2>2, <2>3, <2>7
<1>7. Head(q) = DeltaOf(g, gs[1])
  <2>1. 1 \in 1 .. n BY <1>1
  <2> QED BY <1>2, <1>4, <2>1
<1> QED BY <1>6, <1>7 DEF r

\* State messages as the hub sends them on.
Sent(ch) == [i \in 1 .. Len(ch) |-> WireMsg(ch[i])]
NoStats(ch) == \A i \in 1 .. Len(ch) : IsStateMsg(ch[i])

\* What the hub broadcasts for a state message.
LEMMA WireTyped ==
    ASSUME NEW msg \in StateMessage, IsStateMsg(msg)
    PROVE  /\ WireMsg(msg) \in Message /\ WireMsg(msg).type = msg.type
           /\ WireMsg(msg).data = IF msg.type = "delta" THEN msg.delta ELSE msg.snapshot
           /\ msg.snapshot \in Graph /\ msg.type \in {"snapshot", "delta"}
BY DEF StateMessage, IsStateMsg, WireMsg, Message

\* What is sent on is as long as the channel.
LEMMA SentTyped ==
    ASSUME NEW ch \in Seq(StateMessage), NoStats(ch)
    PROVE  /\ Sent(ch) \in Seq(Message) /\ Len(Sent(ch)) = Len(ch)
           /\ \A i \in 1 .. Len(ch) : Sent(ch)[i] = WireMsg(ch[i])
<1>1. PICK n \in Nat : n = Len(ch) BY LenProperties
<1>2. \A i \in 1 .. n : WireMsg(ch[i]) \in Message
  BY <1>1, SeqOf, WireTyped DEF NoStats
<1>3. Sent(ch) \in [1 .. n -> Message] BY <1>1, <1>2 DEF Sent
<1>4. Sent(ch) \in Seq(Message) /\ Len(Sent(ch)) = n BY <1>3
<1> QED BY <1>1, <1>4 DEF Sent

\* A message is sent, or taken.
LEMMA SentOn ==
    ASSUME NEW ch \in Seq(StateMessage), NoStats(ch), NEW msg \in StateMessage, IsStateMsg(msg)
    PROVE  NoStats(Append(ch, msg)) /\ Sent(Append(ch, msg)) = Append(Sent(ch), WireMsg(msg))
<1> DEFINE r == Append(ch, msg)
           q == Append(Sent(ch), WireMsg(msg))
<1>1. PICK n \in Nat : n = Len(ch) BY LenProperties
<1>2. /\ r \in Seq(StateMessage) /\ Len(r) = n + 1 /\ r[n + 1] = msg
      /\ \A i \in 1 .. n : r[i] = ch[i]
  BY <1>1, AppendProperties
<1>3. /\ Sent(ch) \in Seq(Message) /\ Len(Sent(ch)) = n /\ WireMsg(msg) \in Message
      /\ \A i \in 1 .. n : Sent(ch)[i] = WireMsg(ch[i])
  BY <1>1, SentTyped, WireTyped
<1>4. /\ q \in Seq(Message) /\ Len(q) = n + 1 /\ q[n + 1] = WireMsg(msg)
      /\ \A i \in 1 .. n : q[i] = Sent(ch)[i]
  BY <1>3, AppendProperties
<1> HIDE DEF r, q
<1>5. NoStats(r)
  BY <1>1, <1>2 DEF NoStats
<1>6. /\ Sent(r) \in Seq(Message) /\ Len(Sent(r)) = n + 1
      /\ \A i \in 1 .. n + 1 : Sent(r)[i] = WireMsg(r[i])
  BY <1>2, <1>5, SentTyped
<1>7. \A i \in 1 .. n + 1 : Sent(r)[i] = q[i]
  <2>1. \A i \in 1 .. n : Sent(r)[i] = q[i] BY <1>2, <1>3, <1>4, <1>6
  <2>2. Sent(r)[n + 1] = q[n + 1] BY <1>2, <1>4, <1>6
  <2> QED BY <2>1, <2>2
<1>8. Sent(r) = q BY <1>4, <1>6, <1>7, SeqEqual
<1> QED BY <1>5, <1>8 DEF r, q

\* The first message of the channel is the first the hub sends on.
LEMMA SentTail ==
    ASSUME NEW ch \in Seq(StateMessage), NoStats(ch), ch # << >>
    PROVE  /\ NoStats(Tail(ch)) /\ Tail(ch) \in Seq(StateMessage)
           /\ Sent(ch) = <<WireMsg(Head(ch))>> \o Sent(Tail(ch))
           /\ Head(ch) \in StateMessage /\ IsStateMsg(Head(ch))
<1> DEFINE r == Tail(ch)
           q == <<WireMsg(Head(ch))>> \o Sent(r)
<1>1. PICK n \in Nat : n = Len(ch) /\ n > 0 BY EmptySeq, LenProperties
<1>2. /\ r \in Seq(StateMessage) /\ Len(r) = n - 1 /\ Head(ch) = ch[1]
      /\ \A i \in 1 .. n - 1 : r[i] = ch[i + 1]
  BY <1>1, HeadTailProperties
<1> HIDE DEF r
<1>3. NoStats(r)
  <2>1. \A i \in 1 .. n - 1 : i + 1 \in 1 .. n OBVIOUS
  <2> QED BY <1>1, <1>2, <2>1 DEF NoStats
<1>4. Head(ch) \in StateMessage /\ IsStateMsg(Head(ch))
  <2>1. 1 \in 1 .. n BY <1>1
  <2> QED BY <1>1, <1>2, <2>1, SeqOf DEF NoStats
<1>5. /\ Sent(ch) \in Seq(Message) /\ Len(Sent(ch)) = n
      /\ \A i \in 1 .. n : Sent(ch)[i] = WireMsg(ch[i])
  BY <1>1, SentTyped
<1>6. /\ Sent(r) \in Seq(Message) /\ Len(Sent(r)) = n - 1
      /\ \A i \in 1 .. n - 1 : Sent(r)[i] = WireMsg(r[i])
  BY <1>2, <1>3, SentTyped
<1>7. <<WireMsg(Head(ch))>> \in Seq(Message) /\ Len(<<WireMsg(Head(ch))>>) = 1
  BY <1>4, WireTyped
<1>8. /\ q \in Seq(Message) /\ Len(q) = n
      /\ \A i \in 1 .. n : q[i] = IF i <= 1 THEN WireMsg(Head(ch)) ELSE Sent(r)[i - 1]
  <2>1. 1 + (n - 1) = n BY <1>1
  <2>2. /\ q \in Seq(Message) /\ Len(q) = n
        /\ \A i \in 1 .. n : q[i] = IF i <= 1 THEN <<WireMsg(Head(ch))>>[i] ELSE Sent(r)[i - 1]
    BY <1>6, <1>7, <2>1, ConcatProperties
  <2>3. \A i \in 1 .. n : i <= 1 => <<WireMsg(Head(ch))>>[i] = WireMsg(Head(ch))
    OBVIOUS
  <2> QED BY <2>2, <2>3
<1> HIDE DEF q
<1>9. \A i \in 1 .. n : Sent(ch)[i] = q[i]
  <2> SUFFICES ASSUME NEW i \in 1 .. n PROVE Sent(ch)[i] = q[i] OBVIOUS
  <2>1. CASE i = 1 BY <1>2, <1>5, <1>8, <2>1
  <2>2. CASE i # 1
    <3>1. i - 1 \in 1 .. n - 1 /\ ~(i <= 1) /\ i - 1 + 1 = i BY <2>2
    <3> QED BY <1>2, <1>5, <1>6, <1>8, <3>1
  <2> QED BY <2>1, <2>2
<1>10. Sent(ch) = q BY <1>5, <1>8, <1>9, SeqEqual
<1> QED BY <1>2, <1>3, <1>4, <1>10 DEF r, q

\* A chain of deltas leads where the chain does.
LEMMA ChainLeads ==
    ASSUME NEW g \in Graph, NEW ch \in Seq(StateMessage), NEW m, Chain(g, ch, m),
           \A i \in 1 .. Len(ch) : ch[i].type = "delta"
    PROVE  Leads(g, Sent(ch), m)
<1>1. PICK n \in Nat : n = Len(ch) BY LenProperties
<1>2. NoStats(ch) BY DEF NoStats, IsStateMsg
<1> DEFINE gs == [i \in 0 .. n |-> IF i = 0 THEN g ELSE ch[i].snapshot]
<1>3. \A i \in 1 .. n : /\ ch[i] \in StateMessage /\ IsStateMsg(ch[i]) /\ ch[i].type = "delta"
                        /\ ch[i].snapshot \in Graph
                        /\ Sent(ch)[i] = [type |-> "delta", data |-> ch[i].delta]
  <2> SUFFICES ASSUME NEW i \in 1 .. n
               PROVE  /\ ch[i] \in StateMessage /\ IsStateMsg(ch[i]) /\ ch[i].type = "delta"
                      /\ ch[i].snapshot \in Graph
                      /\ Sent(ch)[i] = [type |-> "delta", data |-> ch[i].delta]
    OBVIOUS
  <2>1. ch[i] \in StateMessage /\ IsStateMsg(ch[i]) /\ ch[i].type = "delta"
    BY <1>1, <1>2, SeqOf DEF NoStats
  <2> QED BY <1>1, <2>1, WireTyped DEF Sent, WireMsg
<1>4. /\ gs \in [0 .. n -> Graph] /\ gs[0] = g
      /\ \A i \in 1 .. n : gs[i] = ch[i].snapshot
  <2>1. \A i \in 1 .. n : ch[i].snapshot \in Graph BY <1>3
  <2>2. \A i \in 0 .. n : i # 0 => i \in 1 .. n OBVIOUS
  <2>3. gs \in [0 .. n -> Graph] BY <2>1, <2>2
  <2>4. 0 \in 0 .. n /\ \A i \in 1 .. n : i \in 0 .. n /\ i # 0 OBVIOUS
  <2> QED BY <2>3, <2>4
<1> HIDE DEF gs
<1>5. \A i \in 1 .. n : Sent(ch)[i] = DeltaOf(gs[i - 1], gs[i])
  <2> SUFFICES ASSUME NEW i \in 1 .. n PROVE Sent(ch)[i] = DeltaOf(gs[i - 1], gs[i])
    OBVIOUS
  <2>1. Advances(gs[i - 1], ch[i])
    <3>1. CASE i = 1
      <4>1. OnlyStatsBetween(ch, 0, 1) BY DEF OnlyStatsBetween
      <4>2. 1 \in 1 .. Len(ch) /\ IsStateMsg(ch[1]) BY <1>1, <1>3, <3>1
      <4>3. Advances(g, ch[1]) BY <4>1, <4>2 DEF Chain
      <4>4. gs[i - 1] = g /\ ch[i] = ch[1] BY <1>4, <3>1
      <4> QED BY <4>3, <4>4
    <3>2. CASE i # 1
      <4>1. i - 1 \in 1 .. n /\ i - 1 < i BY <3>2
      <4>2. OnlyStatsBetween(ch, i - 1, i) BY DEF OnlyStatsBetween
      <4> QED BY <1>1, <1>3, <1>4, <4>1, <4>2 DEF Chain
    <3> QED BY <3>1, <3>2
  <2> QED BY <1>3, <1>4, <2>1 DEF Advances, DeltaOf
<1>6. SameToDiff(gs[n], m)
  <2>1. CASE n = 0
    <3>1. OnlyStatsBetween(ch, 0, Len(ch) + 1) BY <1>1, <2>1 DEF OnlyStatsBetween
    <3> QED BY <1>4, <2>1, <3>1 DEF Chain
  <2>2. CASE n # 0
    <3>1. n \in 1 .. n BY <2>2
    <3>2. OnlyStatsBetween(ch, n, Len(ch) + 1) BY <1>1 DEF OnlyStatsBetween
    <3> QED BY <1>1, <1>3, <1>4, <3>1, <3>2 DEF Chain
  <2> QED BY <2>1, <2>2
<1>7. Len(Sent(ch)) = n BY <1>1, <1>2, SentTyped
<1> QED BY <1>4, <1>5, <1>6, <1>7 DEF Leads

----------------------------------------------------------------------------
(* The way of a message: the manager's channel, the broadcast, the         *)
(* client's channel, the connection.                                       *)

\* All that is on the way: on the connection, in the client's channel, being broadcast, in
\* the manager's channel.
Way(w, c, t, m) == w \o c \o t \o m

\* A message is on the same way when it gets from the broadcast to the client's channel ...
Delivered(w, c, x, m) == Way(w, c, <<x>>, m) = Way(w, Append(c, x), << >>, m)

\* ... and from there to the connection.
SameWay(w, c, v, d, t, m) == Way(w, c, t, m) = Way(v, d, t, m)

\* A message put in an empty channel, on a connection that carries nothing, comes first.
ComesFirst(x, t, m) == Way(<< >>, <<x>>, t, m) = <<x>> \o Way(<< >>, << >>, t, m)

\* With the first message of the connection taken, the rest is on the way still.
SameRest(w, c, t, m) == Tail(Way(w, c, t, m)) = Way(Tail(w), c, t, m)

\* A message put first is taken first ...
LEMMA HeadOn ==
    ASSUME NEW S, NEW x \in S, NEW q \in Seq(S)
    PROVE  /\ <<x>> \o q \in Seq(S) /\ <<x>> \o q # << >>
           /\ Head(<<x>> \o q) = x /\ Tail(<<x>> \o q) = q
<1> DEFINE r == <<x>> \o q
<1>1. PICK n \in Nat : n = Len(q) BY LenProperties
<1>2. <<x>> \in Seq(S) /\ Len(<<x>>) = 1 /\ <<x>>[1] = x OBVIOUS
<1>3. /\ r \in Seq(S) /\ Len(r) = 1 + n
      /\ \A i \in 1 .. 1 + n : r[i] = IF i <= 1 THEN <<x>>[i] ELSE q[i - 1]
  BY <1>1, <1>2, ConcatProperties
<1> HIDE DEF r
<1>4. r # << >> BY <1>3, EmptySeq
<1>5. Head(r) = x BY <1>2, <1>3
<1>6. Tail(r) \in Seq(S) /\ Len(Tail(r)) = n /\ \A i \in 1 .. n : Tail(r)[i] = r[i + 1]
  BY <1>3, <1>4, HeadTailProperties
<1>7. \A i \in 1 .. n : Tail(r)[i] = q[i]
  <2> SUFFICES ASSUME NEW i \in 1 .. n PROVE Tail(r)[i] = q[i] OBVIOUS
  <2>1. i + 1 \in 1 .. 1 + n /\ ~(i + 1 <= 1) /\ i + 1 - 1 = i OBVIOUS
  <2> QED BY <1>3, <1>6, <2>1
<1>8. Tail(r) = q BY <1>1, <1>6, <1>7, SeqEqual
<1> QED BY <1>3, <1>4, <1>5, <1>8 DEF r

\* ... and a sequence is its first message and the rest.
LEMMA HeadOff ==
    ASSUME NEW S, NEW q \in Seq(S), q # << >>
    PROVE  /\ Head(q) \in S /\ Tail(q) \in Seq(S) /\ q = <<Head(q)>> \o Tail(q)
<1> DEFINE r == <<Head(q)>> \o Tail(q)
<1>1. PICK n \in Nat : n = Len(q) /\ n > 0 BY EmptySeq, LenProperties
<1>2. /\ Head(q) \in S /\ Tail(q) \in Seq(S) /\ Len(Tail(q)) = n - 1 /\ Head(q) = q[1]
      /\ \A i \in 1 .. n - 1 : Tail(q)[i] = q[i + 1]
  BY <1>1, HeadTailProperties
<1>3. <<Head(q)>> \in Seq(S) /\ Len(<<Head(q)>>) = 1 /\ <<Head(q)>>[1] = Head(q) BY <1>2
<1>4. 1 + (n - 1) = n BY <1>1
<1>5. /\ r \in Seq(S) /\ Len(r) = n
      /\ \A i \in 1 .. n : r[i] = IF i <= 1 THEN <<Head(q)>>[i] ELSE Tail(q)[i - 1]
  BY <1>2, <1>3, <1>4, ConcatProperties
<1> HIDE DEF r
<1>6. \A i \in 1 .. n : q[i] = r[i]
  <2> SUFFICES ASSUME NEW i \in 1 .. n PROVE q[i] = r[i] OBVIOUS
  <2>1. CASE i = 1 BY <1>2, <1>3, <1>5, <2>1
  <2>2. CASE i # 1
    <3>1. i - 1 \in 1 .. n - 1 /\ ~(i <= 1) /\ i - 1 + 1 = i BY <2>2
    <3> QED BY <1>2, <1>5, <3>1
  <2> QED BY <2>1, <2>2
<1>7. q = r BY <1>1, <1>5, <1>6, SeqEqual
<1> QED BY <1>2, <1>7 DEF r

\* One message, or none.
LEMMA OneTyped ==
    ASSUME NEW S, NEW x \in S
    PROVE  <<x>> \in Seq(S) /\ << >> \in Seq(S)
OBVIOUS

\* Whichever part of the way is joined first.
LEMMA Associates == \A S : \A x, y, z \in Seq(S) : (x \o y) \o z = x \o (y \o z)
BY ConcatAssociative

\* Messages on the way are messages.
LEMMA WayTyped ==
    ASSUME NEW S, NEW w \in Seq(S), NEW c \in Seq(S), NEW t \in Seq(S), NEW m \in Seq(S)
    PROVE  /\ Way(w, c, t, m) \in Seq(S)
           /\ w \o c \o t \in Seq(S) /\ w \o c \in Seq(S)
<1>1. w \o c \in Seq(S) BY ConcatProperties
<1>2. (w \o c) \o t \in Seq(S) BY <1>1, ConcatProperties
<1>3. ((w \o c) \o t) \o m \in Seq(S) BY <1>2, ConcatProperties
<1> QED BY <1>1, <1>2, <1>3 DEF Way

\* The hub takes the manager's next message ...
LEMMA WayBroadcast ==
    ASSUME NEW S, NEW w \in Seq(S), NEW c \in Seq(S), NEW x \in S, NEW m \in Seq(S)
    PROVE  Way(w, c, << >>, <<x>> \o m) = Way(w, c, <<x>>, m)
<1>1. w \o c \in Seq(S) /\ <<x>> \in Seq(S) BY OneTyped, ConcatProperties
<1>2. (w \o c) \o << >> = w \o c BY <1>1, ConcatEmptySeq
<1>3. ((w \o c) \o <<x>>) \o m = (w \o c) \o (<<x>> \o m) BY <1>1, ConcatAssociative
<1> QED BY <1>2, <1>3 DEF Way

\* ... puts it in the client's channel ...
LEMMA WayDeliver ==
    ASSUME NEW S, NEW w \in Seq(S), NEW c \in Seq(S), NEW x \in S, NEW m \in Seq(S)
    PROVE  Delivered(w, c, x, m)
<1>1. w \o c \in Seq(S) /\ <<x>> \in Seq(S) /\ Append(c, x) = c \o <<x>>
  BY OneTyped, ConcatProperties, AppendIsConcat
<1>2. (w \o c) \o <<x>> = w \o Append(c, x) BY <1>1, ConcatAssociative
<1>3. w \o Append(c, x) \in Seq(S) BY <1>1, <1>2, ConcatProperties
<1>4. (w \o Append(c, x)) \o << >> = w \o Append(c, x) BY <1>3, ConcatEmptySeq
<1> QED BY <1>2, <1>4 DEF Way, Delivered

\* ... and the writer on the connection.
LEMMA WayWrite ==
    ASSUME NEW S, NEW w \in Seq(S), NEW c \in Seq(S), NEW t \in Seq(S), NEW m \in Seq(S),
           c # << >>
    PROVE  SameWay(w, c, Append(w, Head(c)), Tail(c), t, m)
<1>1. Head(c) \in S /\ Tail(c) \in Seq(S) /\ c = <<Head(c)>> \o Tail(c) BY HeadOff
<1>2. PICK x \in S, u \in Seq(S) : x = Head(c) /\ u = Tail(c) BY <1>1
<1>3. <<x>> \in Seq(S) /\ Append(w, x) = w \o <<x>> BY OneTyped, AppendIsConcat
<1>4. (w \o <<x>>) \o u = w \o (<<x>> \o u) BY <1>3, ConcatAssociative
<1>5. w \o c = Append(w, x) \o u BY <1>1, <1>2, <1>3, <1>4
<1> QED BY <1>2, <1>5 DEF Way, SameWay

\* The browser takes the first one.
LEMMA WayTake ==
    ASSUME NEW S, NEW w \in Seq(S), w # << >>, NEW c \in Seq(S), NEW t \in Seq(S), NEW m \in Seq(S)
    PROVE  /\ Way(w, c, t, m) # << >>
           /\ Head(Way(w, c, t, m)) = Head(w)
           /\ SameRest(w, c, t, m)
<1>1. PICK x \in S, u \in Seq(S) : x = Head(w) /\ u = Tail(w) /\ w = <<x>> \o u BY HeadOff
<1> DEFINE Same(y, z, v) == (y \o z) \o v = y \o (z \o v)
<1>2. \A T : \A y, z, v \in Seq(T) : Same(y, z, v) BY Associates
<1> HIDE DEF Same
<1>3. /\ <<x>> \in Seq(S) /\ u \o c \in Seq(S) /\ u \o c \o t \in Seq(S)
      /\ Way(u, c, t, m) \in Seq(S)
  BY <1>1, OneTyped, WayTyped
<1>4. Same(<<x>>, u, c) /\ Same(<<x>>, u \o c, t) /\ Same(<<x>>, u \o c \o t, m)
  BY <1>1, <1>2, <1>3
<1>5. Way(w, c, t, m) = <<x>> \o Way(u, c, t, m)
  <2>1. (<<x>> \o u) \o c = <<x>> \o (u \o c) BY <1>4 DEF Same
  <2>2. (<<x>> \o (u \o c)) \o t = <<x>> \o (u \o c \o t) BY <1>4 DEF Same
  <2>3. (<<x>> \o (u \o c \o t)) \o m = <<x>> \o (u \o c \o t \o m) BY <1>4 DEF Same
  <2> QED BY <1>1, <2>1, <2>2, <2>3 DEF Way
<1>6. PICK r \in Seq(S) : r = Way(u, c, t, m) BY <1>3
<1>7. Way(w, c, t, m) = <<x>> \o r BY <1>5, <1>6
<1>8. <<x>> \o r # << >> /\ Head(<<x>> \o r) = x /\ Tail(<<x>> \o r) = r BY <1>1, <1>6, HeadOn
<1> QED BY <1>1, <1>6, <1>7, <1>8 DEF SameRest

\* A message enters at the end.
LEMMA WayAppend ==
    ASSUME NEW S, NEW w \in Seq(S), NEW c \in Seq(S), NEW t \in Seq(S), NEW m \in Seq(S), NEW x \in S
    PROVE  Way(w, c, t, Append(m, x)) = Append(Way(w, c, t, m), x)
<1>1. w \o c \o t \in Seq(S) /\ Way(w, c, t, m) \in Seq(S) /\ <<x>> \in Seq(S)
  BY OneTyped, WayTyped
<1>2. Append(m, x) = m \o <<x>> /\ Append(Way(w, c, t, m), x) = Way(w, c, t, m) \o <<x>>
  BY <1>1, AppendIsConcat
<1> DEFINE Same(y, z, v) == (y \o z) \o v = y \o (z \o v)
<1>3. \A T : \A y, z, v \in Seq(T) : Same(y, z, v) BY Associates
<1> HIDE DEF Same
<1>4. Same(w \o c \o t, m, <<x>>) BY <1>1, <1>3
<1> QED BY <1>2, <1>4 DEF Way, Same

\* A snapshot put in an empty channel comes before all that is on the way.
LEMMA WayFirst ==
    ASSUME NEW S, NEW x \in S, NEW t \in Seq(S), NEW m \in Seq(S)
    PROVE  ComesFirst(x, t, m)
<1>1. <<x>> \in Seq(S) /\ << >> \in Seq(S) /\ t \o m \in Seq(S) BY OneTyped, ConcatProperties
<1>2. << >> \o <<x>> = <<x>> /\ << >> \o << >> = << >> /\ << >> \o t = t
  BY <1>1, ConcatEmptySeq
<1>3. (<<x>> \o t) \o m = <<x>> \o (t \o m) BY <1>1, ConcatAssociative
<1> QED BY <1>2, <1>3 DEF Way, ComesFirst

\* What comes first in a client's channel comes first on the way of a connection that
\* carries nothing, and one message more behind it changes nothing of that.
LEMMA WayHead ==
    ASSUME NEW S, NEW c \in Seq(S), c # << >>, NEW t \in Seq(S), NEW m \in Seq(S), NEW x \in S
    PROVE  /\ Way(<< >>, c, t, m) # << >> /\ Head(Way(<< >>, c, t, m)) = Head(c)
           /\ Head(Way(<< >>, Append(c, x), t, m)) = Head(c)
<1>1. ASSUME NEW d \in Seq(S), d # << >>
      PROVE  Way(<< >>, d, t, m) # << >> /\ Head(Way(<< >>, d, t, m)) = Head(d)
  <2>1. << >> \o d = d /\ d \o << >> = d BY <1>1, ConcatEmptySeq
  <2>2. Way(<< >>, d, t, m) = Way(d, << >>, t, m) BY <2>1 DEF Way
  <2>3. PICK e \in Seq(S) : e = << >> BY EmptySeq
  <2>4. Way(d, e, t, m) # << >> /\ Head(Way(d, e, t, m)) = Head(d) BY <1>1, WayTake
  <2> QED BY <2>2, <2>3, <2>4
<1>2. Append(c, x) \in Seq(S) /\ Append(c, x) # << >> /\ Head(Append(c, x)) = Head(c)
  BY AppendProperties, HeadTailAppend
<1> QED BY <1>1, <1>2

\* Before its pumps start a connection waits for what is in the manager's channel.
LEMMA WayEmpty ==
    ASSUME NEW S, NEW m \in Seq(S)
    PROVE  Way(<< >>, << >>, << >>, m) = m
<1>1. << >> \o << >> = << >> /\ << >> \o m = m BY ConcatEmptySeq, EmptySeq
<1> QED BY <1>1 DEF Way

----------------------------------------------------------------------------
(* From the collectors to the page.                                        *)

\* pipeToHub's subscription.
Pipe == CHOOSE s \in Sub : Sub = {s}

\* main.go subscribes pipeToHub alone.
LEMMA OnePipe == Sub = {Pipe} /\ Pipe \in Sub
BY LiveAssumption DEF Pipe

Waiting(c) == IF c \in bcast["state"].todo THEN <<bcast["state"].msg>> ELSE << >>
OnWay(c) == Way(wire[c], sendCh[c], Waiting(c), Sent(chan[Pipe]))

HubTyped ==
    /\ clients \subseteq Conn
    /\ current \in Graph \union {Nil}
    /\ handler \in [Conn -> {"none", "admitted", "registered", "started", "refused"}]
    /\ gift \in [Conn -> Graph \union {Nil}]
    /\ writer \in [Conn -> {"off", "running", "exited"}]
    /\ reader \in [Conn -> {"off", "running", "exited"}]
    /\ socket \in [Conn -> {"open", "gone", "closed"}]
    /\ sendCh \in [Conn -> Seq(Message)] /\ wire \in [Conn -> Seq(Message)]
    /\ bcast \in [{"state", "stats"} -> [msg : Message \union {Nil}, todo : SUBSET Conn]]
    /\ bcast["state"].todo # {} => bcast["state"].msg \in Message
    /\ link \in Conn \union {Nil}
    /\ page = [view |-> page.view, fingerprint |-> page.fingerprint] /\ page.view \in View
    /\ sync \in {"waiting", "synced", "broken"}

\* The manager sends a snapshot first, if at all; the hub's is the last one it took.
ManagerFirst ==
    /\ NoStats(chan[Pipe])
    /\ \A i \in 1 .. Len(chan[Pipe]) :
          chan[Pipe][i].type = "snapshot" => i = 1 /\ current = Nil
    /\ current = Nil \/ current = seen[Pipe]
    /\ status[Pipe] \in {"new", "open"}
    /\ status[Pipe] = "new" => current = Nil /\ link = Nil
    /\ ~hasState => merged = EmptyGraph /\ chan[Pipe] = << >> /\ current = Nil

\* What a connection can hold, before and after it is registered.
Stages ==
    /\ \A c \in Conn :
          /\ handler[c] \in {"none", "admitted"} =>
                sendCh[c] = << >> /\ c \notin clients /\ c \notin bcast["state"].todo
          /\ handler[c] # "started" => writer[c] = "off" /\ reader[c] = "off" /\ wire[c] = << >>
          /\ handler[c] = "none" => c # link
          /\ writer[c] = "exited" \/ reader[c] = "exited" => socket[c] # "open"
          /\ socket[c] = "open" =>
                /\ handler[c] \in {"admitted", "registered", "started"}
                /\ handler[c] # "admitted" => c \in clients
          /\ gift[c] # Nil => handler[c] = "registered"
          /\ current = Nil =>
                /\ sendCh[c] = << >> /\ wire[c] = << >> /\ c \notin bcast["state"].todo
                /\ gift[c] = Nil
    /\ link # Nil => /\ handler[link] \in {"admitted", "registered"} => sync = "waiting"
                     /\ current = Nil => sync = "waiting"

\* A snapshot at the head of q leads, with the rest of q, to m.
FirstLeads(q, m) ==
    q # << >> /\ Head(q).type = "snapshot" => Leads(Head(q).data, Tail(q), m)

\* What is on the way to a page leads to graph m: from the snapshot its handler is still to
\* send, from the snapshot that comes first, or from the graph it shows.
Fits(state, first, view, q, m) ==
    /\ state = "waiting" /\ first # Nil => Leads(first, q, m)
    /\ state = "waiting" /\ first = Nil => FirstLeads(q, m)
    /\ state = "synced" => \E g \in Graph : Covers(view, g) /\ Leads(g, q, m)

Fed == Up /\ Lossless => Fits(sync, gift[link], page.view, OnWay(link), merged)

LiveInv == Inv /\ HubTyped /\ ManagerFirst /\ Stages /\ Fed

\* What the collectors report later is led to as well.
LEMMA FitsOn ==
    ASSUME NEW state, NEW first, NEW view, NEW q \in Seq(Message), NEW m, NEW h \in Graph,
           Fits(state, first, view, q, m)
    PROVE  Fits(state, first, view, Append(q, DeltaOf(m, h)), h)
<1> DEFINE d == DeltaOf(m, h)
           r == Append(q, d)
<1>1. \A g : Leads(g, q, m) => Leads(g, r, h) BY LeadsOn
<1>2. FirstLeads(q, m) => FirstLeads(r, h)
  <2> SUFFICES ASSUME FirstLeads(q, m), r # << >>, Head(r).type = "snapshot"
               PROVE  Leads(Head(r).data, Tail(r), h)
    BY DEF FirstLeads
  <2>1. CASE q = << >>
    <3>1. Head(r) = d BY <2>1, HeadTailAppend
    <3> QED BY <3>1 DEF DeltaOf
  <2>2. CASE q # << >>
    <3>1. Head(r) = Head(q) /\ Tail(r) = Append(Tail(q), d) BY <2>2, HeadTailAppend
    <3>2. Leads(Head(q).data, Tail(q), m) /\ Tail(q) \in Seq(Message)
      BY <2>2, <3>1, HeadTailProperties DEF FirstLeads
    <3>3. Leads(Head(q).data, Append(Tail(q), d), h) BY <3>2, LeadsOn
    <3> QED BY <3>1, <3>3
  <2> QED BY <2>1, <2>2
<1> QED BY <1>1, <1>2 DEF Fits

\* An update that changes nothing to diffSnapshots sends nothing, and nothing is missing.
LEMMA FitsSame ==
    ASSUME NEW state, NEW first, NEW view, NEW q, NEW m, NEW m2,
           Fits(state, first, view, q, m), SameToDiff(m, m2)
    PROVE  Fits(state, first, view, q, m2)
<1>1. \A g, p : Leads(g, p, m) => Leads(g, p, m2) BY LeadsSame
<1> QED BY <1>1 DEF Fits, FirstLeads

\* Each part of the way holds messages, none of them stats.
LEMMA OnWayTyped ==
    ASSUME Inv, HubTyped, ManagerFirst, NEW c \in Conn
    PROVE  /\ wire[c] \in Seq(Message) /\ sendCh[c] \in Seq(Message)
           /\ Waiting(c) \in Seq(Message) /\ Sent(chan[Pipe]) \in Seq(Message)
           /\ OnWay(c) \in Seq(Message)
           /\ chan[Pipe] \in Seq(StateMessage) /\ NoStats(chan[Pipe])
<1>1. wire[c] \in Seq(Message) /\ sendCh[c] \in Seq(Message) BY DEF HubTyped
<1>2. Waiting(c) \in Seq(Message)
  <2>1. c \in bcast["state"].todo => bcast["state"].msg \in Message BY DEF HubTyped
  <2> QED BY <2>1, OneTyped, EmptySeq DEF Waiting
<1>3. chan[Pipe] \in Seq(StateMessage) /\ NoStats(chan[Pipe])
  BY OnePipe DEF Inv, TypeOK, ManagerFirst
<1>4. Sent(chan[Pipe]) \in Seq(Message) BY <1>3, SentTyped
<1> QED BY <1>1, <1>2, <1>3, <1>4, WayTyped DEF OnWay

----------------------------------------------------------------------------
(* The steps.                                                              *)

\* Nothing is on its way, and there is no page yet.
LEMMA LiveStart == LiveInit => LiveInv
<1> SUFFICES ASSUME LiveInit PROVE LiveInv OBVIOUS
<1> USE DEF LiveInit
<1>1. Inv BY InitInv
<1>2. HubTyped
  <2>1. EmptyView \in View
    <3>1. \A n \in NodeId : << >> \in Seq(Node) BY EmptySeq
    <3>2. \A e \in EdgeId : << >> \in Seq(Mount) BY EmptySeq
    <3> QED BY <3>1, <3>2 DEF EmptyView, View
  <2>2. page = [view |-> EmptyView, fingerprint |-> Nil] BY DEF FreshPage
  <2>3. page = [view |-> page.view, fingerprint |-> page.fingerprint] /\ page.view \in View
    BY <2>1, <2>2
  <2>4. /\ sendCh \in [Conn -> Seq(Message)] /\ wire \in [Conn -> Seq(Message)]
    BY EmptySeq DEF hub!HubInit
  <2> QED BY <2>3, <2>4 DEF HubTyped, hub!HubInit, hub!Broadcaster
<1>3. ManagerFirst
  <2>1. chan[Pipe] = << >> /\ status[Pipe] = "new" BY OnePipe DEF Init
  <2>2. Len(<< >>) = 0 /\ 1 .. 0 = {} OBVIOUS
  <2> QED BY <2>1, <2>2 DEF ManagerFirst, NoStats, Init, hub!HubInit
<1>4. Stages
  <2>1. \A c \in Conn : c # link BY LiveAssumption
  <2> QED BY <2>1 DEF Stages, hub!HubInit, hub!Broadcaster
<1>5. Fed BY DEF Fed, Up
<1> QED BY <1>1, <1>2, <1>3, <1>4, <1>5 DEF LiveInv

\* A step that leaves what is on the way to the page where it is, or breaks the connection.
LEMMA FedStays ==
    ASSUME Fed, UNCHANGED <<merged, lost, page, link, sync>>, dropped \subseteq dropped',
           Up' => Up,
           Up' => OnWay(link)' = OnWay(link) /\ gift'[link] = gift[link]
    PROVE  Fed'
<1> SUFFICES ASSUME Up', Lossless' PROVE Fits(sync, gift[link], page.view, OnWay(link), merged)'
  BY DEF Fed
<1>1. Up /\ Lossless BY DEF Lossless
<1>2. Fits(sync, gift[link], page.view, OnWay(link), merged) BY <1>1 DEF Fed
<1> QED BY <1>2

\* The manager's chain, from the snapshot it begins with.
LEMMA ChainFirst ==
    ASSUME NEW g \in Graph, NEW ch \in Seq(StateMessage), NEW m, Chain(g, ch, m), NoStats(ch),
           \A i \in 1 .. Len(ch) : ch[i].type = "snapshot" => i = 1
    PROVE  FirstLeads(Sent(ch), m)
<1> DEFINE q == Sent(ch)
<1> SUFFICES ASSUME q # << >>, Head(q).type = "snapshot" PROVE Leads(Head(q).data, Tail(q), m)
  BY DEF FirstLeads
<1> HIDE DEF q
<1>1. ch # << >>
  <2>1. Len(q) = Len(ch) /\ q \in Seq(Message) BY SentTyped DEF q
  <2> QED BY <2>1, EmptySeq
<1> DEFINE x == Head(ch)
           r == Tail(ch)
<1>2. /\ x \in StateMessage /\ IsStateMsg(x) /\ r \in Seq(StateMessage) /\ NoStats(r)
      /\ q = <<WireMsg(x)>> \o Sent(r)
  BY <1>1, SentTail DEF q
<1>3. WireMsg(x) \in Message /\ Sent(r) \in Seq(Message) BY <1>2, WireTyped, SentTyped
<1>4. Head(q) = WireMsg(x) /\ Tail(q) = Sent(r) BY <1>2, <1>3, HeadOn
<1>5. x.type = "snapshot" /\ Head(q).data = x.snapshot /\ x.snapshot \in Graph
  BY <1>2, <1>4, WireTyped
<1>6. Chain(x.snapshot, r, m) BY <1>1, <1>5, ChainPop
<1>7. \A i \in 1 .. Len(r) : r[i].type = "delta"
  <2>1. PICK n \in Nat : n = Len(ch) /\ n > 0 BY <1>1, EmptySeq, LenProperties
  <2>2. Len(r) = n - 1 /\ \A i \in 1 .. n - 1 : r[i] = ch[i + 1]
    BY <1>1, <2>1, HeadTailProperties
  <2> HIDE DEF r
  <2>3. ASSUME NEW i \in 1 .. n - 1 PROVE r[i].type = "delta"
    <3>1. i + 1 \in 1 .. n /\ i + 1 # 1 OBVIOUS
    <3>2. r[i].type # "snapshot" BY <2>1, <2>2, <3>1
    <3>3. r[i] \in StateMessage /\ IsStateMsg(r[i]) BY <1>2, <2>2, SeqOf DEF NoStats
    <3> QED BY <3>2, <3>3, WireTyped
  <2> QED BY <2>2, <2>3
<1> HIDE DEF x, r
<1>8. Leads(x.snapshot, Sent(r), m) BY <1>2, <1>5, <1>6, <1>7, ChainLeads
<1> QED BY <1>4, <1>5, <1>8

\* Nothing of the hub or of the page changes, and the manager sends nothing or one message:
\* what is on the way grows by it.
LEMMA WayGrows ==
    ASSUME Inv, HubTyped, ManagerFirst, UNCHANGED <<hubVars, link>>, link \in Conn,
           NEW msg \in StateMessage, IsStateMsg(msg), chan'[Pipe] = Append(chan[Pipe], msg)
    PROVE  OnWay(link)' = Append(OnWay(link), WireMsg(msg))
<1>1. /\ wire[link] \in Seq(Message) /\ sendCh[link] \in Seq(Message)
      /\ Waiting(link) \in Seq(Message) /\ Sent(chan[Pipe]) \in Seq(Message)
      /\ chan[Pipe] \in Seq(StateMessage) /\ NoStats(chan[Pipe])
  BY OnWayTyped
<1>2. Sent(chan'[Pipe]) = Append(Sent(chan[Pipe]), WireMsg(msg)) /\ WireMsg(msg) \in Message
  BY <1>1, SentOn, WireTyped
<1>3. OnWay(link)' = Way(wire[link], sendCh[link], Waiting(link), Sent(chan'[Pipe]))
  BY DEF hubVars, hubButWire, OnWay, Waiting
<1>4. OnWay(link) = Way(wire[link], sendCh[link], Waiting(link), Sent(chan[Pipe]))
  BY DEF OnWay
<1>5. PICK w, c, t, m \in Seq(Message) :
        /\ w = wire[link] /\ c = sendCh[link] /\ t = Waiting(link) /\ m = Sent(chan[Pipe])
  BY <1>1
<1>6. PICK x \in Message : x = WireMsg(msg) BY <1>2
<1> DEFINE Grows(u, v, y, z, e) == Way(u, v, y, Append(z, e)) = Append(Way(u, v, y, z), e)
<1>7. \A T : \A u, v, y, z \in Seq(T), e \in T : Grows(u, v, y, z, e) BY WayAppend
<1> HIDE DEF Grows
<1>8. Grows(w, c, t, m, x) BY <1>5, <1>6, <1>7
<1> QED BY <1>2, <1>3, <1>4, <1>5, <1>6, <1>8 DEF Grows

\* A collector's update.
LEMMA PipeUpdatesInv ==
    ASSUME LiveInv, PipeUpdates
    PROVE  LiveInv'
<1> USE DEF LiveInv
<1>1. PICK c \in Collector : \E update \in Offers[c] \union {Nil} : HandleUpdate(c, update)
  BY DEF PipeUpdates
<1>2. Inv' BY <1>1, HandleUpdateInv
<1>3. /\ merged \in Graph /\ merged' \in Graph /\ hasState' = TRUE /\ status' = status
      /\ seen' = seen /\ Publish(merged')
  BY <1>1, <1>2 DEF Inv, TypeOK, HandleUpdate
<1>4. UNCHANGED <<hubVars, page, link, dropped, sync>> BY DEF PipeUpdates
<1>5. HubTyped' BY <1>4 DEF HubTyped, hubVars, hubButWire
<1>6. Stages' BY <1>4 DEF Stages, hubVars, hubButWire
<1> DEFINE delta == DiffSnapshots(merged, merged')
           Sending(msg) ==
               /\ SendToAll(msg)
               /\ lost' = [s \in Sub |-> lost[s] \/ (s \in Subscribers /\ ~HasRoom(s))]
<1>7. \/ ~hasState /\ Sending(SnapshotMsg(merged'))
      \/ hasState /\ Sending(DeltaMsg(delta, merged'))
      \/ ~Changed(delta) /\ UNCHANGED <<chan, lost>>
  BY <1>3 DEF Publish
<1>8. /\ SnapshotMsg(merged') \in StateMessage /\ DeltaMsg(delta, merged') \in StateMessage
      /\ IsStateMsg(SnapshotMsg(merged')) /\ IsStateMsg(DeltaMsg(delta, merged'))
  BY <1>3, DiffTyped, MessagesTyped DEF SnapshotMsg, DeltaMsg, IsStateMsg
<1>9. chan[Pipe] \in Seq(StateMessage) /\ NoStats(chan[Pipe])
  BY OnePipe DEF Inv, TypeOK, ManagerFirst
<1>10. ASSUME NEW msg \in StateMessage, IsStateMsg(msg), Sending(msg)
       PROVE  /\ chan'[Pipe] = chan[Pipe] \/ chan'[Pipe] = Append(chan[Pipe], msg)
              /\ status[Pipe] = "open" /\ ~lost'[Pipe] =>
                    ~lost[Pipe] /\ chan'[Pipe] = Append(chan[Pipe], msg)
              /\ NoStats(chan'[Pipe])
  <2>1. TypeOK BY DEF Inv
  <2>2. /\ status[Pipe] # "open" => chan'[Pipe] = chan[Pipe]
        /\ status[Pipe] = "open" =>
              chan'[Pipe] = IF HasRoom(Pipe) THEN Append(chan[Pipe], msg) ELSE chan[Pipe]
    BY <1>10, <2>1, OnePipe, SendTyped
  <2>3. lost'[Pipe] = (lost[Pipe] \/ (Pipe \in Subscribers /\ ~HasRoom(Pipe)))
    BY <1>10, OnePipe
  <2>4. status[Pipe] = "open" => Pipe \in Subscribers BY OnePipe DEF Subscribers
  <2>5. NoStats(Append(chan[Pipe], msg)) BY <1>9, <1>10, SentOn
  <2>6. status[Pipe] = "open" /\ ~lost'[Pipe] => ~lost[Pipe] /\ HasRoom(Pipe)
    BY <2>3, <2>4
  <2> HIDE DEF Sending
  <2> QED BY <1>9, <2>2, <2>5, <2>6
<1>11. Up => status[Pipe] = "open" BY DEF Up, ManagerFirst
<1>12. Up' = Up /\ (Lossless' => Lossless /\ ~lost'[Pipe] /\ ~lost[Pipe])
  <2>1. Up' = Up BY <1>4 DEF Up, hubVars, hubButWire
  <2>2. lost' = lost \/ \A s \in Sub : lost[s] => lost'[s]
    BY <1>7
  <2> QED BY <1>4, <2>1, <2>2, OnePipe DEF Lossless
<1>13. Up => link \in Conn BY DEF Up, HubTyped
<1> HIDE DEF delta, Sending
<1>14. CASE ~hasState /\ Sending(SnapshotMsg(merged'))
  <2> DEFINE msg == SnapshotMsg(merged')
  <2>1. merged = EmptyGraph /\ chan[Pipe] = << >> /\ current = Nil
    BY <1>14 DEF ManagerFirst
  <2>2. /\ chan'[Pipe] = << >> \/ chan'[Pipe] = Append(<< >>, msg)
        /\ NoStats(chan'[Pipe])
    BY <1>8, <1>10, <1>14, <2>1
  <2>3. \A i \in 1 .. Len(chan'[Pipe]) : i = 1
    <3>1. Len(<< >>) = 0 /\ Len(Append(<< >>, msg)) = 1 OBVIOUS
    <3> HIDE DEF msg
    <3>2. Len(chan'[Pipe]) \in {0, 1} BY <2>2, <3>1
    <3>3. \A i \in 1 .. 0 : i = 1 OBVIOUS
    <3>4. \A i \in 1 .. 1 : i = 1 OBVIOUS
    <3> QED BY <3>2, <3>3, <3>4
  <2>4. ManagerFirst'
    BY <1>3, <1>4, <2>1, <2>2, <2>3 DEF ManagerFirst, hubVars, hubButWire
  <2>5. Fed'
    <3> SUFFICES ASSUME Up', Lossless'
                 PROVE  Fits(sync, gift[link], page.view, OnWay(link), merged)'
      BY DEF Fed
    <3>1. link \in Conn /\ chan'[Pipe] = Append(<< >>, msg)
      BY <1>8, <1>10, <1>11, <1>12, <1>13, <1>14, <2>1
    <3>2. /\ sendCh[link] = << >> /\ wire[link] = << >> /\ Waiting(link) = << >>
          /\ gift[link] = Nil /\ sync = "waiting" /\ link # Nil
      BY <2>1, <3>1, LiveAssumption DEF Stages, Waiting
    <3>3. OnWay(link)' = Append(OnWay(link), WireMsg(msg))
      BY <1>4, <1>8, <2>1, <3>1, WayGrows
    <3>4. OnWay(link) = << >>
      <4>1. Sent(chan[Pipe]) = << >>
        <5>1. Sent(chan[Pipe]) \in Seq(Message) /\ Len(Sent(chan[Pipe])) = 0
          BY <1>9, <2>1, SentTyped
        <5> QED BY <5>1, EmptySeq
      <4>2. << >> \o << >> = << >> OBVIOUS
      <4> QED BY <3>2, <4>1, <4>2 DEF OnWay, Way
    <3>5. WireMsg(msg) = [type |-> "snapshot", data |-> merged']
      BY DEF WireMsg, SnapshotMsg
    <3>6. Leads(merged', << >>, merged') BY <1>3, LeadsNowhere DEF SameToDiff
    <3>7. FirstLeads(Append(<< >>, WireMsg(msg)), merged')
      <4>1. Head(Append(<< >>, WireMsg(msg))) = WireMsg(msg) /\ Tail(Append(<< >>, WireMsg(msg))) = << >>
        OBVIOUS
      <4> QED BY <3>5, <3>6, <4>1 DEF FirstLeads
    <3>8. gift'[link'] = Nil /\ sync' = "waiting" BY <1>4, <3>2 DEF hubVars, hubButWire
    <3> QED BY <3>3, <3>4, <3>7, <3>8 DEF Fits
  <2> QED BY <1>2, <1>5, <1>6, <2>4, <2>5
<1>15. CASE hasState /\ Sending(DeltaMsg(delta, merged'))
  <2> DEFINE msg == DeltaMsg(delta, merged')
  <2>1. msg.type = "delta" /\ WireMsg(msg) = DeltaOf(merged, merged')
    BY DEF WireMsg, DeltaMsg, DeltaOf, delta
  <2>2. /\ chan'[Pipe] = chan[Pipe] \/ chan'[Pipe] = Append(chan[Pipe], msg)
        /\ NoStats(chan'[Pipe])
    BY <1>8, <1>10, <1>15
  <2> HIDE DEF msg
  <2>3. \A i \in 1 .. Len(chan'[Pipe]) :
            chan'[Pipe][i].type = "snapshot" => i = 1 /\ current = Nil
    <3>1. CASE chan'[Pipe] = chan[Pipe] BY <3>1 DEF ManagerFirst
    <3>2. CASE chan'[Pipe] = Append(chan[Pipe], msg)
      <4>1. PICK n \in Nat : n = Len(chan[Pipe]) BY <1>9, LenProperties
      <4>2. /\ Len(chan'[Pipe]) = n + 1 /\ chan'[Pipe][n + 1] = msg
            /\ \A i \in 1 .. n : chan'[Pipe][i] = chan[Pipe][i]
        BY <1>8, <1>9, <3>2, <4>1, AppendProperties DEF msg
      <4>3. \A i \in 1 .. n : chan[Pipe][i].type = "snapshot" => i = 1 /\ current = Nil
        BY <4>1 DEF ManagerFirst
      <4>4. chan'[Pipe][n + 1].type # "snapshot" BY <2>1, <4>2
      <4>5. \A i \in 1 .. n + 1 : i \in 1 .. n \/ i = n + 1 OBVIOUS
      <4> QED BY <4>2, <4>3, <4>4, <4>5
    <3> QED BY <2>2, <3>1, <3>2
  <2>4. ManagerFirst'
    BY <1>3, <1>4, <2>2, <2>3 DEF ManagerFirst, hubVars, hubButWire
  <2>5. Fed'
    <3> SUFFICES ASSUME Up', Lossless'
                 PROVE  Fits(sync, gift[link], page.view, OnWay(link), merged)'
      BY DEF Fed
    <3>1. /\ link \in Conn /\ chan'[Pipe] = Append(chan[Pipe], msg)
          /\ Fits(sync, gift[link], page.view, OnWay(link), merged)
      BY <1>8, <1>10, <1>11, <1>12, <1>13, <1>15 DEF Fed, msg
    <3>2. OnWay(link)' = Append(OnWay(link), DeltaOf(merged, merged'))
      BY <1>4, <1>8, <2>1, <3>1, WayGrows DEF msg
    <3>3. OnWay(link) \in Seq(Message) BY <3>1, OnWayTyped
    <3>4. Fits(sync, gift[link], page.view, Append(OnWay(link), DeltaOf(merged, merged')), merged')
      BY <1>3, <3>1, <3>3, FitsOn
    <3> QED BY <1>4, <3>2, <3>4 DEF hubVars, hubButWire
  <2> QED BY <1>2, <1>5, <1>6, <2>4, <2>5
<1>16. CASE ~Changed(delta) /\ UNCHANGED <<chan, lost>>
  <2>1. SameToDiff(merged, merged') BY <1>3, <1>16, UnchangedIsSame DEF delta
  <2>2. ManagerFirst'
    BY <1>3, <1>4, <1>16 DEF ManagerFirst, hubVars, hubButWire
  <2>3. Fed'
    <3> SUFFICES ASSUME Up', Lossless'
                 PROVE  Fits(sync, gift[link], page.view, OnWay(link), merged)'
      BY DEF Fed
    <3>1. Fits(sync, gift[link], page.view, OnWay(link), merged) BY <1>12 DEF Fed
    <3>2. OnWay(link)' = OnWay(link)
      BY <1>4, <1>16 DEF hubVars, hubButWire, OnWay, Waiting
    <3>3. Fits(sync, gift[link], page.view, OnWay(link), merged') BY <2>1, <3>1, FitsSame
    <3> QED BY <1>4, <3>2, <3>3 DEF hubVars, hubButWire
  <2> QED BY <1>2, <1>5, <1>6, <2>2, <2>3
<1> QED BY <1>7, <1>14, <1>15, <1>16

\* main's subscription, before it serves.
LEMMA MainSubscribeInv ==
    ASSUME LiveInv, MainSubscribe
    PROVE  LiveInv'
<1> USE DEF LiveInv
<1>1. Subscribe(Pipe) /\ UNCHANGED <<updates, hubVars, page, link, dropped, sync>>
  BY OnePipe DEF MainSubscribe
<1>2. Inv' BY <1>1, OnePipe, SubscribeInv
<1>3. HubTyped' BY <1>1 DEF HubTyped, hubVars, hubButWire
<1>4. Stages' BY <1>1 DEF Stages, hubVars, hubButWire
<1>5. current = Nil /\ link = Nil BY <1>1 DEF Subscribe, ManagerFirst
<1>6. Fed' BY <1>1, <1>5 DEF Fed, Up
<1>7. ManagerFirst'
  <2> DEFINE msg == SnapshotMsg(merged)
  <2>1. status'[Pipe] = "open" /\ seen' = seen /\ merged' = merged /\ hasState' = hasState
    BY <1>1, OnePipe DEF Subscribe, Inv, TypeOK
  <2>2. chan'[Pipe] = IF DOMAIN merged.nodes # {} THEN <<msg>> ELSE << >>
    BY <1>1, OnePipe DEF Subscribe, Inv, TypeOK
  <2>3. IsStateMsg(msg) BY DEF SnapshotMsg, IsStateMsg
  <2> HIDE DEF msg
  <2>4. /\ Len(<<msg>>) = 1 /\ <<msg>>[1] = msg /\ Len(<< >>) = 0
        /\ (\A i \in 1 .. 1 : i = 1) /\ 1 .. 0 = {}
    OBVIOUS
  <2>5. NoStats(<<msg>>) /\ NoStats(<< >>) BY <2>3, <2>4 DEF NoStats
  <2>6. \A i \in 1 .. Len(chan'[Pipe]) : i = 1 BY <2>2, <2>4
  <2>7. ~hasState => chan'[Pipe] = << >>
    BY <2>2 DEF ManagerFirst, EmptyGraph
  <2>8. current' = Nil /\ link' = link BY <1>1, <1>5 DEF hubVars, hubButWire
  <2>9. NoStats(chan'[Pipe]) BY <2>2, <2>5
  <2>10. ~hasState => merged = EmptyGraph BY DEF ManagerFirst
  <2> QED BY <2>1, <2>6, <2>7, <2>8, <2>9, <2>10 DEF ManagerFirst
<1> QED BY <1>2, <1>3, <1>4, <1>6, <1>7

\* The manager's next message becomes the hub's broadcast.  A connection still to be
\* registered will be handed the graph it carries.
LEMMA PipeToHubInv ==
    ASSUME LiveInv, PipeToHub
    PROVE  LiveInv'
<1> USE DEF LiveInv
<1> DEFINE ch == chan[Pipe]
           x == Head(ch)
           msg == WireMsg(x)
<1>1. /\ Receive(Pipe) /\ hub!Broadcast(msg, x.snapshot)
      /\ UNCHANGED <<updates, page, link, dropped, sync>>
  BY OnePipe DEF PipeToHub
<1>2. Inv' BY <1>1, OnePipe, ReceiveInv
<1>3. /\ ch \in Seq(StateMessage) /\ NoStats(ch) /\ ch # << >>
  BY <1>1, OnePipe DEF Inv, TypeOK, ManagerFirst, Receive
<1>4. /\ x \in StateMessage /\ IsStateMsg(x) /\ Tail(ch) \in Seq(StateMessage) /\ NoStats(Tail(ch))
      /\ Sent(ch) = <<msg>> \o Sent(Tail(ch))
  BY <1>3, SentTail
<1>5. /\ msg \in Message /\ x.snapshot \in Graph /\ x.snapshot # Nil
      /\ Sent(Tail(ch)) \in Seq(Message)
  BY <1>4, WireTyped, SentTyped, ManagerAssumption
<1>6. chan'[Pipe] = Tail(ch) /\ seen'[Pipe] = x.snapshot
  BY <1>1, <1>4, OnePipe DEF Receive, Inv, TypeOK, IsStateMsg
<1>7. UNCHANGED <<merged, hasState, status, lost>> BY <1>1 DEF Receive
<1>8. bcast["state"].todo = {} BY <1>1 DEF hub!Broadcast, hub!Idle
<1>9. /\ current' = x.snapshot
      /\ bcast' = [bcast EXCEPT !["state"] =
                      [msg |-> IF clients = {} THEN Nil ELSE msg, todo |-> clients]]
      /\ UNCHANGED <<clients, handler, gift, writer, reader, socket, sendCh, wire>>
  BY <1>1, <1>5 DEF hub!Broadcast, hub!Job
<1>10. UNCHANGED <<page, link, dropped, sync>> BY <1>1
<1> HIDE DEF x, msg
<1>11. bcast'["state"].todo = clients /\ (clients # {} => bcast'["state"].msg = msg)
  BY <1>9 DEF HubTyped
<1>12. HubTyped'
  <2>1. bcast' \in [{"state", "stats"} -> [msg : Message \union {Nil}, todo : SUBSET Conn]]
    BY <1>5, <1>9 DEF HubTyped
  <2>2. bcast'["state"].todo # {} => bcast'["state"].msg \in Message BY <1>5, <1>11
  <2> QED BY <1>5, <1>9, <1>10, <2>1, <2>2 DEF HubTyped
<1>13. \A i \in 1 .. Len(Tail(ch)) : Tail(ch)[i].type # "snapshot"
  <2>1. PICK n \in Nat : n = Len(ch) /\ n > 0 BY <1>3, EmptySeq, LenProperties
  <2>2. Len(Tail(ch)) = n - 1 /\ \A i \in 1 .. n - 1 : Tail(ch)[i] = ch[i + 1]
    BY <1>3, <2>1, HeadTailProperties
  <2>3. \A i \in 1 .. n : ch[i].type = "snapshot" => i = 1 BY <2>1 DEF ManagerFirst
  <2>4. \A i \in 1 .. n - 1 : i + 1 \in 1 .. n /\ i + 1 # 1 OBVIOUS
  <2> HIDE DEF ch
  <2> QED BY <2>2, <2>3, <2>4
<1>14. ManagerFirst'
  <2>1. hasState BY <1>3 DEF ManagerFirst
  <2>2. status[Pipe] \in {"open"}
    BY <1>3, OnePipe DEF ManagerFirst, Inv, NewUntouched
  <2> HIDE DEF ch
  <2> QED BY <1>4, <1>6, <1>7, <1>9, <1>13, <2>1, <2>2 DEF ManagerFirst
<1>15. Stages'
  <2>1. current' # Nil BY <1>5, <1>9
  <2> QED BY <1>9, <1>10, <1>11, <2>1 DEF Stages
<1>16. Fed'
  <2> SUFFICES ASSUME Up', Lossless'
               PROVE  Fits(sync, gift[link], page.view, OnWay(link), merged)'
    BY DEF Fed
  <2>1. /\ Up /\ Lossless /\ link \in Conn /\ socket[link] = "open"
        /\ Fits(sync, gift[link], page.view, OnWay(link), merged)
    BY <1>7, <1>9, <1>10 DEF Up, Lossless, Fed, HubTyped
  <2>2. /\ wire[link] \in Seq(Message) /\ sendCh[link] \in Seq(Message) /\ Waiting(link) = << >>
    BY <1>8, <2>1 DEF HubTyped, Waiting
  <2>3. OnWay(link) = Way(wire[link], sendCh[link], << >>, <<msg>> \o Sent(Tail(ch)))
    BY <1>4, <2>2 DEF OnWay
  <2>4. CASE link \in clients
    <3>1. OnWay(link)' = Way(wire[link], sendCh[link], <<msg>>, Sent(Tail(ch)))
      BY <1>6, <1>9, <1>10, <1>11, <2>4 DEF OnWay, Waiting
    <3>2. PICK w, c, m \in Seq(Message), y \in Message :
            /\ w = wire[link] /\ c = sendCh[link] /\ m = Sent(Tail(ch)) /\ y = msg
      BY <1>5, <2>2
    <3>3. Way(w, c, << >>, <<y>> \o m) = Way(w, c, <<y>>, m) BY WayBroadcast
    <3>4. OnWay(link)' = OnWay(link) BY <2>3, <3>1, <3>2, <3>3
    <3> QED BY <1>7, <1>9, <1>10, <2>1, <3>4
  <2>5. CASE link \notin clients
    <3>1. handler[link] = "admitted" BY <2>1, <2>5 DEF Stages
    <3>2. sync = "waiting" /\ gift[link] = Nil /\ sendCh[link] = << >> /\ wire[link] = << >>
      BY <2>1, <3>1, LiveAssumption DEF Stages
    <3>3. OnWay(link)' = Way(<< >>, << >>, << >>, Sent(Tail(ch)))
      BY <1>6, <1>9, <1>10, <1>11, <2>5, <3>2 DEF OnWay, Waiting
    <3>4. OnWay(link)' = Sent(Tail(ch))
      <4>1. PICK m \in Seq(Message) : m = Sent(Tail(ch)) BY <1>5
      <4>2. Way(<< >>, << >>, << >>, m) = m BY WayEmpty
      <4> QED BY <3>3, <4>1, <4>2
    <3>5. FirstLeads(Sent(Tail(ch)), merged)
      <4>1. Chain(seen'[Pipe], Tail(ch), merged) /\ seen'[Pipe] \in Graph
        <5>1. status[Pipe] = "open" /\ ~lost'[Pipe]
          BY <1>7, <2>1, OnePipe DEF ManagerFirst, Up, Lossless
        <5> QED BY <1>2, <1>6, <1>7, <5>1, OnePipe DEF Inv, FeedsChain, TypeOK
      <4>2. \A i \in 1 .. Len(Tail(ch)) : Tail(ch)[i].type = "snapshot" => i = 1 BY <1>13
      <4> QED BY <1>4, <4>1, <4>2, ChainFirst
    <3>6. sync' = "waiting" /\ gift'[link'] = Nil BY <1>9, <1>10, <3>2
    <3> QED BY <1>7, <3>4, <3>5, <3>6 DEF Fits
  <2> QED BY <2>4, <2>5
<1> QED BY <1>2, <1>12, <1>14, <1>15, <1>16

\* A step of the hub's alone leaves the manager and what its channel holds.
LEMMA ManagerStays ==
    ASSUME Inv, ManagerFirst, UNCHANGED <<mgrVars, link, current>>
    PROVE  Inv' /\ ManagerFirst'
<1>1. Inv' BY NextInv DEF mgrVars
<1> QED BY <1>1 DEF mgrVars, vars, ManagerFirst

\* The client is registered, and will be handed the hub's graph; or is turned away.
LEMMA RegisterInv ==
    ASSUME LiveInv, NEW c \in Conn, hub!Register(c),
           UNCHANGED <<updates, mgrVars, page, link, dropped, sync>>
    PROVE  LiveInv'
<1> USE DEF LiveInv
<1>1. UNCHANGED <<current, writer, reader, sendCh, wire, bcast>> /\ handler[c] = "admitted"
  BY DEF hub!Register
<1>2. Inv' /\ ManagerFirst' BY <1>1, ManagerStays
<1>3. UNCHANGED <<merged, lost, chan, status>> BY DEF mgrVars, vars
<1>4. /\ sendCh[c] = << >> /\ wire[c] = << >> /\ c \notin bcast["state"].todo /\ gift[c] = Nil
      /\ writer[c] = "off" /\ reader[c] = "off" /\ (c = link => sync = "waiting")
      /\ c \notin clients
  BY <1>1, LiveAssumption DEF Stages
<1>5. CASE closed
  <2>1. /\ socket' = [socket EXCEPT ![c] = "closed"] /\ handler' = [handler EXCEPT ![c] = "refused"]
        /\ UNCHANGED <<clients, gift>>
    BY <1>5 DEF hub!Register
  <2>2. HubTyped' BY <1>1, <2>1 DEF HubTyped
  <2>3. /\ socket'[c] = "closed" /\ handler'[c] = "refused"
        /\ \A d \in Conn : d # c => socket'[d] = socket[d] /\ handler'[d] = handler[d]
    BY <2>1 DEF HubTyped
  <2>4. Stages' BY <1>1, <1>4, <2>1, <2>3 DEF Stages
  <2>5. Up' => Up BY <2>3 DEF Up, HubTyped
  <2>6. OnWay(link)' = OnWay(link) /\ gift'[link] = gift[link]
    BY <1>1, <1>3, <2>1 DEF OnWay, Waiting
  <2>7. Fed' BY <1>3, <2>5, <2>6, FedStays
  <2> QED BY <1>2, <2>2, <2>4, <2>7
<1>6. CASE ~closed
  <2>1. /\ clients' = clients \union {c} /\ gift' = [gift EXCEPT ![c] = current]
        /\ handler' = [handler EXCEPT ![c] = "registered"] /\ socket' = socket
    BY <1>6 DEF hub!Register
  <2>2. HubTyped' BY <1>1, <2>1 DEF HubTyped
  <2>3. /\ gift'[c] = current /\ handler'[c] = "registered"
        /\ \A d \in Conn : d # c => gift'[d] = gift[d] /\ handler'[d] = handler[d]
    BY <2>1 DEF HubTyped
  <2>4. Stages' BY <1>1, <1>4, <2>1, <2>3 DEF Stages
  <2>5. OnWay(link)' = OnWay(link) BY <1>1, <1>3 DEF OnWay, Waiting
  <2>6. Fed'
    <3>1. CASE c # link
      <4>1. (Up' => Up) /\ (Up' => gift'[link] = gift[link])
        BY <2>1, <2>3, <3>1 DEF Up, HubTyped
      <4> QED BY <1>3, <2>5, <4>1, FedStays
    <3>2. CASE c = link
      <4> SUFFICES ASSUME Up', Lossless'
                   PROVE  Fits(sync, gift[link], page.view, OnWay(link), merged)'
        BY DEF Fed
      <4>1. Up /\ Lossless BY <1>3, <2>1 DEF Up, Lossless
      <4>2. Fits(sync, gift[link], page.view, OnWay(link), merged) BY <4>1 DEF Fed
      <4>3. sync = "waiting" /\ gift[link] = Nil /\ FirstLeads(OnWay(link), merged)
        BY <1>4, <3>2, <4>2 DEF Fits
      <4>4. CASE current = Nil BY <1>3, <2>3, <2>5, <3>2, <4>3, <4>4 DEF Fits
      <4>5. CASE current # Nil
        <5>1. OnWay(link) = Sent(chan[Pipe])
          <6>1. PICK m \in Seq(Message) : m = Sent(chan[Pipe]) BY OnWayTyped
          <6>2. Way(<< >>, << >>, << >>, m) = m BY WayEmpty
          <6>3. OnWay(link) = Way(<< >>, << >>, << >>, m)
            BY <1>4, <3>2, <6>1 DEF OnWay, Waiting
          <6> QED BY <6>1, <6>2, <6>3
        <5>2. chan[Pipe] \in Seq(StateMessage) /\ NoStats(chan[Pipe]) BY OnWayTyped
        <5>3. \A i \in 1 .. Len(chan[Pipe]) : chan[Pipe][i].type = "delta"
          <6> SUFFICES ASSUME NEW i \in 1 .. Len(chan[Pipe]) PROVE chan[Pipe][i].type = "delta"
            OBVIOUS
          <6>1. chan[Pipe][i].type # "snapshot" BY <4>5 DEF ManagerFirst
          <6>2. chan[Pipe][i] \in StateMessage /\ IsStateMsg(chan[Pipe][i])
            BY <5>2, SeqOf DEF NoStats
          <6> QED BY <6>1, <6>2, WireTyped
        <5>4. current \in Graph /\ Chain(current, chan[Pipe], merged)
          <6>1. status[Pipe] = "open" /\ ~lost[Pipe] /\ current = seen[Pipe]
            BY <4>1, <4>5, OnePipe DEF ManagerFirst, Lossless
          <6> QED BY <6>1, OnePipe DEF Inv, FeedsChain, TypeOK
        <5>5. Leads(current, Sent(chan[Pipe]), merged) BY <5>2, <5>3, <5>4, ChainLeads
        <5> QED BY <1>3, <2>3, <2>5, <3>2, <4>3, <4>5, <5>1, <5>5 DEF Fits
      <4> QED BY <4>4, <4>5
    <3> QED BY <3>1, <3>2
  <2> QED BY <1>2, <2>2, <2>4, <2>6
<1> QED BY <1>5, <1>6

\* The handler sends the graph it read when the client was registered: it comes first, or a
\* delta was delivered before it.
LEMMA StartPumpsInv ==
    ASSUME LiveInv, NEW c \in Conn, hub!StartPumps(c),
           UNCHANGED <<updates, mgrVars, page, link, dropped, sync>>
    PROVE  LiveInv'
<1> USE DEF LiveInv
<1> DEFINE msg == [type |-> "snapshot", data |-> gift[c]]
<1>1. /\ UNCHANGED <<clients, current, socket, wire, bcast>> /\ handler[c] = "registered"
      /\ handler' = [handler EXCEPT ![c] = "started"]
      /\ writer' = [writer EXCEPT ![c] = "running"]
      /\ reader' = [reader EXCEPT ![c] = "running"]
      /\ gift' = [gift EXCEPT ![c] = Nil]
      /\ gift[c] = Nil => sendCh' = sendCh
      /\ gift[c] # Nil => sendCh' = [sendCh EXCEPT ![c] = Append(sendCh[c], msg)]
  BY DEF hub!StartPumps, hub!SnapshotMsg
<1>2. Inv' /\ ManagerFirst' BY <1>1, ManagerStays
<1>3. UNCHANGED <<merged, lost, chan>> BY DEF mgrVars, vars
<1>4. /\ handler'[c] = "started" /\ writer'[c] = "running" /\ reader'[c] = "running"
      /\ gift'[c] = Nil
      /\ \A d \in Conn : d # c => /\ handler'[d] = handler[d] /\ writer'[d] = writer[d]
                                  /\ reader'[d] = reader[d] /\ gift'[d] = gift[d]
                                  /\ sendCh'[d] = sendCh[d]
  BY <1>1 DEF HubTyped
<1>5. gift[c] \in Graph \union {Nil} /\ wire[c] = << >> /\ sendCh[c] \in Seq(Message)
  BY <1>1 DEF HubTyped, Stages
<1>6. gift[c] # Nil => /\ msg \in Message /\ current # Nil
                       /\ Append(sendCh[c], msg) \in Seq(Message)
                       /\ sendCh'[c] = Append(sendCh[c], msg)
  <2>1. gift[c] # Nil => msg \in Message BY <1>5 DEF Message
  <2>2. gift[c] # Nil => sendCh'[c] = Append(sendCh[c], msg) BY <1>1 DEF HubTyped
  <2>3. gift[c] # Nil => current # Nil BY DEF Stages
  <2> HIDE DEF msg
  <2>4. gift[c] # Nil => Append(sendCh[c], msg) \in Seq(Message)
    BY <1>5, <2>1, AppendProperties
  <2> QED BY <2>1, <2>2, <2>3, <2>4
<1> HIDE DEF msg
<1>7. HubTyped'
  <2>1. sendCh' \in [Conn -> Seq(Message)] BY <1>1, <1>6 DEF HubTyped
  <2> QED BY <1>1, <2>1 DEF HubTyped
<1>8. Stages'
  <2>1. current = Nil => sendCh' = sendCh BY <1>1, <1>6
  <2>2. \A d \in Conn :
          /\ handler'[d] \in {"none", "admitted"} =>
                sendCh'[d] = << >> /\ d \notin clients' /\ d \notin bcast'["state"].todo
          /\ handler'[d] # "started" => writer'[d] = "off" /\ reader'[d] = "off" /\ wire'[d] = << >>
          /\ handler'[d] = "none" => d # link'
          /\ writer'[d] = "exited" \/ reader'[d] = "exited" => socket'[d] # "open"
          /\ socket'[d] = "open" =>
                /\ handler'[d] \in {"admitted", "registered", "started"}
                /\ handler'[d] # "admitted" => d \in clients'
          /\ gift'[d] # Nil => handler'[d] = "registered"
    <3> SUFFICES ASSUME NEW d \in Conn
                 PROVE  /\ handler'[d] \in {"none", "admitted"} =>
                              sendCh'[d] = << >> /\ d \notin clients' /\ d \notin bcast'["state"].todo
                        /\ handler'[d] # "started" =>
                              writer'[d] = "off" /\ reader'[d] = "off" /\ wire'[d] = << >>
                        /\ handler'[d] = "none" => d # link'
                        /\ writer'[d] = "exited" \/ reader'[d] = "exited" => socket'[d] # "open"
                        /\ socket'[d] = "open" =>
                              /\ handler'[d] \in {"admitted", "registered", "started"}
                              /\ handler'[d] # "admitted" => d \in clients'
                        /\ gift'[d] # Nil => handler'[d] = "registered"
      OBVIOUS
    <3>1. CASE d = c BY <1>1, <1>4, <3>1 DEF Stages
    <3>2. CASE d # c BY <1>1, <1>4, <3>2 DEF Stages
    <3> QED BY <3>1, <3>2
  <2>3. current' = Nil => \A d \in Conn : /\ sendCh'[d] = << >> /\ wire'[d] = << >>
                                          /\ d \notin bcast'["state"].todo /\ gift'[d] = Nil
    <3> SUFFICES ASSUME current' = Nil, NEW d \in Conn
                 PROVE  /\ sendCh'[d] = << >> /\ wire'[d] = << >>
                        /\ d \notin bcast'["state"].todo /\ gift'[d] = Nil
      OBVIOUS
    <3> QED BY <1>1, <1>4, <2>1 DEF Stages
  <2>4. link' # Nil => /\ handler'[link'] \in {"admitted", "registered"} => sync' = "waiting"
                       /\ current' = Nil => sync' = "waiting"
    <3>1. link # Nil => link \in Conn BY DEF HubTyped
    <3> QED BY <1>1, <1>4, <3>1 DEF Stages
  <2> QED BY <2>2, <2>3, <2>4 DEF Stages
<1>9. Fed'
  <2>1. Up' => Up BY <1>1 DEF Up
  <2>2. CASE gift[c] = Nil \/ c # link
    <3>1. Up => OnWay(link)' = OnWay(link) /\ gift'[link] = gift[link]
      <4>1. Up => link \in Conn BY DEF Up, HubTyped
      <4>2. Up => sendCh'[link] = sendCh[link] /\ gift'[link] = gift[link]
        BY <1>1, <1>4, <2>2, <4>1
      <4> QED BY <1>1, <1>3, <4>2 DEF OnWay, Waiting
    <3> QED BY <1>3, <2>1, <3>1, FedStays
  <2>3. CASE gift[c] # Nil /\ c = link
    <3> SUFFICES ASSUME Up', Lossless'
                 PROVE  Fits(sync, gift[link], page.view, OnWay(link), merged)'
      BY DEF Fed
    <3>1. Up /\ Lossless BY <1>3, <2>1 DEF Lossless
    <3>2. Fits(sync, gift[link], page.view, OnWay(link), merged) BY <3>1 DEF Fed
    <3>3. sync = "waiting" BY <1>1, <2>3, LiveAssumption DEF Stages
    <3>4. Leads(gift[c], OnWay(link), merged) BY <2>3, <3>2, <3>3 DEF Fits
    <3>5. PICK s, t, m \in Seq(Message), y \in Message :
            s = sendCh[c] /\ t = Waiting(c) /\ m = Sent(chan[Pipe]) /\ y = msg
      BY <1>6, <2>3, OnWayTyped
    <3>6. OnWay(link) = Way(<< >>, s, t, m) BY <1>5, <2>3, <3>5 DEF OnWay
    <3>7. OnWay(link)' = Way(<< >>, Append(s, y), t, m)
      BY <1>1, <1>3, <1>5, <1>6, <2>3, <3>5 DEF OnWay, Waiting
    <3>8. FirstLeads(OnWay(link)', merged)
      <4>1. CASE s = << >>
        <5>1. Append(s, y) = <<y>> BY <4>1
        <5>2. Way(<< >>, <<y>>, t, m) = <<y>> \o Way(<< >>, << >>, t, m)
          <6>1. ComesFirst(y, t, m) BY <3>5, WayFirst
          <6> QED BY <6>1 DEF ComesFirst
        <5>3. PICK q \in Seq(Message) : q = OnWay(link) BY <2>3, OnWayTyped
        <5>4. OnWay(link)' = <<y>> \o q BY <3>6, <3>7, <4>1, <5>1, <5>2, <5>3
        <5>5. Head(<<y>> \o q) = y /\ Tail(<<y>> \o q) = q BY HeadOn
        <5>6. y.data = gift[c] BY <3>5 DEF msg
        <5> QED BY <3>4, <5>3, <5>4, <5>5, <5>6 DEF FirstLeads
      <4>2. CASE s # << >>
        <5>1. /\ Way(<< >>, s, t, m) # << >> /\ Head(Way(<< >>, s, t, m)) = Head(s)
              /\ Head(Way(<< >>, Append(s, y), t, m)) = Head(s)
          BY <4>2, WayHead
        <5>2. PICK q \in Seq(Message) : q = OnWay(link) BY <2>3, OnWayTyped
        <5>3. \E h \in Graph : Head(q) = DeltaOf(gift[c], h)
          BY <3>4, <3>6, <5>1, <5>2, LeadsTail
        <5>4. Head(OnWay(link)').type = "delta"
          BY <3>6, <3>7, <5>1, <5>2, <5>3 DEF DeltaOf
        <5> QED BY <5>4 DEF FirstLeads
      <4> QED BY <4>1, <4>2
    <3>9. sync' = "waiting" /\ gift'[link'] = Nil BY <1>4, <2>3, <3>3
    <3> QED BY <1>3, <3>8, <3>9 DEF Fits
  <2> QED BY <2>2, <2>3
<1> QED BY <1>2, <1>7, <1>8, <1>9

\* The writer puts the next message on the connection.
LEMMA WriteMessageInv ==
    ASSUME LiveInv, NEW c \in Conn, hub!WriteMessage(c),
           UNCHANGED <<updates, mgrVars, page, link, dropped, sync>>
    PROVE  LiveInv'
<1> USE DEF LiveInv
<1>1. /\ UNCHANGED <<clients, current, handler, gift, writer, reader, socket, bcast>>
      /\ writer[c] = "running" /\ sendCh[c] # << >>
      /\ sendCh' = [sendCh EXCEPT ![c] = Tail(sendCh[c])]
  BY DEF hub!WriteMessage
<1>2. Inv' /\ ManagerFirst' BY <1>1, ManagerStays
<1>3. UNCHANGED <<merged, lost, chan>> BY DEF mgrVars, vars
<1>4. /\ sendCh[c] \in Seq(Message) /\ wire[c] \in Seq(Message)
      /\ Head(sendCh[c]) \in Message /\ Tail(sendCh[c]) \in Seq(Message)
  BY <1>1, HeadOff DEF HubTyped
<1>5. wire' = [wire EXCEPT ![c] = Append(wire[c], Head(sendCh[c]))]
  <2>1. Head(sendCh[c]) # hub!StatsMsg BY <1>4 DEF hub!StatsMsg, Message
  <2> QED BY <2>1 DEF hub!WriteMessage
<1>6. /\ sendCh'[c] = Tail(sendCh[c]) /\ wire'[c] = Append(wire[c], Head(sendCh[c]))
      /\ \A d \in Conn : d # c => sendCh'[d] = sendCh[d] /\ wire'[d] = wire[d]
  BY <1>1, <1>5 DEF HubTyped
<1>7. HubTyped'
  <2>1. Append(wire[c], Head(sendCh[c])) \in Seq(Message) BY <1>4, AppendProperties
  <2> QED BY <1>1, <1>4, <1>5, <2>1 DEF HubTyped
<1>8. Stages'
  <2>1. current # Nil /\ handler[c] = "started" BY <1>1 DEF Stages, HubTyped
  <2> QED BY <1>1, <1>6, <2>1 DEF Stages
<1>9. Fed'
  <2>1. Up' => Up BY <1>1 DEF Up
  <2>2. Up => OnWay(link)' = OnWay(link)
    <3> SUFFICES ASSUME Up PROVE OnWay(link)' = OnWay(link) OBVIOUS
    <3>1. link \in Conn BY DEF Up, HubTyped
    <3>2. CASE c # link BY <1>1, <1>3, <1>6, <3>1, <3>2 DEF OnWay, Waiting
    <3>3. CASE c = link
      <4>1. OnWay(link) = Way(wire[c], sendCh[c], Waiting(c), Sent(chan[Pipe]))
        BY <3>3 DEF OnWay
      <4>2. OnWay(link)' = Way(Append(wire[c], Head(sendCh[c])), Tail(sendCh[c]),
                               Waiting(c), Sent(chan[Pipe]))
        BY <1>1, <1>3, <1>6, <3>3 DEF OnWay, Waiting
      <4>3. PICK w, s, t, m \in Seq(Message) :
              w = wire[c] /\ s = sendCh[c] /\ t = Waiting(c) /\ m = Sent(chan[Pipe])
        BY OnWayTyped
      <4>4. SameWay(w, s, Append(w, Head(s)), Tail(s), t, m) BY <1>1, <4>3, WayWrite
      <4> QED BY <4>1, <4>2, <4>3, <4>4 DEF SameWay
    <3> QED BY <3>2, <3>3
  <2> QED BY <1>1, <1>3, <2>1, <2>2, FedStays
<1> QED BY <1>2, <1>7, <1>8, <1>9

\* A pump stops, or the peer leaves: the connection is not up any more.
LEMMA BreaksInv ==
    ASSUME LiveInv, NEW c \in Conn, hub!StopWriter(c) \/ hub!StopReader(c) \/ hub!PeerGone(c),
           UNCHANGED <<updates, mgrVars, page, link, dropped, sync>>
    PROVE  LiveInv'
<1> USE DEF LiveInv
<1>1. /\ UNCHANGED <<current, handler, gift, wire, bcast>>
      /\ socket' = socket \/ \E v \in {"gone", "closed"} : socket' = [socket EXCEPT ![c] = v]
      /\ writer' = writer \/ writer' = [writer EXCEPT ![c] = "exited"]
      /\ reader' = reader \/ reader' = [reader EXCEPT ![c] = "exited"]
      /\ sendCh' = sendCh \/ sendCh' = [sendCh EXCEPT ![c] = << >>]
      /\ clients' = clients \/ clients' = clients \ {c}
  BY DEF hub!StopWriter, hub!StopReader, hub!PeerGone
<1>2. socket'[c] # "open"
  BY DEF hub!StopWriter, hub!StopReader, hub!PeerGone, HubTyped
<1>3. Inv' /\ ManagerFirst' BY <1>1, ManagerStays
<1>4. UNCHANGED <<merged, lost, chan>> BY DEF mgrVars, vars
<1>5. HubTyped'
  <2>1. sendCh' = sendCh \/ sendCh' = [sendCh EXCEPT ![c] = << >>] BY <1>1
  <2>2. sendCh' \in [Conn -> Seq(Message)]
    <3>1. PICK e \in Seq(Message) : e = << >> BY EmptySeq
    <3>2. sendCh \in [Conn -> Seq(Message)] BY DEF HubTyped
    <3> QED BY <2>1, <3>1, <3>2
  <2>3. socket' \in [Conn -> {"open", "gone", "closed"}] BY <1>1 DEF HubTyped
  <2>4. /\ writer' \in [Conn -> {"off", "running", "exited"}]
        /\ reader' \in [Conn -> {"off", "running", "exited"}]
        /\ clients' \subseteq Conn
    <3>1. writer' \in [Conn -> {"off", "running", "exited"}] BY <1>1 DEF HubTyped
    <3>2. reader' \in [Conn -> {"off", "running", "exited"}] BY <1>1 DEF HubTyped
    <3>3. clients' \subseteq Conn BY <1>1 DEF HubTyped
    <3> QED BY <3>1, <3>2, <3>3
  <2>5. UNCHANGED <<current, handler, gift, wire, bcast, page, link, sync>> BY <1>1
  <2> QED BY <2>2, <2>3, <2>4, <2>5 DEF HubTyped
<1>6. /\ \A d \in Conn : d # c => /\ socket'[d] = socket[d] /\ writer'[d] = writer[d]
                                  /\ reader'[d] = reader[d] /\ sendCh'[d] = sendCh[d]
                                  /\ (d \in clients' <=> d \in clients)
      /\ sendCh'[c] = sendCh[c] \/ sendCh'[c] = << >>
      /\ c \in clients' => c \in clients
  BY <1>1 DEF HubTyped
<1>7. Stages'
  <2>1. /\ writer[c] # "off" => handler[c] = "started"
        /\ reader[c] # "off" => handler[c] = "started"
    BY DEF Stages
  <2>2. /\ writer' # writer => writer[c] = "running"
        /\ reader' # reader => reader[c] = "running"
    BY DEF hub!StopWriter, hub!StopReader, hub!PeerGone
  <2>3. handler[c] # "started" => writer' = writer /\ reader' = reader
    BY <2>1, <2>2
  <2> QED BY <1>1, <1>2, <1>6, <2>3 DEF Stages
<1>8. Fed'
  <2>1. (Up' => Up) /\ (Up' => c # link /\ link \in Conn)
    BY <1>2, <1>6 DEF Up, HubTyped
  <2>2. Up' => OnWay(link)' = OnWay(link)
    BY <1>1, <1>4, <1>6, <2>1 DEF OnWay, Waiting
  <2> QED BY <1>1, <1>4, <2>1, <2>2, FedStays
<1> QED BY <1>3, <1>5, <1>7, <1>8

\* The broadcast's message gets to the client's channel, or is dropped for it.
LEMMA HubDeliverInv ==
    ASSUME LiveInv, NEW c \in Conn, HubDeliver(c)
    PROVE  LiveInv'
<1> USE DEF LiveInv
<1> DEFINE msg == bcast["state"].msg
           rest == bcast["state"].todo \ {c}
<1>1. /\ c \in bcast["state"].todo
      /\ UNCHANGED <<clients, current, handler, gift, writer, reader, socket, wire>>
      /\ bcast' = [bcast EXCEPT !["state"] =
                      [msg |-> IF rest = {} THEN Nil ELSE msg, todo |-> rest]]
      /\ sendCh' = [sendCh EXCEPT ![c] = Append(sendCh[c], msg)] \/ sendCh' = sendCh
      /\ dropped' = IF sendCh' = sendCh THEN dropped \union {c} ELSE dropped
      /\ UNCHANGED <<updates, mgrVars, page, link, sync>>
  BY DEF HubDeliver, hub!Deliver, hub!TrySend, hub!Job
<1>2. Inv' /\ ManagerFirst' BY <1>1, ManagerStays
<1>3. UNCHANGED <<merged, lost, chan>> BY <1>1 DEF mgrVars, vars
<1>4. msg \in Message /\ sendCh[c] \in Seq(Message) BY <1>1 DEF HubTyped
<1>5. bcast'["state"].todo = rest /\ (rest # {} => bcast'["state"].msg = msg)
  BY <1>1 DEF HubTyped
<1>6. HubTyped'
  <2>1. Append(sendCh[c], msg) \in Seq(Message) BY <1>4, AppendProperties
  <2>2. sendCh' \in [Conn -> Seq(Message)] BY <1>1, <2>1 DEF HubTyped
  <2>3. bcast' \in [{"state", "stats"} -> [msg : Message \union {Nil}, todo : SUBSET Conn]]
    BY <1>1, <1>4 DEF HubTyped
  <2>4. bcast'["state"].todo # {} => bcast'["state"].msg \in Message BY <1>4, <1>5
  <2> QED BY <1>1, <2>2, <2>3, <2>4 DEF HubTyped
<1> HIDE DEF msg
<1>7. Stages'
  <2>1. current # Nil /\ handler[c] \notin {"none", "admitted"} BY <1>1 DEF Stages
  <2>2. \A d \in Conn : d # c => sendCh'[d] = sendCh[d] BY <1>1 DEF HubTyped
  <2>3. \A d \in Conn : d \in bcast'["state"].todo => d \in bcast["state"].todo BY <1>5
  <2> QED BY <1>1, <2>1, <2>2, <2>3 DEF Stages
<1>8. Fed'
  <2>1. (Up' => Up) /\ (Up => link \in Conn) BY <1>1 DEF Up, HubTyped
  <2>2. CASE c = link /\ sendCh' = sendCh
    <3>1. ~Lossless' BY <1>1, <2>2 DEF Lossless
    <3> QED BY <3>1 DEF Fed
  <2>3. CASE c # link
    <3>1. Up => /\ sendCh'[link] = sendCh[link]
                /\ link \in bcast'["state"].todo <=> link \in bcast["state"].todo
                /\ link \in bcast'["state"].todo => bcast'["state"].msg = msg
      BY <1>1, <1>5, <2>1, <2>3 DEF HubTyped
    <3>2. Up => OnWay(link)' = OnWay(link)
      BY <1>1, <1>3, <3>1 DEF OnWay, Waiting, msg
    <3> QED BY <1>1, <1>3, <2>1, <3>2, FedStays
  <2>4. CASE c = link /\ sendCh' = [sendCh EXCEPT ![c] = Append(sendCh[c], msg)]
    <3>1. sendCh'[c] = Append(sendCh[c], msg) BY <2>4 DEF HubTyped
    <3>2. OnWay(link) = Way(wire[c], sendCh[c], <<msg>>, Sent(chan[Pipe]))
      BY <1>1, <2>4 DEF OnWay, Waiting, msg
    <3>3. OnWay(link)' = Way(wire[c], Append(sendCh[c], msg), << >>, Sent(chan[Pipe]))
      BY <1>1, <1>3, <1>5, <2>4, <3>1 DEF OnWay, Waiting
    <3>4. PICK w, s, m \in Seq(Message), x \in Message :
            w = wire[c] /\ s = sendCh[c] /\ m = Sent(chan[Pipe]) /\ x = msg
      BY <1>4, OnWayTyped
    <3>5. Delivered(w, s, x, m) BY <3>4, WayDeliver
    <3>6. OnWay(link)' = OnWay(link) BY <3>2, <3>3, <3>4, <3>5 DEF Delivered
    <3> QED BY <1>1, <1>3, <2>1, <3>6, FedStays
  <2> QED BY <1>1, <2>2, <2>3, <2>4
<1> QED BY <1>2, <1>6, <1>7, <1>8

\* A new connection: all that will come is in the manager's channel.
LEMMA ConnectInv ==
    ASSUME LiveInv, Connect
    PROVE  LiveInv'
<1> USE DEF LiveInv
<1>1. PICK c \in Conn : hub!HandleWS(c) /\ link' = c
  BY DEF Connect
<1>2. /\ link = Nil /\ Subscribers # {} /\ sync' = "waiting"
      /\ UNCHANGED <<updates, mgrVars, page, dropped>>
  BY DEF Connect
<1>3. /\ UNCHANGED <<clients, current, gift, writer, reader, sendCh, wire, bcast>>
      /\ handler[c] = "none"
      /\ \/ /\ handler' = [handler EXCEPT ![c] = "admitted"]
            /\ socket' = [socket EXCEPT ![c] = "open"]
         \/ handler' = [handler EXCEPT ![c] = "refused"] /\ socket' = socket
  BY <1>1 DEF hub!HandleWS
<1>4. /\ UNCHANGED vars /\ status[Pipe] = "open"
  BY <1>2, OnePipe DEF mgrVars, Subscribers
<1>5. Inv' BY <1>4, NextInv
<1>6. ManagerFirst' BY <1>3, <1>4 DEF ManagerFirst, vars
<1>7. HubTyped'
  <2>1. /\ handler' \in [Conn -> {"none", "admitted", "registered", "started", "refused"}]
        /\ socket' \in [Conn -> {"open", "gone", "closed"}]
    <3>1. CASE handler' = [handler EXCEPT ![c] = "refused"] /\ socket' = socket
      BY <3>1 DEF HubTyped
    <3>2. CASE /\ handler' = [handler EXCEPT ![c] = "admitted"]
               /\ socket' = [socket EXCEPT ![c] = "open"]
      BY <3>2 DEF HubTyped
    <3> QED BY <1>3, <3>1, <3>2
  <2> QED BY <1>1, <1>2, <1>3, <2>1 DEF HubTyped
<1>8. /\ sendCh[c] = << >> /\ wire[c] = << >> /\ c \notin bcast["state"].todo /\ gift[c] = Nil
      /\ writer[c] = "off" /\ reader[c] = "off" /\ socket[c] # "open" /\ c \notin clients
  BY <1>3 DEF Stages
<1>9. /\ handler'[c] = "admitted" \/ (handler'[c] = "refused" /\ socket'[c] # "open")
      /\ \A d \in Conn : d # c => handler'[d] = handler[d] /\ socket'[d] = socket[d]
  <2>1. handler'[c] = "admitted" \/ (handler'[c] = "refused" /\ socket'[c] # "open")
    BY <1>3, <1>8 DEF HubTyped
  <2>2. \A d \in Conn : d # c => handler'[d] = handler[d] /\ socket'[d] = socket[d]
    BY <1>3 DEF HubTyped
  <2> QED BY <2>1, <2>2
<1>10. Stages' BY <1>1, <1>2, <1>3, <1>8, <1>9 DEF Stages
<1>11. Fed'
  <2> SUFFICES ASSUME Up', Lossless'
               PROVE  Fits(sync, gift[link], page.view, OnWay(link), merged)'
    BY DEF Fed
  <2>1. OnWay(link)' = Way(<< >>, << >>, << >>, Sent(chan[Pipe]))
    BY <1>1, <1>3, <1>4, <1>8 DEF OnWay, Waiting, vars
  <2>2. OnWay(link)' = Sent(chan[Pipe])
    <3>1. PICK m \in Seq(Message) : m = Sent(chan[Pipe]) BY OnWayTyped
    <3>2. Way(<< >>, << >>, << >>, m) = m BY WayEmpty
    <3> QED BY <2>1, <3>1, <3>2
  <2>3. ~lost[Pipe] BY <1>4, OnePipe DEF Lossless, vars
  <2>4. FirstLeads(Sent(chan[Pipe]), merged)
    <3>1. /\ Chain(seen[Pipe], chan[Pipe], merged) /\ seen[Pipe] \in Graph
          /\ chan[Pipe] \in Seq(StateMessage) /\ NoStats(chan[Pipe])
      BY <1>4, <2>3, OnePipe DEF Inv, FeedsChain, TypeOK, ManagerFirst
    <3>2. \A i \in 1 .. Len(chan[Pipe]) : chan[Pipe][i].type = "snapshot" => i = 1
      BY DEF ManagerFirst
    <3> QED BY <3>1, <3>2, ChainFirst
  <2>5. gift'[link'] = Nil /\ merged' = merged BY <1>1, <1>3, <1>4, <1>8 DEF vars
  <2> QED BY <1>2, <2>2, <2>4, <2>5 DEF Fits
<1> QED BY <1>5, <1>6, <1>7, <1>10, <1>11

\* The browser lets a connection go.
LEMMA OnCloseInv ==
    ASSUME LiveInv, OnClose
    PROVE  LiveInv'
<1> USE DEF LiveInv
<1>1. /\ link' = Nil /\ wire' = [wire EXCEPT ![link] = << >>] /\ link # Nil
      /\ UNCHANGED <<updates, mgrVars, hubButWire, page, dropped, sync>>
  BY DEF OnClose
<1>2. Inv' BY <1>1, NextInv DEF mgrVars
<1>3. ManagerFirst' BY <1>1 DEF ManagerFirst, mgrVars, vars, hubButWire
<1>4. HubTyped'
  <2>1. wire' \in [Conn -> Seq(Message)]
    <3>1. PICK e \in Seq(Message) : e = << >> BY EmptySeq
    <3> QED BY <1>1, <3>1 DEF HubTyped
  <2> QED BY <1>1, <2>1 DEF HubTyped, hubButWire
<1>5. Stages'
  <2>1. \A d \in Conn : wire'[d] = wire[d] \/ wire'[d] = << >> BY <1>1 DEF HubTyped
  <2>2. \A d \in Conn : d # link' BY <1>1, LiveAssumption
  <2> QED BY <1>1, <2>1, <2>2 DEF Stages, hubButWire
<1>6. Fed' BY <1>1 DEF Fed, Up
<1> QED BY <1>2, <1>3, <1>4, <1>5, <1>6

\* A message leaves the page showing a view.
LEMMA HandledTyped ==
    ASSUME page = [view |-> page.view, fingerprint |-> page.fingerprint], page.view \in View,
           NEW msg \in Message, NEW p, p = HandleMessage(page, msg)
    PROVE  /\ p = [view |-> p.view, fingerprint |-> p.fingerprint] /\ p.view \in View
           /\ msg.type = "delta" => p.view = ApplyDelta(page.view, msg.data)
<1>1. CASE msg.type = "delta"
  <2>1. p = [page EXCEPT !.view = ApplyDelta(page.view, msg.data)]
    BY <1>1 DEF HandleMessage
  <2>2. msg.data \in Delta BY <1>1 DEF Message
  <2>3. ApplyDelta(page.view, msg.data) \in View BY <2>2, DeltaViewed
  <2>4. p = [view |-> ApplyDelta(page.view, msg.data), fingerprint |-> page.fingerprint]
    BY <2>1
  <2> QED BY <2>3, <2>4
<1>2. CASE msg.type # "delta"
  <2>1. msg.type = "snapshot" /\ msg.data \in Graph BY <1>2 DEF Message
  <2>2. p = ApplySnapshot(page, msg.data) BY <2>1 DEF HandleMessage
  <2>3. ViewOf(msg.data) \in View BY <2>1, GraphViewed
  <2> QED BY <1>2, <2>2, <2>3 DEF ApplySnapshot
<1> QED BY <1>1, <1>2

\* The page takes the next message.
LEMMA OnMessageInv ==
    ASSUME LiveInv, OnMessage
    PROVE  LiveInv'
<1> USE DEF LiveInv
<1> DEFINE msg == Head(wire[link])
<1>1. /\ link # Nil /\ wire[link] # << >> /\ page' = HandleMessage(page, msg)
      /\ sync' = IF sync # "waiting" THEN sync
                 ELSE IF msg.type = "snapshot" /\ Covers(page'.view, msg.data)
                 THEN "synced" ELSE "broken"
      /\ wire' = [wire EXCEPT ![link] = Tail(wire[link])]
      /\ UNCHANGED <<updates, mgrVars, hubButWire, link, dropped>>
  BY DEF OnMessage
<1>2. Inv' BY <1>1, NextInv DEF mgrVars
<1>3. ManagerFirst' BY <1>1 DEF ManagerFirst, mgrVars, vars, hubButWire
<1>4. /\ link \in Conn /\ wire[link] \in Seq(Message) /\ msg \in Message
      /\ Tail(wire[link]) \in Seq(Message)
  BY <1>1, HeadOff DEF HubTyped
<1>5. wire'[link] = Tail(wire[link]) /\ \A d \in Conn : d # link => wire'[d] = wire[d]
  BY <1>1, <1>4 DEF HubTyped
<1> HIDE DEF msg
<1>6. /\ page' = [view |-> page'.view, fingerprint |-> page'.fingerprint] /\ page'.view \in View
      /\ msg.type = "delta" => page'.view = ApplyDelta(page.view, msg.data)
  BY <1>1, <1>4, HandledTyped DEF HubTyped
<1>7. sync' \in {"waiting", "synced", "broken"} BY <1>1 DEF HubTyped
<1>8. HubTyped' BY <1>1, <1>4, <1>6, <1>7 DEF HubTyped, hubButWire
<1>9. current # Nil /\ handler[link] = "started" /\ gift[link] = Nil
  BY <1>1, <1>4 DEF Stages
<1>10. Stages' BY <1>1, <1>5, <1>9 DEF Stages, hubButWire
<1>11. Fed'
  <2> SUFFICES ASSUME Up', Lossless'
               PROVE  Fits(sync, gift[link], page.view, OnWay(link), merged)'
    BY DEF Fed
  <2>1. Up /\ Lossless BY <1>1 DEF Up, Lossless, mgrVars, vars, hubButWire
  <2>2. Fits(sync, Nil, page.view, OnWay(link), merged) BY <1>9, <2>1 DEF Fed
  <2>3. PICK w, s, t, m \in Seq(Message) :
          w = wire[link] /\ s = sendCh[link] /\ t = Waiting(link) /\ m = Sent(chan[Pipe])
    BY <1>4, OnWayTyped
  <2>4. PICK q \in Seq(Message) : q = OnWay(link) BY <1>4, OnWayTyped
  <2>5. OnWay(link) = Way(w, s, t, m) BY <2>3 DEF OnWay
  <2>6. OnWay(link)' = Way(Tail(w), s, t, m)
    BY <1>1, <1>5, <2>3 DEF OnWay, Waiting, mgrVars, vars, hubButWire
  <2>7. q # << >> /\ Head(q) = msg /\ Tail(q) = OnWay(link)'
    <3>1. /\ Way(w, s, t, m) # << >> /\ Head(Way(w, s, t, m)) = Head(w)
          /\ SameRest(w, s, t, m)
      BY <1>1, <2>3, WayTake
    <3> QED BY <2>3, <2>4, <2>5, <2>6, <3>1 DEF msg, SameRest
  <2>8. gift'[link'] = Nil /\ merged' = merged
    BY <1>1, <1>9 DEF mgrVars, vars, hubButWire
  <2>9. Fits(sync', Nil, page'.view, Tail(q), merged)
    <3>1. CASE sync = "waiting"
      <4>1. FirstLeads(q, merged) BY <2>2, <2>4, <3>1 DEF Fits
      <4>2. sync' = "synced" => /\ msg.type = "snapshot" /\ msg.data \in Graph
                                /\ Covers(page'.view, msg.data)
        BY <1>1, <1>4, <3>1 DEF Message
      <4>3. sync' = "synced" => Leads(msg.data, Tail(q), merged)
        BY <2>7, <4>1, <4>2 DEF FirstLeads
      <4>4. sync' # "waiting" BY <1>1, <3>1
      <4> QED BY <4>2, <4>3, <4>4 DEF Fits
    <3>2. CASE sync = "synced"
      <4>1. PICK g \in Graph : Covers(page.view, g) /\ Leads(g, q, merged)
        BY <2>2, <2>4, <3>2 DEF Fits
      <4>2. PICK h \in Graph : msg = DeltaOf(g, h) /\ Leads(h, Tail(q), merged)
        BY <2>7, <4>1, LeadsTail
      <4>3. page'.view = ApplyDelta(page.view, DiffSnapshots(g, h))
        BY <1>6, <4>2 DEF DeltaOf
      <4>4. Covers(page'.view, h)
        <5>1. page.view \in View BY DEF HubTyped
        <5> QED BY <4>1, <4>3, <5>1, DeltaCovers
      <4>5. sync' # "waiting" BY <1>1, <3>2
      <4> QED BY <4>2, <4>4, <4>5 DEF Fits
    <3>3. CASE sync = "broken"
      <4>1. sync' = "broken" BY <1>1, <3>3
      <4> QED BY <4>1 DEF Fits
    <3> QED BY <3>1, <3>2, <3>3 DEF HubTyped
  <2> QED BY <2>7, <2>8, <2>9
<1> QED BY <1>2, <1>3, <1>8, <1>10, <1>11

\* Every step, of whichever part, keeps the invariant.
LEMMA LiveStep == LiveInv /\ [LiveNext]_liveVars => LiveInv'
<1> SUFFICES ASSUME LiveInv, [LiveNext]_liveVars PROVE LiveInv' OBVIOUS
<1>1. CASE UNCHANGED liveVars
  <2>1. UNCHANGED <<mgrVars, hubVars, page, link, dropped, sync>> BY <1>1 DEF liveVars
  <2>2. Inv' /\ ManagerFirst' BY <2>1, ManagerStays DEF LiveInv, hubVars, hubButWire
  <2>3. HubTyped' /\ Stages'
    BY <2>1 DEF LiveInv, HubTyped, Stages, hubVars, hubButWire
  <2>4. Fed'
    <3>1. Up' = Up /\ OnWay(link)' = OnWay(link) /\ UNCHANGED <<merged, lost, gift>>
      BY <2>1 DEF Up, OnWay, Waiting, mgrVars, vars, hubVars, hubButWire
    <3> QED BY <2>1, <3>1, FedStays DEF LiveInv
  <2> QED BY <2>2, <2>3, <2>4 DEF LiveInv
<1>2. CASE PipeUpdates BY <1>2, PipeUpdatesInv
<1>3. CASE MainSubscribe BY <1>3, MainSubscribeInv
<1>4. CASE PipeToHub BY <1>4, PipeToHubInv
<1>5. ASSUME NEW c \in Conn, HubStep(c) PROVE LiveInv'
  <2>1. UNCHANGED <<updates, mgrVars, page, link, dropped, sync>> BY <1>5 DEF HubStep
  <2>2. CASE hub!Register(c) BY <2>1, <2>2, RegisterInv
  <2>3. CASE hub!StartPumps(c) BY <2>1, <2>3, StartPumpsInv
  <2>4. CASE hub!WriteMessage(c) BY <2>1, <2>4, WriteMessageInv
  <2>5. CASE hub!StopWriter(c) \/ hub!StopReader(c) BY <2>1, <2>5, BreaksInv
  <2> QED BY <1>5, <2>2, <2>3, <2>4, <2>5 DEF HubStep, hub!Writer
<1>6. ASSUME NEW c \in Conn, HubDeliver(c) PROVE LiveInv' BY <1>6, HubDeliverInv
<1>7. ASSUME NEW c \in Conn, NetworkBreaks(c) PROVE LiveInv'
  BY <1>7, BreaksInv DEF NetworkBreaks
<1>8. CASE Connect BY <1>8, ConnectInv
<1>9. CASE OnClose BY <1>9, OnCloseInv
<1>10. CASE OnMessage BY <1>10, OnMessageInv
<1> QED BY <1>1, <1>2, <1>3, <1>4, <1>5, <1>6, <1>7, <1>8, <1>9, <1>10 DEF LiveNext

\* The inductive invariant of the whole way, from the collectors to the page.
THEOREM LiveInvHolds == LiveSpec => []LiveInv
BY LiveStart, LiveStep, PTL DEF LiveSpec

----------------------------------------------------------------------------
(* What the page will show.                                                *)

\* Counting up: a set of numbers that has 0, and i with i - 1, has all of them.
LEMMA CountUp ==
    ASSUME NEW n \in Nat, NEW D, 0 \in D, \A i \in 1 .. n : i - 1 \in D => i \in D
    PROVE  0 .. n \subseteq D
<1> DEFINE Out == {i \in 0 .. n : i \notin D}
<1> SUFFICES ASSUME Out # {} PROVE FALSE OBVIOUS
<1>1. Out \subseteq Nat OBVIOUS
<1> HIDE DEF Out
<1> DEFINE R == {ss \in Nat \X Nat : ss[1] < ss[2]}
<1>2. IsWellFoundedOn(R, Nat) BY NatLessThanWellFounded DEF OpToRel
<1> HIDE DEF R
<1>3. PICK i \in Out : \A j \in Out : ~(<<j, i>> \in R)
  BY <1>1, <1>2, WFMin
<1>4. i \in 0 .. n /\ i \notin D BY DEF Out
<1>5. i # 0 BY <1>4
<1>6. i \in 1 .. n /\ i - 1 \in 0 .. n /\ i - 1 \in Nat /\ i \in Nat /\ i - 1 < i
  BY <1>4, <1>5
<1>7. i - 1 \notin D BY <1>4, <1>6
<1>8. i - 1 \in Out BY <1>6, <1>7 DEF Out
<1>9. <<i - 1, i>> \in R BY <1>6 DEF R
<1> QED BY <1>3, <1>8, <1>9

\* HandleMessage, message after message.
Replayed(q, n, p) ==
    p = [i \in 0 .. n |-> IF i = 0 THEN page ELSE HandleMessage(p[i - 1], q[i])]

\* There are such pages, for as many messages as there are.
LEMMA ReplayExists ==
    ASSUME NEW q, NEW n \in Nat
    PROVE  \E p : Replayed(q, n, p)
<1> DEFINE D == {k \in 0 .. n : \E p : Replayed(q, k, p)}
<1>1. 0 \in D
  <2> DEFINE p == [i \in 0 .. 0 |-> page]
  <2>1. p = [i \in 0 .. 0 |-> IF i = 0 THEN page ELSE HandleMessage(p[i - 1], q[i])] OBVIOUS
  <2>2. Replayed(q, 0, p) BY <2>1 DEF Replayed
  <2> QED BY <2>2
<1>2. ASSUME NEW k \in 1 .. n, k - 1 \in D PROVE k \in D
  <2>1. PICK p : Replayed(q, k - 1, p) BY <1>2
  <2> DEFINE r == [i \in 0 .. k |-> IF i = k THEN HandleMessage(p[k - 1], q[k]) ELSE p[i]]
  <2>2. \A i \in 0 .. k - 1 : p[i] = IF i = 0 THEN page ELSE HandleMessage(p[i - 1], q[i])
    BY <2>1 DEF Replayed
  <2>3. /\ \A i \in 0 .. k - 1 : r[i] = p[i]
        /\ r[k] = HandleMessage(p[k - 1], q[k])
    OBVIOUS
  <2>4. \A i \in 0 .. k : r[i] = IF i = 0 THEN page ELSE HandleMessage(r[i - 1], q[i])
    <3> SUFFICES ASSUME NEW i \in 0 .. k
                 PROVE  r[i] = IF i = 0 THEN page ELSE HandleMessage(r[i - 1], q[i])
      OBVIOUS
    <3> HIDE DEF r
    <3>1. CASE i = k
      <4>1. i # 0 /\ i - 1 \in 0 .. k - 1 BY <3>1
      <4> QED BY <2>3, <3>1, <4>1
    <3>2. CASE i # k /\ i # 0
      <4>1. i \in 0 .. k - 1 /\ i - 1 \in 0 .. k - 1 BY <3>2
      <4> QED BY <2>2, <2>3, <3>2, <4>1
    <3>3. CASE i # k /\ i = 0
      <4>1. i \in 0 .. k - 1 BY <3>3
      <4> QED BY <2>2, <2>3, <3>3, <4>1
    <3> QED BY <3>1, <3>2, <3>3
  <2>5. r = [i \in 0 .. k |-> r[i]] OBVIOUS
  <2> HIDE DEF r
  <2>6. r = [i \in 0 .. k |-> IF i = 0 THEN page ELSE HandleMessage(r[i - 1], q[i])]
    BY <2>4, <2>5
  <2>7. Replayed(q, k, r) BY <2>6 DEF Replayed
  <2> QED BY <1>2, <2>7
<1> HIDE DEF D
<1>3. 0 .. n \subseteq D BY <1>1, <1>2, CountUp
<1>4. n \in D BY <1>3
<1> QED BY <1>4 DEF D

\* Deltas that lead from the graph the page shows to another take the page there.
LEMMA ReplayCovers ==
    ASSUME HubTyped, NEW q \in Seq(Message), NEW g \in Graph, NEW m,
           Covers(page.view, g), Leads(g, q, m)
    PROVE  Covers(Replay(q), m)
<1>1. PICK n \in Nat : n = Len(q) BY LenProperties
<1>2. PICK gs \in [0 .. n -> Graph] :
        /\ gs[0] = g /\ SameToDiff(gs[n], m)
        /\ \A i \in 1 .. n : q[i] = DeltaOf(gs[i - 1], gs[i])
  BY <1>1 DEF Leads
<1>3. PICK p : Replayed(q, n, p) /\ Replay(q) = p[n].view
  <2> DEFINE after == CHOOSE p : Replayed(q, n, p)
  <2>1. Replayed(q, n, after) BY <1>1, ReplayExists
  <2>2. after = CHOOSE p : p = [i \in 0 .. Len(q) |->
                    IF i = 0 THEN page ELSE HandleMessage(p[i - 1], q[i])]
    BY <1>1 DEF Replayed
  <2>3. Replay(q) = after[n].view BY <1>1, <2>2 DEF Replay
  <2> QED BY <2>1, <2>3
<1>4. p[0] = page /\ \A i \in 1 .. n : p[i] = HandleMessage(p[i - 1], q[i])
  BY <1>3 DEF Replayed
<1> DEFINE Good(i) == /\ p[i] = [view |-> p[i].view, fingerprint |-> p[i].fingerprint]
                      /\ p[i].view \in View /\ Covers(p[i].view, gs[i])
           D == {i \in 0 .. n : Good(i)}
<1>5. 0 \in D
  <2>1. Good(0) BY <1>2, <1>4 DEF HubTyped
  <2> QED BY <2>1
<1>6. ASSUME NEW i \in 1 .. n, i - 1 \in D PROVE i \in D
  <2>1. i - 1 \in 0 .. n /\ i \in 0 .. n /\ gs[i - 1] \in Graph /\ gs[i] \in Graph BY <1>2
  <2>2. q[i] = DeltaOf(gs[i - 1], gs[i]) BY <1>2
  <2>3. /\ p[i - 1] = [view |-> p[i - 1].view, fingerprint |-> p[i - 1].fingerprint]
        /\ p[i - 1].view \in View /\ Covers(p[i - 1].view, gs[i - 1])
    BY <1>6
  <2>4. p[i] = [p[i - 1] EXCEPT !.view =
                    ApplyDelta(p[i - 1].view, DiffSnapshots(gs[i - 1], gs[i]))]
    BY <1>4, <2>2 DEF HandleMessage, DeltaOf
  <2>5. DiffSnapshots(gs[i - 1], gs[i]) \in Delta BY <2>1, DiffTyped
  <2>6. ApplyDelta(p[i - 1].view, DiffSnapshots(gs[i - 1], gs[i])) \in View
    BY <2>3, <2>5, DeltaViewed
  <2>7. Covers(ApplyDelta(p[i - 1].view, DiffSnapshots(gs[i - 1], gs[i])), gs[i])
    BY <2>1, <2>3, DeltaCovers
  <2>8. p[i] = [view |-> ApplyDelta(p[i - 1].view, DiffSnapshots(gs[i - 1], gs[i])),
                fingerprint |-> p[i - 1].fingerprint]
    BY <2>3, <2>4
  <2>9. Good(i) BY <2>6, <2>7, <2>8
  <2> QED BY <2>1, <2>9
<1> HIDE DEF D
<1>7. 0 .. n \subseteq D BY <1>5, <1>6, CountUp
<1>8. Covers(p[n].view, gs[n])
  <2>1. n \in D BY <1>7
  <2> QED BY <2>1 DEF D
<1>9. Covers(p[n].view, m) BY <1>2, <1>8 DEF Covers, Shows, SameToDiff
<1> QED BY <1>3, <1>9

\* The invariant says what the property does.
LEMMA LiveInvFollows == LiveInv => PageFollows
<1> SUFFICES ASSUME LiveInv PROVE PageFollows OBVIOUS
<1> USE DEF LiveInv
<1>1. PageConverges
  <2> SUFFICES ASSUME Up, sync = "synced", Lossless, NEW s \in Sub
               PROVE  Covers(Replay(Pending(link) \o InManager(s)), merged)
    BY DEF PageConverges
  <2>1. link \in Conn /\ s = Pipe BY OnePipe DEF Up, HubTyped
  <2>2. Pending(link) \o InManager(s) = OnWay(link)
    BY <2>1 DEF Pending, InManager, OnWay, Way, Waiting, Sent
  <2>3. OnWay(link) \in Seq(Message) BY <2>1, OnWayTyped
  <2>4. PICK g \in Graph : Covers(page.view, g) /\ Leads(g, OnWay(link), merged)
    BY DEF Fed, Fits
  <2>5. PICK q \in Seq(Message) : q = OnWay(link) BY <2>3
  <2>6. Covers(Replay(q), merged) BY <2>4, <2>5, ReplayCovers
  <2> QED BY <2>2, <2>5, <2>6
<1>2. CurrentFollows
  <2> SUFFICES ASSUME current # Nil, ~lost[Pipe], chan[Pipe] = << >>
               PROVE  SameToDiff(current, merged)
    BY OnePipe DEF CurrentFollows
  <2>1. status[Pipe] = "open" /\ current = seen[Pipe] BY DEF ManagerFirst
  <2>2. Chain(seen[Pipe], << >>, merged) BY <2>1, OnePipe DEF Inv, FeedsChain
  <2>3. Len(<< >>) = 0 /\ 0 + 1 .. (0 + 1) - 1 = {} OBVIOUS
  <2>4. OnlyStatsBetween(<< >>, 0, Len(<< >>) + 1) BY <2>3 DEF OnlyStatsBetween
  <2>5. SameToDiff(seen[Pipe], merged) BY <2>2, <2>4 DEF Chain
  <2> QED BY <2>1, <2>5
<1> QED BY <1>1, <1>2 DEF PageFollows

\* End to end: whatever the collectors report, in whatever order the manager, the hub's
\* goroutines and the browser take their steps, and whichever connections come and break,
\* the messages on their way to a page that showed its first snapshot and lost nothing take
\* it to the merged graph, and the snapshot for the next page follows the manager.
THEOREM PageLed == LiveSpec => []PageFollows
BY LiveInvHolds, LiveInvFollows, PTL
=============================================================================
