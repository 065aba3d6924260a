------------------------------- MODULE Graph -------------------------------
(***************************************************************************)
(* The topology graph DockGraph keeps, and how the backend merges and      *)
(* compares graphs (backend/state/manager.go and diff.go).                 *)
(* A module of operators, with no state of its own.                        *)
(*                                                                         *)
(* A node is identified by its id, which encodes its name and type, the    *)
(* pair mergeNodes uses as its key.  Of a node's fields three are kept,    *)
(* one of each kind the code treats differently: `status', taken from the  *)
(* runtime source; `networkId', backfilled from a compose file and blanked *)
(* when it dangles; `source', overridden by a compose file and left out of *)
(* the browser's fingerprint.  An edge id encodes its two endpoints; the   *)
(* one field an edge has besides is where the volume is mounted.           *)
(***************************************************************************)
EXTENDS Naturals, Sequences, Functions

CONSTANTS
    NodeId,     \* ids of containers, services, networks and volumes
    EdgeId,     \* ids of edges
    From, To,   \* the endpoints an edge id encodes
    Value,      \* the values of a node's status and source
    Mount,      \* the mount paths of edges
    Empty,      \* the zero value of a field, left out of the JSON
    Nil         \* a nil pointer

ASSUME GraphAssumption ==
    /\ From \in [EdgeId -> NodeId]
    /\ To \in [EdgeId -> NodeId]
    /\ Empty \notin NodeId

----------------------------------------------------------------------------

\* The functions from a subset of S to T.
Partial(S, T) == UNION {[D -> T] : D \in SUBSET S}

Node == [status    : Value \union {Empty},
         networkId : NodeId \union {Empty},
         source    : Value \union {Empty}]

Graph == [nodes : Partial(NodeId, Node), edges : Partial(EdgeId, Mount)]

EmptyGraph == [nodes |-> [n \in {} |-> Empty], edges |-> [e \in {} |-> Empty]]

----------------------------------------------------------------------------
(* mergeSnapshots: the graph of what the daemon runs, completed with what  *)
(* the compose files declare.                                              *)

\* The daemon's node, with the source of the compose file and, when the
\* daemon names none, its network.
BackfillNode(dockerNode, composeNode) ==
    [dockerNode EXCEPT
        !.source = IF composeNode.source # Empty THEN composeNode.source ELSE @,
        !.networkId = IF @ = Empty THEN composeNode.networkId ELSE @]

MergeNodes(dockerNodes, composeNodes) ==
    [n \in DOMAIN dockerNodes \union DOMAIN composeNodes |->
        CASE n \notin DOMAIN composeNodes -> dockerNodes[n]
          [] n \notin DOMAIN dockerNodes  -> composeNodes[n]
          [] OTHER -> BackfillNode(dockerNodes[n], composeNodes[n])]

\* A network id that resolves to no node of the graph is blanked.
ClearDanglingNetworkIDs(nodes) ==
    [n \in DOMAIN nodes |->
        [nodes[n] EXCEPT !.networkId = IF @ \in DOMAIN nodes THEN @ ELSE Empty]]

\* Mutant: edges whose endpoints are not in the graph are kept.
MergeEdgesUnchecked(dockerEdges, composeEdges, nodes) ==
    [e \in DOMAIN dockerEdges \union DOMAIN composeEdges |->
        IF e \in DOMAIN dockerEdges THEN dockerEdges[e] ELSE composeEdges[e]]

\* The daemon's edges first; an edge without both endpoints is skipped.
MergeEdges(dockerEdges, composeEdges, nodes) ==
    [e \in {e \in DOMAIN dockerEdges \union DOMAIN composeEdges :
                From[e] \in DOMAIN nodes /\ To[e] \in DOMAIN nodes} |->
        IF e \in DOMAIN dockerEdges THEN dockerEdges[e] ELSE composeEdges[e]]

MergeSnapshots(compose, docker) ==
    LET nodes == ClearDanglingNetworkIDs(MergeNodes(docker.nodes, compose.nodes))
    IN  [nodes |-> nodes,
         edges |-> MergeEdges(docker.edges, compose.edges, nodes)]

----------------------------------------------------------------------------
(* diffSnapshots: nodes compared field by field, edges by id alone.        *)

Delta == [nodesAdded   : Partial(NodeId, Node),
          nodesUpdated : Partial(NodeId, Node),
          nodesRemoved : SUBSET NodeId,
          edgesAdded   : Partial(EdgeId, Mount),
          edgesRemoved : SUBSET EdgeId]

\* Nodes are compared field by field.
UpdatedNodes(prev, curr) ==
    {n \in DOMAIN prev.nodes \intersect DOMAIN curr.nodes :
        prev.nodes[n] # curr.nodes[n]}

DiffSnapshots(prev, curr) ==
    [nodesAdded   |-> Restrict(curr.nodes, DOMAIN curr.nodes \ DOMAIN prev.nodes),
     nodesUpdated |-> Restrict(curr.nodes, UpdatedNodes(prev, curr)),
     nodesRemoved |-> DOMAIN prev.nodes \ DOMAIN curr.nodes,
     edgesAdded   |-> Restrict(curr.edges, DOMAIN curr.edges \ DOMAIN prev.edges),
     edgesRemoved |-> DOMAIN prev.edges \ DOMAIN curr.edges]

Changed(delta) ==
    \/ DOMAIN delta.nodesAdded # {}
    \/ DOMAIN delta.nodesUpdated # {}
    \/ delta.nodesRemoved # {}
    \/ DOMAIN delta.edgesAdded # {}
    \/ delta.edgesRemoved # {}

\* What diffSnapshots can tell apart: two graphs that agree on it have no
\* difference to broadcast.
SameToDiff(g, h) == g.nodes = h.nodes /\ DOMAIN g.edges = DOMAIN h.edges

----------------------------------------------------------------------------

\* No network id without its node and no edge without its endpoints: what the
\* layout relies on when it parents a container under a network group.
WellFormed(graph) ==
    /\ \A n \in DOMAIN graph.nodes :
          graph.nodes[n].networkId \in DOMAIN graph.nodes \union {Empty}
    /\ \A e \in DOMAIN graph.edges :
          From[e] \in DOMAIN graph.nodes /\ To[e] \in DOMAIN graph.nodes
=============================================================================
