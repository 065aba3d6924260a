----------------------------- MODULE GraphView -----------------------------
(***************************************************************************)
(* The browser's copy of the graph: how useDockGraph handles a message     *)
(* (frontend/src/hooks/useDockGraph.ts) with the helpers of                *)
(* frontend/src/utils/deltaUtils.ts.  A module of operators.               *)
(***************************************************************************)
EXTENDS Graph

----------------------------------------------------------------------------
(* For each id, the entries of the node and edge arrays that carry it, in   *)
(* order.  A copy that missed nothing has one entry per id.                 *)

View == [nodes : [NodeId -> Seq(Node)], edges : [EdgeId -> Seq(Mount)]]

EmptyView == [nodes |-> [n \in NodeId |-> << >>],
              edges |-> [e \in EdgeId |-> << >>]]

Entries(f, Ids) == [i \in Ids |-> IF i \in DOMAIN f THEN <<f[i]>> ELSE << >>]

ViewOf(graph) == [nodes |-> Entries(graph.nodes, NodeId),
                  edges |-> Entries(graph.edges, EdgeId)]

\* {...old, ...update}: a field the JSON leaves out keeps its old value.
OverlayNode(old, update) ==
    [f \in DOMAIN old |-> IF update[f] = Empty THEN old[f] ELSE update[f]]

\* Mutant: what a delta removes stays.
PatchEntriesKeepRemoved(entries, removed, added, id) ==
    IF id \in DOMAIN added THEN Append(entries, added[id]) ELSE entries

\* One id's entries after removals, additions and updates, in that order:
\* an addition appends, an update rewrites the first entry found.
PatchEntries(entries, removed, added, id) ==
    LET kept == IF id \in removed THEN << >> ELSE entries
    IN  IF id \in DOMAIN added THEN Append(kept, added[id]) ELSE kept

UpdateFirst(entries, updated, id) ==
    IF id \in DOMAIN updated /\ entries # << >>
    THEN [entries EXCEPT ![1] = OverlayNode(@, updated[id])]
    ELSE entries

ApplyDelta(view, delta) ==
    [nodes |-> [n \in NodeId |->
        UpdateFirst(PatchEntries(view.nodes[n], delta.nodesRemoved, delta.nodesAdded, n),
                    delta.nodesUpdated, n)],
     edges |-> [e \in EdgeId |->
        PatchEntries(view.edges[e], delta.edgesRemoved, delta.edgesAdded, e)]]

\* snapshotFingerprint: the fields and ids two snapshots are told apart by.
SnapshotFingerprint(graph) ==
    [nodes |-> [n \in DOMAIN graph.nodes |->
                   [status    |-> graph.nodes[n].status,
                    networkId |-> graph.nodes[n].networkId]],
     edges |-> DOMAIN graph.edges]

\* The page's state: what it shows, and the fingerprint of the last snapshot it
\* applied.  Deltas leave the fingerprint alone.
FreshPage == [view |-> EmptyView, fingerprint |-> Nil]

ApplySnapshot(page, graph) ==
    IF SnapshotFingerprint(graph) = page.fingerprint THEN page
    ELSE [view |-> ViewOf(graph), fingerprint |-> SnapshotFingerprint(graph)]

HandleMessage(page, msg) ==
    CASE msg.type = "snapshot" -> ApplySnapshot(page, msg.data)
      [] msg.type = "delta"    -> [page EXCEPT !.view = ApplyDelta(@, msg.data)]
      [] OTHER -> page

----------------------------------------------------------------------------
(* How close a view is to a graph.                                         *)

Fields == {"status", "networkId", "source"}

\* The entry shows every field of F the node has.
FieldsShown(entry, node, F) ==
    \A f \in F : node[f] # Empty => entry[f] = node[f]

\* One entry per node and edge of the graph and no other, with every field of F
\* the graph's nodes have.
Shows(view, graph, F) ==
    /\ \A n \in NodeId :
          IF n \in DOMAIN graph.nodes
          THEN Len(view.nodes[n]) = 1 /\ FieldsShown(view.nodes[n][1], graph.nodes[n], F)
          ELSE view.nodes[n] = << >>
    /\ \A e \in EdgeId :
          Len(view.edges[e]) = IF e \in DOMAIN graph.edges THEN 1 ELSE 0

\* The most that deltas built by DiffSnapshots can keep up.
Covers(view, graph) == Shows(view, graph, Fields)
=============================================================================
