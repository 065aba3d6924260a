----------------------------- MODULE Highlight -----------------------------
(***************************************************************************)
(* What stays lit when an element of the canvas is selected or a search is *)
(* active: utils/selectionGraph.ts and hooks/useSelectionHighlight.ts.  It *)
(* works on the elements and links of NetworkView and NodeView alike.      *)
(*                                                                         *)
(* A selection is [type, id], type "node" or "edge", or Undefined.         *)
(***************************************************************************)
EXTENDS NodeView

serviceIdOf(n) == IF n.type = "nodeServiceCard" THEN n.service ELSE Undefined

\* The elements nested under a group, at any depth.
descendantIds(nodes, id) ==
  LET children(g) == {n.id : n \in {m \in ToSet(nodes) : m.parent = g}}
      below[g \in Ids(nodes) \union {id}] == children(g) \union UNION {below[child] : child \in children(g)}
  IN below[id]

\* The groups an element is in.
AncestorsOf(nodes, id) ==
  LET parents(g) == IF HasId(nodes, g) THEN {ById(nodes, g).parent} \ {Undefined} ELSE {}
      above[g \in Ids(nodes) \union {n.parent : n \in ToSet(nodes)} \union {id}] ==
        parents(g) \union UNION {above[group] : group \in parents(g)}
  IN above[id]

isSelectionPresent(selection, nodes, edges) ==
  HasId(IF selection.type = "node" THEN nodes ELSE edges, selection.id)

EndsOf(edges) == UNION {{e.source, e.target} : e \in edges}
Touching(edges, ids) == {e \in ToSet(edges) : {e.source, e.target} \intersect ids # {}}

\* Mutant: the groups around what is reached are not lit.
NoneAround(nodes, ids) == {}

\* The groups around these elements.
Around(nodes, ids) == UNION {AncestorsOf(nodes, id) : id \in ids}

\* What is connected to a selected group: all in it, and the other ends of its links
\* with the groups they are in.  The groups it is in itself are left alone.
GroupConnections(nodes, edges, id) ==
  LET inside == {id} \union descendantIds(nodes, id)
      links == Touching(edges, inside)
      groups == {g \in inside : isGroupType(ById(nodes, g).type)}
  IN [edges |-> links,
      nodes |-> (inside \ {id}) \union EndsOf(links),
      groups |-> groups \union Around(nodes, EndsOf(links) \ inside)]

\* What is connected to a single element, and with it to a service's other cards.
NodeConnections(nodes, edges, id) ==
  LET service == serviceIdOf(ById(nodes, id))
      origins == {id} \union {n.id : n \in {m \in ToSet(nodes) :
                                service # Undefined /\ serviceIdOf(m) = service}}
      links == Touching(edges, origins)
      lit == origins \union EndsOf(links)
  IN [edges |-> links, nodes |-> lit, groups |-> Around(nodes, lit)]

\* What is connected to an edge: its ends, and what is directly in a group it ends at.
EdgeConnections(nodes, edges, id) ==
  LET edge == ById(edges, id)
      ends == {edge.source, edge.target}
      groups == {g \in ends : HasId(nodes, g) /\ isGroupType(ById(nodes, g).type)}
      lit == ends \union {n.id : n \in {m \in ToSet(nodes) : m.parent \in groups}}
  IN [edges |-> {edge}, nodes |-> lit, groups |-> Around(nodes, lit)]

resolveConnectedElements(selection, nodes, edges) ==
  IF selection.type = "edge" THEN EdgeConnections(nodes, edges, selection.id)
  ELSE IF isGroupType(ById(nodes, selection.id).type)
  THEN GroupConnections(nodes, edges, selection.id)
  ELSE NodeConnections(nodes, edges, selection.id)

\* Under a search groups stay lit, and cards with their service.
matchesSearch(n, matching) ==
  isGroupType(n.type) \/ n.id \in matching \/ serviceIdOf(n) \in matching

\* The selection that counts, one the graph does not have being ignored.  `links' has the
\* links that depend on a selection: [selected, none].
ActiveSelection(selection, nodes, edges, links) ==
  IF selection # Undefined /\ isSelectionPresent(selection, nodes, edges \o links.selected)
  THEN selection ELSE Undefined

\* The ids that stay lit.  Undefined as `matching' means that there is no search.
useSelectionHighlight(selection, nodes, edges, links, matching) ==
  LET active == ActiveSelection(selection, nodes, edges, links)
      all == edges \o IF active = Undefined THEN links.none ELSE links.selected
      connected == resolveConnectedElements(active, nodes, all)
  IN IF active # Undefined
     THEN [nodes |-> {n.id : n \in {m \in ToSet(nodes) :
                        \/ m.id \in connected.nodes
                        \/ isGroupType(m.type) /\ m.id \in connected.groups}},
           edges |-> {e.id : e \in connected.edges}]
     ELSE [nodes |-> {n.id : n \in {m \in ToSet(nodes) :
                        matching = Undefined \/ matchesSearch(m, matching)}},
           edges |-> {e.id : e \in ToSet(all)}]

\* The links between cards that FlowCanvas adds to a swarm drawn by its nodes: its control
\* links, and those of the service whose card is selected.
linkEdgesFor(dgNodes, dgEdges, nodes, selection) ==
  controlLinkEdges(dgNodes)
  \o IF selection # Undefined /\ selection.type = "node" /\ HasId(nodes, selection.id)
        /\ serviceIdOf(ById(nodes, selection.id)) # Undefined
     THEN overlayLinkEdges(dgNodes, dgEdges, nodes, serviceIdOf(ById(nodes, selection.id)))
     ELSE <<>>

-----------------------------------------------------------------------------
(* Properties.                                                             *)

\* What is drawn: an id is of one element, and its group is drawn before it.
Nested(nodes) ==
  /\ \A i, j \in DOMAIN nodes : nodes[i].id = nodes[j].id => i = j
  /\ \A i \in DOMAIN nodes :
       /\ nodes[i].id # Undefined
       /\ nodes[i].parent # Undefined =>
            \E j \in 1..(i - 1) : nodes[j].id = nodes[i].parent /\ isGroupType(nodes[j].type)

\* And the edges between the elements: an id is of one edge, which is no end of one.
ProperEdges(edges) ==
  /\ \A i, j \in DOMAIN edges : edges[i].id = edges[j].id => i = j
  /\ \A e \in ToSet(edges) : Ids(edges) \intersect {e.source, e.target} = {}

\* "so children don't appear highlighted inside a faded-out group" (selectionGraph.ts:151),
\* "so the nodes they reach stay lit" (useSelectionHighlight.ts:46), "ignored rather than
\* fading the whole new graph" (useSelectionHighlight.ts:63): what is selected is lit with
\* both ends of every lit link and the groups around everything lit, but for those around
\* a selected group; every link of a selected element is lit; and a selection the graph
\* does not have fades nothing.
LitClosed(nodes, all, selection, lit) ==
  LET spared == IF selection.type = "node" THEN AncestorsOf(nodes, selection.id) ELSE {}
  IN IF ~isSelectionPresent(selection, nodes, all)
     THEN lit.nodes = Ids(nodes)
     ELSE /\ selection.id \in lit.nodes \union lit.edges
          /\ \A e \in {x \in ToSet(all) : x.id \in lit.edges} :
               {e.source, e.target} \intersect Ids(nodes) \subseteq lit.nodes
          /\ \A e \in ToSet(all) : selection.id \in {e.source, e.target} => e.id \in lit.edges
          /\ \A id \in lit.nodes : AncestorsOf(nodes, id) \subseteq lit.nodes \union spared

HighlightClosed(nodes, edges, links(_), selections) ==
  Nested(nodes) /\ \A selection \in selections :
    /\ ProperEdges(edges \o links(selection))
    /\ LitClosed(nodes, edges \o links(selection), selection,
         useSelectionHighlight(selection, nodes, edges,
                               [selected |-> links(selection), none |-> links(Undefined)], Undefined))
=============================================================================
