---------------------------- MODULE NetworkView ----------------------------
(***************************************************************************)
(* The graph by network: utils/graphTransform.ts draws a graph, and the    *)
(* files of layout/ around elk.ts have ELK lay it out: one sub-graph per   *)
(* connected component, groups inside it, and back to positions and edge   *)
(* paths.  ELK itself is external: it gives every element some position    *)
(* inside its parent, and every edge some path inside its owner.           *)
(*                                                                         *)
(* A drawn element is [id, type, parent], a drawn edge [id, source,        *)
(* target].  Positions have one coordinate, for both are treated alike;    *)
(* paths to be smoothed have two.                                          *)
(***************************************************************************)
EXTENDS Stacks, Integers, Functions

CONSTANTS
  UNMANAGED_GROUP_ID,
  ANIMATION_NODE_LIMIT,
  UTURN_THRESHOLD

Drawn(id, type, parent) == [id |-> id, type |-> type, parent |-> parent]

isGroupType(type) == type \in {"networkGroup", "nodeGroup", "roleGroup"}

Workloads(dgNodes) == SelectSeq(dgNodes, isWorkload)
OfType(dgNodes, type) == SelectSeq(dgNodes, LAMBDA n : n.type = type)

isEndpointActive(node) ==
  CASE node.type = "service" -> isServiceLive(node)
    [] node.type = "container" -> node.status = "running"
    [] OTHER -> TRUE

-----------------------------------------------------------------------------
(* What is drawn.                                                          *)

\* A network is drawn when a workload is in it or reaches it.
NetworkShown(network, dgNodes, dgEdges) ==
  \/ \E n \in ToSet(Workloads(dgNodes)) : n.networkId = network.id
  \/ \E e \in ToSet(dgEdges) : e.type = "secondary_network" /\ e.target = network.id

\* And a group for the containers that have neither a network nor a Compose file.
buildNetworkGroups(dgNodes, dgEdges) ==
  LET shown == SelectSeq(OfType(dgNodes, "network"),
                         LAMBDA n : NetworkShown(n, dgNodes, dgEdges))
      unmanaged == \E n \in ToSet(Workloads(dgNodes)) :
                     n.source = Undefined /\ n.networkId = Undefined
  IN [i \in DOMAIN shown |-> Drawn(shown[i].id, "networkGroup", Undefined)]
     \o IF unmanaged THEN <<Drawn(UNMANAGED_GROUP_ID, "networkGroup", Undefined)>> ELSE <<>>

\* The group a workload asks for; a group that is not drawn leaves it on its own.
GroupWanted(node) ==
  IF node.networkId # Undefined THEN node.networkId
  ELSE IF node.source = Undefined THEN UNMANAGED_GROUP_ID ELSE Undefined

Among(group, groups) == IF HasId(groups, group) THEN group ELSE Undefined

buildContainerNodes(dgNodes, groups) ==
  LET ws == Workloads(dgNodes)
  IN [i \in DOMAIN ws |->
        Drawn(ws[i].id, IF ws[i].type = "service" THEN "serviceNode" ELSE "containerNode",
              Among(GroupWanted(ws[i]), groups))]

\* A volume is in the group of its first consumer that asks for one.
buildVolumeNodes(dgNodes, dgEdges, groups) ==
  LET volumes == OfType(dgNodes, "volume")
      Consumers(v) == {i \in DOMAIN dgEdges :
        /\ dgEdges[i].type = "volume_mount" /\ dgEdges[i].source = v.id
        /\ \E n \in ToSet(Workloads(dgNodes)) :
             n.id = dgEdges[i].target /\ GroupWanted(n) # Undefined}
      Group(v) == IF Consumers(v) = {} THEN Undefined
                  ELSE GroupWanted(ById(dgNodes, dgEdges[Min(Consumers(v))].target))
  IN [i \in DOMAIN volumes |->
        Drawn(volumes[i].id, "volumeNode", Among(Group(volumes[i]), groups))]

toReactFlowNodes(dgNodes, dgEdges) ==
  LET groups == buildNetworkGroups(dgNodes, dgEdges)
  IN groups \o buildContainerNodes(dgNodes, groups) \o buildVolumeNodes(dgNodes, dgEdges, groups)

\* Edges with both ends in the graph; they move when both ends are live and the graph is
\* not too large.
toReactFlowEdges(dgEdges, dgNodes) ==
  LET ended == SelectSeq(dgEdges, LAMBDA e : {e.source, e.target} \subseteq Ids(dgNodes))
      active(e) == /\ isEndpointActive(ById(dgNodes, e.source))
                   /\ isEndpointActive(ById(dgNodes, e.target))
  IN [i \in DOMAIN ended |->
        [id |-> ended[i].id, source |-> ended[i].source, target |-> ended[i].target,
         active |-> active(ended[i]),
         animated |-> active(ended[i]) /\ Len(dgNodes) <= ANIMATION_NODE_LIMIT]]

-----------------------------------------------------------------------------
(* Laying it out.                                                          *)

\* The element of the top level that holds id, or it itself.
TopOf(nodes, id) == IF ById(nodes, id).parent # Undefined THEN ById(nodes, id).parent ELSE id

\* classifyNodes: groups, their children, the rest.
Groups(nodes) == SelectSeq(nodes, LAMBDA n : isGroupType(n.type))
Children(nodes) == SelectSeq(nodes, LAMBDA n : n.parent # Undefined)
FreeNodes(nodes) == SelectSeq(nodes, LAMBDA n : ~isGroupType(n.type) /\ n.parent = Undefined)
TopIds(nodes) == LET top == Groups(nodes) \o FreeNodes(nodes) IN [i \in DOMAIN top |-> top[i].id]

\* Mutant: edges are followed from their source only.
AdjacentForward(nodes, edges, a, b) ==
  a # b /\ \E e \in ToSet(edges) : TopOf(nodes, e.source) = a /\ TopOf(nodes, e.target) = b

Adjacent(nodes, edges, a, b) ==
  a # b /\ \E e \in ToSet(edges) : {TopOf(nodes, e.source), TopOf(nodes, e.target)} = {a, b}

\* Depth first from the elements of a stack; what was visited is the component.
Visit(start, seen, neighbours) ==
  LET visit[stack \in Seq(DOMAIN neighbours), visited \in SUBSET DOMAIN neighbours] ==
        IF stack = <<>> THEN visited
        ELSE LET cur == Last(stack)
                 next == SetToSeq(neighbours[cur] \ (visited \union {cur}))
             IN IF cur \in visited THEN visit[Front(stack), visited]
                ELSE visit[Front(stack) \o next, visited \union {cur}]
  IN visit[<<start>>, seen]

\* The components, each once, in the order of their first element.
findComponents(nodes, edges) ==
  LET ids == TopIds(nodes)
      neighbours == [id \in ToSet(ids) |->
                       {other \in ToSet(ids) : Adjacent(nodes, edges, id, other)}]
      Add(found, id) == IF \E c \in ToSet(found) : id \in c THEN found
                        ELSE Append(found, Visit(id, UNION ToSet(found), neighbours)
                                           \ UNION ToSet(found))
  IN FoldLeft(Add, <<>>, ids)

SameGroup(nodes, e) ==
  LET s == ById(nodes, e.source)
      t == ById(nodes, e.target)
  IN s.parent # Undefined /\ s.parent = t.parent

\* Edges within a group belong to it, the others of a component to the component.
GroupEdges(nodes, edges, group) ==
  {e.id : e \in {x \in ToSet(edges) : SameGroup(nodes, x) /\ TopOf(nodes, x.source) = group}}
RootEdges(nodes, edges, component) ==
  {e.id : e \in {x \in ToSet(edges) :
     ~SameGroup(nodes, x) /\ {TopOf(nodes, x.source), TopOf(nodes, x.target)} \subseteq component}}

\* What ELK is given: a single element without edges of its own as it is, any other
\* component in a wrapper.
wrapComponents(nodes, edges) ==
  LET components == findComponents(nodes, edges)
  IN [i \in DOMAIN components |->
        [ids |-> components[i],
         edges |-> RootEdges(nodes, edges, components[i]),
         wrapped |-> Cardinality(components[i]) # 1
                     \/ RootEdges(nodes, edges, components[i]) # {}]]

\* ELK's answer, external: where it puts the i-th wrapper, and an element in its parent.
ElkWrapper(i) == 1000 * i
ElkAt(nodes, id) == CHOOSE i \in DOMAIN nodes : nodes[i].id = id

\* Mutant: the wrapper's own position is not added.
OffsetMissing(tree, i) == 0

\* The offset of what is in the i-th sub-graph: its wrapper's, when it has one.
Offset(tree, i) == IF tree[i].wrapped THEN ElkWrapper(i) ELSE 0

\* Where React Flow puts an element: children inside their parents.
applyElkPositions(nodes, tree, id) ==
  LET top == TopOf(nodes, id)
      i == CHOOSE k \in DOMAIN tree : top \in tree[k].ids
  IN Offset(tree, i) + ElkAt(nodes, top) + IF top = id THEN 0 ELSE ElkAt(nodes, id)

\* ELK's path of an edge in its owner's coordinates, external: from end to end.
ElkPath(nodes, e) ==
  LET within(id) == IF SameGroup(nodes, e) \/ TopOf(nodes, id) = id THEN ElkAt(nodes, id)
                    ELSE ElkAt(nodes, TopOf(nodes, id)) + ElkAt(nodes, id)
  IN <<within(e.source), within(e.target)>>

\* And as it is drawn: the offsets of its owner and of what that is in are added.  The
\* owners that were given the edge; of several, the highest.
extractEdgePaths(nodes, edges, tree, e) ==
  LET roots == {i \in DOMAIN tree : tree[i].wrapped /\ e.id \in tree[i].edges}
      group == TopOf(nodes, e.source)
      holders == {i \in DOMAIN tree : group \in tree[i].ids}
      base == IF roots # {} THEN {ElkWrapper(Min(roots))}
              ELSE IF e.id \in GroupEdges(nodes, edges, group) /\ holders # {}
              THEN {(IF tree[Min(holders)].wrapped THEN ElkWrapper(Min(holders)) ELSE 0)
                    + ElkAt(nodes, group)}
              ELSE {}
  IN {[i \in 1..2 |-> b + ElkPath(nodes, e)[i]] : b \in base}

\* The layout: groups first, then what they hold, and every element and edge at its place.
computeLayout(nodes, edges) ==
  LET tree == wrapComponents(nodes, edges)
      laid == Groups(nodes) \o Children(nodes) \o FreeNodes(nodes)
  IN [parts |-> tree,
      nodes |-> [i \in DOMAIN laid |-> [at |-> applyElkPositions(nodes, tree, laid[i].id)] @@ laid[i]],
      edges |-> [i \in DOMAIN edges |->
                   [paths |-> extractEdgePaths(nodes, edges, tree, edges[i])] @@ edges[i]]]

-----------------------------------------------------------------------------
(* Smoothing of orthogonal paths.                                          *)

Point == [x : Int, y : Int]

Sign(n) == IF n > 0 THEN 1 ELSE IF n < 0 THEN -1 ELSE 0
Abs(n) == IF n < 0 THEN -n ELSE n
Flip(q) == [x |-> q.y, y |-> q.x]

\* a to b and c to d run against each other and b to c is short.
IsUturn(a, b, c, d) ==
  /\ a.y = b.y /\ b.x = c.x /\ c.y = d.y
  /\ Sign(b.x - a.x) * Sign(d.x - c.x) = -1
  /\ Abs(b.y - c.y) < UTURN_THRESHOLD

\* What stands for b and c afterwards: nothing, or the corner that leads straight to d.
Corner(a, c, d) == IF a.x = d.x THEN <<>> ELSE <<[x |-> a.x, y |-> c.y]>>

\* Where a path turns back, horizontally or vertically.
Uturns(points) ==
  LET across(i) == IsUturn(points[i], points[i + 1], points[i + 2], points[i + 3])
      along(i) == IsUturn(Flip(points[i]), Flip(points[i + 1]), Flip(points[i + 2]),
                          Flip(points[i + 3]))
  IN [across |-> {i \in 1..(Len(points) - 3) : across(i)},
      along |-> {i \in 1..(Len(points) - 3) : along(i)}]

\* The first U-turn is cut until there is none.
smoothUturns[points \in Seq(Point)] ==
  LET turns == Uturns(points)
      found == turns.across \union turns.along
      i == Min(found)
      corner == IF i \in turns.across THEN Corner(points[i], points[i + 2], points[i + 3])
                ELSE LET k == Corner(Flip(points[i]), Flip(points[i + 2]), Flip(points[i + 3]))
                     IN [j \in DOMAIN k |-> Flip(k[j])]
  IN IF found = {} THEN points
     ELSE smoothUturns[SubSeq(points, 1, i) \o corner \o SubSeq(points, i + 3, Len(points))]

-----------------------------------------------------------------------------
(* Properties of a graph.                                                  *)

\* "Both endpoints of an edge must be at the same hierarchy depth for proper cross-group
\* edge routing" (graphTransform.ts:131), "Each connected component is processed
\* independently" (elkGraph.ts:76): the elements drawn have one id each and a parent that
\* is drawn before them, every element of the top level is in one component and no
\* component could be split, and every edge drawn runs between two elements drawn and
\* its path from where the one is to where the other is.
LaidOutSound(drawn, layout) ==
  LET nodes == layout.nodes
      tree == layout.parts
      at(id) == ById(nodes, id).at
  IN /\ Len(nodes) = Len(drawn)
     /\ \A i, j \in DOMAIN nodes : nodes[i].id = nodes[j].id => i = j
     /\ \A i \in DOMAIN nodes : nodes[i].parent # Undefined =>
          \E j \in 1..(i - 1) : nodes[j].id = nodes[i].parent /\ isGroupType(nodes[j].type)
     /\ UNION {tree[i].ids : i \in DOMAIN tree} = ToSet(TopIds(nodes))
     /\ \A i, j \in DOMAIN tree : i # j => tree[i].ids \intersect tree[j].ids = {}
     /\ \A i \in DOMAIN tree : \A part \in (SUBSET tree[i].ids) \ {{}, tree[i].ids} :
          \E a \in part, b \in tree[i].ids \ part : Adjacent(nodes, layout.edges, a, b)
     /\ \A e \in ToSet(layout.edges) :
          /\ {e.source, e.target} \subseteq Ids(nodes)
          /\ e.paths = {<<at(e.source), at(e.target)>>}

DrawnSound(nodes, edges) == LaidOutSound(nodes, computeLayout(nodes, edges))

NetworkViewSound(dgNodes, dgEdges) ==
  DrawnSound(toReactFlowNodes(dgNodes, dgEdges), toReactFlowEdges(dgEdges, dgNodes))

\* "Detects 4-point patterns where the path reverses direction over a short distance and
\* collapses them" (edgePaths.ts:16): however many there are, a smoothed path still leads
\* from end to end in horizontal and vertical strokes, is no longer than it was, and has
\* none left.
SmoothedSound(points, smooth) ==
  LET Length(path) == SumFunction([i \in 1..(Len(path) - 1) |->
                        Abs(path[i + 1].x - path[i].x) + Abs(path[i + 1].y - path[i].y)])
  IN /\ smooth[1] = points[1] /\ Last(smooth) = Last(points)
     /\ Length(smooth) <= Length(points)
     /\ \A i \in 1..(Len(smooth) - 1) :
          smooth[i].x = smooth[i + 1].x \/ smooth[i].y = smooth[i + 1].y
     /\ \A i \in 1..(Len(smooth) - 3) :
          /\ ~IsUturn(smooth[i], smooth[i + 1], smooth[i + 2], smooth[i + 3])
          /\ ~IsUturn(Flip(smooth[i]), Flip(smooth[i + 1]), Flip(smooth[i + 2]), Flip(smooth[i + 3]))

SmoothingSound(points) == SmoothedSound(points, smoothUturns[points])
=============================================================================
