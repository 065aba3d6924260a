------------------------------- MODULE MCPage -------------------------------
(***************************************************************************)
(* The page, in scenes.  In the first six a small graph, a path or a text  *)
(* is all there is, one an initial state, and the properties are about the *)
(* operators that draw it.  In the others one part of the page runs and    *)
(* the rest rests.                                                         *)
(***************************************************************************)
EXTENDS FlowCanvas, Dashboard, EdgeLayer, GraphLayout, LogWindows, LogPane, PollingFetch

CONSTANTS net1, net2, gone, c1, c2, v1, s1, s2, p1, p2, m1, w1, w2, web, db

VARIABLE scene

\* The name of the second stack goes on from that of the first.
TheSpelling == Undefined :> <<>> @@ p1 :> <<p1>> @@ p2 :> <<p1, Dash, db>>
TheNameOrder == <<p1, p2, s1, s2, m1, w1, w2, net1, web, db, "11", "12", "21", "22">>

\* Two workloads in any of the networks, with any edges.
Placed == {[BareNode(id, type, <<web>>) EXCEPT !.networkId = net, !.source = src,
                                                     !.status = "running"] :
             id \in {c1}, type \in {"container", "service"}, net \in {Undefined, net1, gone},
             src \in {Undefined, "compose"}}
NetworkEdges == {<<"secondary_network", c1, net1>>, <<"secondary_network", c1, net2>>,
                 <<"secondary_network", c2, net2>>, <<"volume_mount", v1, c1>>,
                 <<"volume_mount", v1, c2>>, <<"depends_on", c1, c2>>}
EdgeOf(t) == [id |-> t, type |-> t[1], source |-> t[2], target |-> t[3]]
NetworkScenes ==
  {[kind |-> "network",
    nodes |-> <<BareNode(net1, "network", net1), BareNode(net2, "network", net2), a,
                [BareNode(c2, "container", <<db>>) EXCEPT !.networkId = net],
                BareNode(v1, "volume", v1)>>,
    edges |-> [i \in DOMAIN SetToSeq(es) |-> EdgeOf(SetToSeq(es)[i])]] :
     a \in Placed, net \in {Undefined, net1, net2}, es \in SUBSET NetworkEdges}

\* Tasks of two services on a manager and two workers, and a container.
SwarmNode(id, role, state) ==
  [BareNode(id, "swarmnode", id) EXCEPT !.role = role, !.status = state, !.nodeId = id,
                                        !.leader = role = "manager"]
Task(id, slot, node, state, desired) ==
  [id |-> id, slot |-> slot, nodeId |-> node, nodeHostname |-> node, state |-> state,
   desiredState |-> desired]
ServiceNode(id, net, tasks) ==
  [BareNode(id, "service", id) EXCEPT !.networkId = net, !.tasks = tasks]
OneTask(a, hosts) ==
  {<<Task(a, 1, host, state, "running")>> : host \in hosts, state \in {"running", "complete"}}
TwoTasks(a, b) ==
  {<<Task(a, 1, host, "running", "running"), Task(b, 2, other, "running", desired)>> :
     host \in {m1, w1}, other \in {m1, w1, w2}, desired \in {"running", "shutdown"}}
SwarmScenes ==
  {[kind |-> "swarm",
    nodes |-> <<SwarmNode(m1, "manager", "ready"), SwarmNode(w1, "worker", "down"),
                SwarmNode(w2, "worker", "ready"), BareNode(net1, "network", net1),
                ServiceNode(s1, net1, ts), ServiceNode(s2, net, us),
                [BareNode(c1, "container", c1) EXCEPT !.status = "running"]>>,
    edges |-> <<>>, local |-> local] :
     ts \in {<<>>} \union OneTask("11", {m1, w1, gone}) \union TwoTasks("11", "12"),
     us \in {<<>>} \union OneTask("21", {w1, w2}) \union {t \in TwoTasks("21", "22") : t[1].nodeId = w1},
     net \in {Undefined, net1}, local \in {Undefined, m1}}

\* Paths of up to five strokes.
Strokes == {-3, -1, 1, 3}
PathOf(ds) ==
  [i \in 1..(Len(ds) + 1) |->
     [x |-> SumFunctionOnSet(ds, {j \in 1..(i - 1) : j % 2 = 1}),
      y |-> SumFunctionOnSet(ds, {j \in 1..(i - 1) : j % 2 = 0})]]
PathScenes ==
  {[kind |-> "path", points |-> IF flip THEN [i \in DOMAIN PathOf(ds) |-> Flip(PathOf(ds)[i])]
                                ELSE PathOf(ds)] :
     ds \in UNION {[1..n -> Strokes] : n \in 1..5}, flip \in BOOLEAN}

\* Two workloads with any names in any stacks.
WorkloadNames ==
  {<<db>>, ComposeName(p1, <<db, Dash, web>>)} \union SameNames(p1, <<db>>) \union SameNames(p2, <<db>>)
StackScenes ==
  {[kind |-> "stack",
    nodes |-> <<[BareNode(c1, "container", n1) EXCEPT !.stack = k1, !.networkId = net1],
                [BareNode(s1, type, n2) EXCEPT !.stackNamespace = k2, !.networkId = net],
                [BareNode(net1, "network", net1) EXCEPT !.stack = k],
                BareNode(net2, "network", net2), BareNode(v1, "volume", v1)>>,
    edges |-> [i \in DOMAIN SetToSeq(es) |-> EdgeOf(SetToSeq(es)[i])]] :
     type \in {"container", "service"},
     n1 \in WorkloadNames, n2 \in WorkloadNames, k1 \in {Undefined, p1, p2}, k2 \in {Undefined, p1, p2},
     net \in {Undefined, net1}, k \in {Undefined, p1},
     es \in {{}, {<<"secondary_network", c1, net2>>, <<"volume_mount", v1, c1>>, <<"depends_on", c1, s1>>}}}

\* A service with a task, a container in any stack or none, and stats of some of them.
Named(id, type, base) == BareNode(id, type, <<base>>)
Hot == [cpu |-> 170, mem |-> 95, limit |-> 100, rx |-> 3, tx |-> 2, errors |-> 1]
Cool == [cpu |-> 90, mem |-> 10, limit |-> 0, rx |-> 4, tx |-> 9, errors |-> 0]
StackService == SwarmName(p1, <<web>>)
SomeEvents ==
  <<[type |-> "container", name |-> <<web>>], [type |-> "container", name |-> <<db>>],
    [type |-> "network", name |-> <<net1>>], [type |-> "image", name |-> <<web>>]>>
StatsOf(keys, hot) == [key \in keys \union {NodeKey(m1)} |-> IF key \in hot THEN Hot ELSE Cool]
DashboardScenes ==
  {[kind |-> "dashboard",
    nodes |-> <<SwarmNode(m1, "manager", "ready"),
                [Named(net1, "network", net1) EXCEPT !.name = SwarmName(p1, <<net1>>), !.stack = p1],
                [Named(s1, "service", web) EXCEPT !.name = StackService, !.stack = p1, !.networkId = net1,
                   !.status = health[1], !.running = health[2],
                   !.tasks = <<Task("11", 1, m1, "running", "running")>>],
                [Named(c1, "container", base) EXCEPT !.stack = stack, !.status = status],
                [Named(c2, "container", web) EXCEPT !.name = ComposeName(p2, <<web>>), !.stack = p2,
                                                    !.status = "running"]>>,
    edges |-> <<>>, stats |-> StatsOf(keys, hot)] :
     health \in {<<"running", 2>>, <<"degraded", 1>>, <<"degraded", Undefined>>}, base \in {web, db},
     stack \in {Undefined, p1, p2}, status \in {"running", "exited"},
     keys \in SUBSET {WorkloadKey(StackService), TaskKey(StackService, "11"), WorkloadKey(<<web>>)},
     hot \in SUBSET {WorkloadKey(StackService), WorkloadKey(<<web>>)}}

\* Two lines over letters that are each other's cases and one that grows, and what is
\* looked for.
TheLowerCase == "i" :> <<"i">> @@ "I" :> <<"i">> @@ "x" :> <<"x">> @@ "dotted I" :> <<"i", "dot">>
TextsUpTo(n) == UNION {[1..k -> DOMAIN TheLowerCase] : k \in 0..n}
FindScenes ==
  {[kind |-> "find", texts |-> <<t, u>>, q |-> q] :
     t \in TextsUpTo(3), u \in TextsUpTo(1), q \in TextsUpTo(2)}

\* What the box looks for: nothing, or what two lines have.
TheSearches == {{}, {2, 4}}

-----------------------------------------------------------------------------
(* The graphs of the panel and the canvas: a swarm's with a container, and *)
(* a daemon's, where one container is not running.                         *)

SomeNetwork == [Named(net1, "network", net1) EXCEPT !.stack = p1]
SwarmGraph ==
  [nodes |-> <<[Named(m1, "swarmnode", m1) EXCEPT !.role = "manager", !.status = "ready",
                                                  !.nodeId = m1, !.leader = TRUE],
               SomeNetwork,
               [Named(s1, "service", web) EXCEPT !.name = SwarmName(p1, <<web>>), !.status = "running",
                  !.stack = p1, !.networkId = net1, !.tasks = <<Task("11", 1, m1, "running", "running")>>],
               [Named(c1, "container", db) EXCEPT !.status = "running", !.stack = p2]>>,
   edges |-> <<EdgeOf(<<"secondary_network", c1, net1>>)>>]
DaemonGraph ==
  [nodes |-> <<SomeNetwork,
               [Named(c1, "container", db) EXCEPT !.status = "not_running", !.stack = p2],
               [Named(c2, "container", web) EXCEPT !.status = "running", !.stack = p1, !.networkId = net1]>>,
   edges |-> <<>>]

TheGraphs == {SwarmGraph, DaemonGraph}
TheTypes ==
  [id \in {c1, c2, s1, net1, m1, roleGroupId("manager")} |->
     CASE id \in {c1, c2} -> "container" [] id = s1 -> "service" [] id = net1 -> "network"
       [] id = m1 -> "swarmnode" [] OTHER -> "rolegroup"]
TheRefs == {[type |-> "container", name |-> <<web>>, id |-> c2],
            [type |-> "service", name |-> SwarmName(p1, <<web>>), id |-> s1]}
TheScopes == {Undefined, p1}
TheQueries == {web}

\* The windows: one place and size, one way there and back, one handle.
TheFrames == {[x |-> 1, y |-> 2, w |-> 3, h |-> 2, vw |-> 5, vh |-> 5]}
TheShifts == {[x |-> 3, y |-> -3], [x |-> -3, y |-> 3]}
TheHandles == {{"n", "w"}}

\* The canvas: edges that lie apart, faded by a selection, moving, and not laid out.
Line(id, x, y) == <<[x |-> x, y |-> y], [x |-> x + 2, y |-> y], [x |-> x + 2, y |-> y + 2]>>
AnEdge(id, x, y) ==
  [id |-> id, type |-> "depends_on", path |-> Line(id, x, y), active |-> TRUE, animated |-> FALSE,
   nodeCount |-> 9, faded |-> FALSE]
TheEdgeSets ==
  {<<AnEdge(c1, 0, 0), [AnEdge(c2, 6, 6) EXCEPT !.active = FALSE]>>,
   <<[AnEdge(c1, 0, 0) EXCEPT !.faded = TRUE], [AnEdge(c2, 6, 6) EXCEPT !.path = Undefined]>>,
   <<[AnEdge(c1, 6, 0) EXCEPT !.animated = TRUE]>>}
TheTransforms ==
  {[tx |-> 0, ty |-> 0, zoom |-> 1], [tx |-> -5, ty |-> -5, zoom |-> 1], [tx |-> -10, ty |-> 1, zoom |-> 2]}
TheViewSizes == {[w |-> 4, h |-> 4], [w |-> 9, h |-> 4]}

-----------------------------------------------------------------------------
Machines == {"canvas", "panel", "views", "layout", "windows", "drags", "polls", "edges", "pane"}

Init ==
  /\ scene \in NetworkScenes \union SwarmScenes \union PathScenes \union StackScenes
              \union DashboardScenes \union FindScenes
              \union [kind : Machines]
  /\ FlowInit /\ selectedStack = Undefined /\ groupBy = "node"
  /\ LayoutInit /\ WindowsInit
  /\ PollInit /\ scope.stack = AllStacks
  /\ EdgesInit /\ transform.tx = 0 /\ viewSize.w = 4
  /\ PaneInit

\* The views are used once a graph has arrived and is drawn.
ViewsNext ==
  \/ whole.nodes = <<>> /\ \E g \in Given : GraphArrives(g)
  \/ whole.nodes # <<>> /\ canvas = <<>> /\ CanvasCatchesUp
  \/ canvas # <<>> /\ ScreenNext

\* One part runs, the others rest.
CanvasScene == scene.kind = "canvas" /\ CanvasNext /\ UNCHANGED <<scene, layoutVars, windowsVars, pollVars, edgeVars, paneVars>>
PanelScene == scene.kind = "panel" /\ PanelNext /\ UNCHANGED <<scene, layoutVars, windowsVars, pollVars, edgeVars, paneVars>>
ViewsScene == scene.kind = "views" /\ ViewsNext /\ UNCHANGED <<scene, layoutVars, windowsVars, pollVars, edgeVars, paneVars>>
LayoutScene == scene.kind = "layout" /\ LayoutNext /\ UNCHANGED <<scene, pageVars, windowsVars, pollVars, edgeVars, paneVars>>
PollsScene == scene.kind = "polls" /\ PollNext /\ UNCHANGED <<scene, pageVars, layoutVars, windowsVars, edgeVars, paneVars>>
EdgesScene == scene.kind = "edges" /\ EdgesNext /\ UNCHANGED <<scene, pageVars, layoutVars, windowsVars, pollVars, paneVars>>
PaneScene == scene.kind = "pane" /\ PaneNext /\ UNCHANGED <<scene, pageVars, layoutVars, windowsVars, pollVars, edgeVars>>

\* Of the windows, either the tabs and what is typed into them, or moves and sizes.
WindowsScene ==
  /\ \/ scene.kind = "windows" /\ WindowsNext /\ gesture'.kind # "resize"
     \/ scene.kind = "drags" /\ WindowsNext /\ UNCHANGED typed
  /\ UNCHANGED <<scene, pageVars, layoutVars, pollVars, edgeVars, paneVars>>

Next ==
  \/ CanvasScene \/ PanelScene \/ ViewsScene \/ LayoutScene
  \/ WindowsScene \/ PollsScene \/ EdgesScene \/ PaneScene

\* Effects run and layouts end.
Layout(action) == scene.kind = "layout" /\ action
PageFairness ==
  /\ WF_layoutVars(Layout(RunEffects))
  /\ WF_layoutVars(Layout(\E l \in layouts : LayoutDone(l) \/ LayoutFails(l)))

Spec == Init /\ [][Next]_<<scene, pageVars, layoutVars, windowsVars, pollVars, edgeVars, paneVars>> /\ PageFairness

-----------------------------------------------------------------------------
\* GraphLayout: the layout of a graph at rest ends.
LayoutEnds == scene.kind = "layout" => LayoutSettles

-----------------------------------------------------------------------------
(* Properties of the graph of a scene.                                     *)

\* stack.ts:191, 250: each scope has its own workloads whole, and a short name used in a
\* stack does not lead to another's.
ScopesSound ==
  scene.kind = "stack" =>
    /\ ProperGraph(scene.nodes, scene.edges)
    /\ ScopesSplit(scene.nodes, scene.edges)
    /\ RefsStayHome(scene.nodes, {p1, p2}, {<<db>>, <<db, Dash, web>>})

\* NetworkView: what graphTransform.ts and the ELK adapters draw, and the edge paths;
\* NodeView: what nodeTransform.ts and nodeLayout.ts draw of a swarm.
GraphDrawn ==
  /\ scene.kind = "network" => NetworkViewSound(scene.nodes, scene.edges)
  /\ scene.kind = "path" => SmoothingSound(scene.points) /\ (Len(scene.points) <= 4 => PathsDrawnAlike(scene.points))
  /\ scene.kind = "swarm" =>
       LET nodes == toNodeGroupedFlowNodes(scene.nodes, scene.local)
       IN NodeViewSound(scene.nodes, scene.edges, nodes) /\ BoxesApart(nodes)

\* Dashboard: what the cards list, of the page and of every scope.
DashboardAgrees ==
  scene.kind = "dashboard" =>
    ScopesAddUp(scene.nodes, scene.edges, scene.stats, ComposeProjectsCard(scene.nodes))
    /\ RowsOpenTheirOwn(scene.nodes, scene.stats, SomeEvents,
                         toNodeGroupedFlowNodes(scene.nodes, m1))

\* LogPane: what the search of a log marks.
MarksSound == scene.kind = "find" => SegmentsSound(scene.texts, scene.q)

\* Highlight: selectionGraph.ts on the elements of both groupings, and for a selection that
\* outlived the grouping or the graph it was made in.
LitSound ==
  /\ scene.kind = "network" =>
       LET nodes == toReactFlowNodes(scene.nodes, scene.edges)
           edges == toReactFlowEdges(scene.edges, scene.nodes)
           NoLinks(selected) == <<>>
       IN HighlightClosed(nodes, edges, NoLinks,
                          [type : {"node"}, id : Ids(nodes) \union {gone}]
                          \union [type : {"edge"}, id : Ids(edges)])
  /\ scene.kind = "swarm" =>
       LET nodes == toNodeGroupedFlowNodes(scene.nodes, scene.local)
           Links(selected) == linkEdgesFor(scene.nodes, scene.edges, nodes, selected)
       IN HighlightClosed(nodes, <<>>, Links, [type : {"node"}, id : Ids(nodes) \union {gone}])
  /\ scene.kind = "canvas" /\ selection # Undefined =>
       LET Links(selected) == IF effectiveGroupBy = "node"
                              THEN linkEdgesFor(scoped.nodes, scoped.edges, canvas, selected) ELSE <<>>
       IN HighlightClosed(canvas, wires, Links, {selection})
=============================================================================
