----------------------------- MODULE FlowCanvas -----------------------------
(***************************************************************************)
(* The page around the graph: components/FlowCanvas.tsx with its views,    *)
(* the scope and the grouping kept in the URL, the search and the tables.  *)
(*                                                                         *)
(* What an event handler sets is set at once; what an effect or a timer    *)
(* sets comes as a step of its own, after any other event.                 *)
(***************************************************************************)
EXTENDS DetailPanel

CONSTANTS
  Given,          \* graphs the server can send: [nodes, edges]
  Scopes,         \* stacks the page can be scoped to, Undefined among them
  Queries,        \* what is typed
  NoQuery,        \* and nothing
  STATUS_OPTIONS, TYPE_OPTIONS, \* the chips of the search bar
  WorkloadStatuses,             \* those the dashboard lists
  NotMounted,
  SwarmMode,      \* the daemon is a swarm's
  LocalNode       \* its node, or Undefined

VARIABLES
  groupBy,
  activeView,
  tableTab,
  debounced,      \* what is searched for
  typing,         \* what the timer will set it to, Undefined when it is not set
  statuses, types,
  followed,       \* what the table's effect ran for last, NotMounted without a table
  counted         \* history: what the last drill-down was about, Undefined since

screenVars == <<groupBy, activeView, tableTab, debounced, typing, statuses, types, followed, counted>>
searchVars == <<debounced, typing, statuses, types>>
pageVars == <<whole, selectedStack, canvasVars, panelVars, fetchVars, screenVars>>

Views == {"graph", "table", "dashboard", "logs"}
Tabs == {"containers", "services", "networks", "volumes"}
tabForSelection == [container |-> "containers", service |-> "services",
                    network |-> "networks", volume |-> "volumes"]

FlowInit ==
  /\ whole = [nodes |-> <<>>, edges |-> <<>>] /\ canvas = <<>> /\ wires = <<>>
  /\ selectedStack \in Scopes /\ groupBy \in {"network", "node"}
  /\ PanelInit
  /\ activeView = "graph" /\ tableTab = "containers"
  /\ debounced = NoQuery /\ typing = Undefined
  /\ statuses = {} /\ types = {}
  /\ followed = NotMounted /\ counted = Undefined

-----------------------------------------------------------------------------
(* The canvas.                                                             *)

hasSwarmNodes == \E n \in ToSet(scoped.nodes) : n.type = "swarmnode"

\* A grouping kept in the URL of a page whose graph has no swarm nodes does not count.
effectiveGroupBy == IF hasSwarmNodes THEN groupBy ELSE "network"

ElementsOf(graph, grouping) ==
  IF grouping = "node" THEN toNodeGroupedFlowNodes(graph.nodes, LocalNode)
  ELSE toReactFlowNodes(graph.nodes, graph.edges)

\* A layout ends: GraphLayout says which.
CanvasCatchesUp ==
  /\ canvas' = ElementsOf(scoped, effectiveGroupBy)
  /\ wires' = IF effectiveGroupBy = "node" THEN <<>> ELSE toReactFlowEdges(scoped.edges, scoped.nodes)
  /\ UNCHANGED <<whole, selectedStack, panelVars, fetchVars, screenVars>>

Toggled(type, id) ==
  IF selection = [type |-> type, id |-> id] THEN Undefined ELSE [type |-> type, id |-> id]

\* A click, on an edge where one passes over the node.
Click(type, id) ==
  /\ activeView = "graph"
  /\ HasId(IF type = "node" THEN canvas ELSE wires, id)
  /\ selection' = Toggled(type, id)
  /\ counted' = Undefined
  /\ UNCHANGED <<whole, selectedStack, canvasVars, detailNodeId, fetchVars,
                 groupBy, activeView, tableTab, searchVars, followed>>

onPaneClick ==
  /\ activeView = "graph"
  /\ selection' = Undefined
  /\ counted' = Undefined
  /\ UNCHANGED <<whole, selectedStack, canvasVars, detailNodeId, fetchVars,
                 groupBy, activeView, tableTab, searchVars, followed>>

-----------------------------------------------------------------------------
(* Search.                                                                 *)

hasActiveFilter == debounced # NoQuery \/ statuses # {} \/ types # {}

\* The text is in the name, or the stack, of the node.
Mentions(n, text) == text \in ToSet(n.name) \union ToSet(Spelling[n.stack])

matchingNodeIds ==
  {n.id : n \in {m \in ToSet(scoped.nodes) :
     /\ types # {} => m.type \in types
     /\ statuses # {} => m.status \in statuses
     /\ debounced # NoQuery => Mentions(m, debounced)}}

setQuery(text) ==
  /\ typing' = text
  /\ counted' = Undefined
  /\ UNCHANGED <<whole, selectedStack, canvasVars, panelVars, fetchVars, groupBy, activeView, tableTab,
                 debounced, statuses, types, followed>>

Debounced ==
  /\ typing # Undefined
  /\ debounced' = typing /\ typing' = Undefined
  /\ UNCHANGED <<whole, selectedStack, canvasVars, panelVars, fetchVars, groupBy, activeView, tableTab,
                 statuses, types, followed, counted>>

Flip01(set, x) == IF x \in set THEN set \ {x} ELSE set \union {x}

toggleChip(chip) ==
  /\ statuses' = IF chip \in STATUS_OPTIONS THEN Flip01(statuses, chip) ELSE statuses
  /\ types' = IF chip \in TYPE_OPTIONS THEN Flip01(types, chip) ELSE types
  /\ counted' = Undefined
  /\ UNCHANGED <<whole, selectedStack, canvasVars, panelVars, fetchVars, groupBy, activeView, tableTab,
                 debounced, typing, followed>>

\* The timer of what was typed is left running.
clearAll(chips) ==
  /\ debounced' = NoQuery
  /\ statuses' = chips /\ types' = {}
  /\ UNCHANGED typing

ClearSearch ==
  /\ hasActiveFilter
  /\ clearAll({})
  /\ counted' = Undefined
  /\ UNCHANGED <<whole, selectedStack, canvasVars, panelVars, fetchVars, groupBy, activeView, tableTab, followed>>

-----------------------------------------------------------------------------
(* Tables.                                                                 *)

TabType == [containers |-> "container", services |-> "service",
            networks |-> "network", volumes |-> "volume"]

\* The nodes of a tab that the search leaves.
filtered(tab) ==
  LET found == matchingNodeIds
  IN SelectSeq(scoped.nodes, LAMBDA n :
       n.type = TabType[tab] /\ (hasActiveFilter => n.id \in found))

nodeGroupKey(n, by) ==
  CASE by = "network" -> n.networkId
    [] by = "compose" -> projectOf(n)
    [] by = "status" -> n.status
    [] by = "none" -> "_all"

\* The groups of a table in the order of their first rows.
groupNodes(nodes, by) ==
  LET keys == {nodeGroupKey(n, by) : n \in ToSet(nodes)}
      first(key) == Min({i \in DOMAIN nodes : nodeGroupKey(nodes[i], by) = key})
  IN SortSeq(SetToSeq({[key |-> key, items |-> SelectSeq(nodes, LAMBDA n : nodeGroupKey(n, by) = key)] :
                         key \in keys}),
             LAMBDA g, h : first(g.key) < first(h.key))

\* The links of a network: the containers it is the first network of, and any other use.
NetworkLinks(id) ==
  Cardinality({i \in DOMAIN scoped.nodes : scoped.nodes[i].type = "container" /\ scoped.nodes[i].networkId = id})
  + Cardinality({i \in DOMAIN scoped.edges : scoped.edges[i].type = "secondary_network" /\ scoped.edges[i].target = id})

VolumeLinks(id) ==
  Cardinality({i \in DOMAIN scoped.edges : scoped.edges[i].type = "volume_mount" /\ scoped.edges[i].source = id})

SortKey(n, column) ==
  IF column = "name" THEN Place(Last(n.name))
  ELSE IF n.type = "network" THEN NetworkLinks(n.id)
  ELSE VolumeLinks(n.id)

sortItems(items, column, direction) ==
  SortSeq(items, LAMBDA a, b : IF direction = "asc" THEN SortKey(a, column) < SortKey(b, column)
                               ELSE SortKey(a, column) > SortKey(b, column))

GroupedTable(tab, by, column, direction) ==
  LET groups == groupNodes(filtered(tab), by)
  IN FlattenSeq([i \in DOMAIN groups |-> sortItems(groups[i].items, column, direction)])

\* The table's effect, when it appears and when another resource is opened.
FollowDue == activeView = "table" /\ followed # detailNodeId

FollowSelection ==
  /\ FollowDue
  /\ followed' = detailNodeId
  /\ tableTab' = IF detailNodeId # Undefined /\ TypeOfId[detailNodeId] \in DOMAIN tabForSelection
                 THEN tabForSelection[TypeOfId[detailNodeId]] ELSE tableTab
  /\ UNCHANGED <<whole, selectedStack, canvasVars, panelVars, fetchVars, groupBy, activeView, searchVars, counted>>

setTableTab(tab) ==
  /\ activeView = "table"
  /\ tableTab' = tab
  /\ counted' = Undefined
  /\ UNCHANGED <<whole, selectedStack, canvasVars, panelVars, fetchVars, groupBy, activeView, searchVars, followed>>

-----------------------------------------------------------------------------
(* Views and scopes.                                                       *)

Shows(view) == /\ activeView' = view
               /\ followed' = IF view = activeView THEN followed ELSE NotMounted

setActiveView(view) ==
  /\ Shows(view)
  /\ counted' = Undefined
  /\ UNCHANGED <<whole, selectedStack, canvasVars, panelVars, fetchVars, groupBy, tableTab, searchVars>>

setGroupBy(mode) ==
  /\ activeView = "graph" /\ hasSwarmNodes
  /\ groupBy' = mode
  /\ counted' = Undefined
  /\ UNCHANGED <<whole, selectedStack, canvasVars, panelVars, fetchVars, activeView, tableTab, searchVars, followed>>

\* The stacks the selector lists, the one selected though it has no workload.
StackOptions == {Undefined, selectedStack} \union {summary.name : summary \in listStacks(whole.nodes)}

\* Another scope closes the panel, from the selector or from the dashboard's card.
changeStack(stack, view) ==
  /\ stack \in StackOptions
  /\ Shows(view)
  /\ IF stack = selectedStack THEN UNCHANGED <<selectedStack, panelVars>>
     ELSE /\ selectedStack' = stack
          /\ closeDetail
          /\ UNCHANGED selection
  /\ counted' = Undefined
  /\ UNCHANGED <<whole, canvasVars, fetchVars, groupBy, tableTab, searchVars>>

\* What a click on the dashboard is about: the rows it counted, the tab they are in, and
\* whether a text typed before is still to be searched for.
Drill(tab, ids) == [tab |-> tab, ids |-> ids, typing |-> typing # Undefined]

\* Mutant: the panel stays open.
handleDrillOpen(tab, chips, ids) ==
  /\ activeView = "dashboard"
  /\ clearAll(chips)
  /\ tableTab' = tab
  /\ Shows("table")
  /\ counted' = Drill(tab, ids)
  /\ UNCHANGED <<whole, selectedStack, canvasVars, selection, detailNodeId, fetchVars, groupBy>>

\* handleStatusFilter and handleResourceTab: to the table, its tab and at most one status.
handleDrill(tab, chips, ids) ==
  /\ activeView = "dashboard"
  /\ closeDetail
  /\ clearAll(chips)
  /\ tableTab' = tab
  /\ Shows("table")
  /\ counted' = Drill(tab, ids)
  /\ UNCHANGED <<whole, selectedStack, canvasVars, selection, fetchVars, groupBy>>

\* The status card: services in a swarm, containers otherwise, and the other resources.
workloadTab == IF showsSwarmWorkloads(scoped.nodes, SwarmMode, selectedStack) THEN "services" ELSE "containers"

OfTab(tab) == {n \in ToSet(scoped.nodes) : n.type = TabType[tab]}
WithStatus(tab, status) ==
  {n.id : n \in {m \in OfTab(tab) :
     (IF m.status = Undefined THEN "not_running" ELSE m.status) = status}}

ClickStatus(status) == handleDrill(workloadTab, {status}, WithStatus(workloadTab, status))

ClickTotal(tab) ==
  /\ tab # "services"
  /\ tab = "containers" => workloadTab = "services" /\ OfTab(tab) # {}
  /\ handleDrill(tab, {}, {n.id : n \in OfTab(tab)})

\* The page is loaded again: the URL keeps the scope and the grouping.
Reload ==
  /\ whole' = [nodes |-> <<>>, edges |-> <<>>] /\ canvas' = <<>> /\ wires' = <<>>
  /\ selection' = Undefined /\ detailNodeId' = Undefined
  /\ asked' = [kind \in Inspected |-> Undefined]
  /\ fetched' = [kind \in Inspected |-> EMPTY]
  /\ requests' = {}
  /\ activeView' = "graph" /\ tableTab' = "containers"
  /\ debounced' = NoQuery /\ typing' = Undefined
  /\ statuses' = {} /\ types' = {}
  /\ followed' = NotMounted /\ counted' = Undefined
  /\ UNCHANGED <<selectedStack, groupBy>>

GraphArrives(g) ==
  /\ whole' = g
  /\ counted' = Undefined
  /\ UNCHANGED <<selectedStack, canvasVars, panelVars, fetchVars, groupBy, activeView, tableTab, searchVars, followed>>

-----------------------------------------------------------------------------
(* Ways to open the panel and to close it.                                 *)

RefTo(id) == CHOOSE ref \in Refs : ref.id = id

\* The ☰ of an element; a card's is its service's, centred on the card.
InfoClicked(n) ==
  /\ activeView = "graph" /\ n \in ToSet(canvas)
  /\ IF n.type = "nodeServiceCard"
     THEN handleInfoClick(resolveNodeRef(scoped.nodes, RefTo(n.service), Undefined), n.id)
     ELSE n.id \in DOMAIN TypeOfId /\ handleInfoClick(n.id, n.id)

\* A row of the table, a card of the dashboard or a log window, a link in the panel.
RowClicked(n) == activeView = "table" /\ n \in ToSet(filtered(tableTab)) /\ handleInfoClick(n.id, n.id)
handleInspectRef(ref) ==
  LET id == resolveNodeRef(scoped.nodes, ref, Undefined)
  IN activeView \in {"dashboard", "logs"} /\ handleInfoClick(id, id)
LinkClicked(ref) == variant # "none" /\ ~loading /\ ~error /\ handleNavigate(ref)

Opens ==
  /\ \/ \E n \in ToSet(canvas) : InfoClicked(n)
     \/ \E n \in ToSet(scoped.nodes) : RowClicked(n)
     \/ \E ref \in Refs : handleInspectRef(ref) \/ LinkClicked(ref)
  /\ counted' = Undefined
  /\ UNCHANGED <<whole, selectedStack, canvasVars, fetchVars, groupBy, activeView, tableTab, searchVars, followed>>

\* The panel's ✕, which leaves the selection.
CloseClicked ==
  /\ detailNodeId # Undefined
  /\ closeDetail
  /\ counted' = Undefined
  /\ UNCHANGED <<whole, selectedStack, canvasVars, selection, fetchVars, groupBy, activeView, tableTab, searchVars, followed>>

\* Panel and selection both listen to Escape; in the search box it clears the search too.
Escape(inSearch) ==
  /\ closeDetail
  /\ selection' = Undefined
  /\ IF inSearch THEN clearAll({}) ELSE UNCHANGED searchVars
  /\ counted' = Undefined
  /\ UNCHANGED <<whole, selectedStack, canvasVars, fetchVars, groupBy, activeView, tableTab, followed>>

Fetching == /\ RunFetches \/ \E r \in requests, ok \in BOOLEAN : Answer(r, ok)
            /\ UNCHANGED <<whole, selectedStack, canvasVars, panelVars, screenVars>>

-----------------------------------------------------------------------------
\* Steps of the canvas, of the panel, and of the views and the search.
CanvasNext ==
  \/ \E g \in Given : GraphArrives(g)
  \/ CanvasCatchesUp
  \/ \E n \in ToSet(canvas) : Click("node", n.id)
  \/ \E e \in ToSet(wires) : Click("edge", e.id)
  \/ onPaneClick
  \/ \E mode \in {"network", "node"} : setGroupBy(mode)

PanelNext ==
  \/ \E g \in Given : GraphArrives(g)
  \/ CanvasCatchesUp
  \/ Opens
  \/ CloseClicked
  \/ Fetching
  \/ Reload

ScreenNext ==
  \/ \E view \in Views : setActiveView(view)
  \/ \E stack \in Scopes :
       \/ changeStack(stack, activeView)
       \/ activeView = "dashboard" /\ stack # Undefined /\ changeStack(stack, "graph")
  \/ \E text \in Queries : setQuery(text)
  \/ Debounced
  \/ \E chip \in STATUS_OPTIONS \union TYPE_OPTIONS : toggleChip(chip)
  \/ ClearSearch
  \/ FollowSelection
  \/ \E tab \in Tabs : setTableTab(tab) \/ ClickTotal(tab)
  \/ \E status \in WorkloadStatuses : ClickStatus(status)
  \/ Opens
  \/ \E inSearch \in BOOLEAN : Escape(inSearch)

FlowNext == CanvasNext \/ PanelNext \/ ScreenNext
FlowSpec == FlowInit /\ [][FlowNext]_pageVars

-----------------------------------------------------------------------------
(* Properties.                                                             *)

\* The rows shown are the rows counted, however the table is grouped and sorted.
RowsShown(tab, ids) ==
  \A by \in {"network", "compose", "status", "none"}, direction \in {"asc", "desc"} :
    LET rows == GroupedTable(tab, by, "name", direction)
    IN Len(rows) = Cardinality(ids) /\ Ids(rows) = ids

\* "Each clears any stale selection and filter first so the destination is predictable"
\* (FlowCanvas.tsx:340-341): what a click on the dashboard counted is what the table shows once
\* its effects have run, unless a text typed before the click was still to be searched for.
DrillDownShowsCounted ==
  counted # Undefined /\ ~FollowDue /\ ~counted.typing =>
    activeView = "table" /\ tableTab = counted.tab /\ RowsShown(tableTab, counted.ids)
=============================================================================
