------------------------------ MODULE NodeView ------------------------------
(***************************************************************************)
(* The graph by swarm node: utils/nodeTransform.ts nests a card for every  *)
(* service a node runs in the node's box, and the boxes in the Managers    *)
(* and Workers groups; layout/nodeLayout.ts places them on a grid;         *)
(* utils/swarmLinks.ts draws the links; utils/roleSummary.ts sums up a     *)
(* group for its panel; NodeServiceCard and SwarmNodeGroup show them.      *)
(*                                                                         *)
(* An element is [id, type, parent] and what it carries; ids are tuples.   *)
(* A task is [id, slot, nodeId, nodeHostname, state, desiredState].        *)
(***************************************************************************)
EXTENDS NetworkView

CONSTANTS
  NameOrder,            \* the names in the order localeCompare gives them
  MAX_WORKERS_PER_ROW,
  MAX_OVERLAY_LINKS

Place(name) == IF \E i \in DOMAIN NameOrder : NameOrder[i] = name
               THEN CHOOSE i \in DOMAIN NameOrder : NameOrder[i] = name
               ELSE Len(NameOrder) + 1          \* what is unset comes last

\* A sequence of numbers, in lexicographic order.
Lower(s, t) == \E i \in DOMAIN s : s[i] < t[i] /\ \A j \in 1..(i - 1) : s[j] = t[j]

\* Sorted by a sequence of numbers that no two elements share.
SortedBy(seq, key(_)) == SortSeq(seq, LAMBDA a, b : Lower(key(a), key(b)))

Element(id, type, parent) ==
  [id |-> id, type |-> type, parent |-> parent, service |-> Undefined, tasks |-> <<>>,
   count |-> 0, inactive |-> FALSE, shows |-> Undefined]

UNASSIGNED_NODE_GROUP_ID == <<"nodegroup", "unassigned">>
CONTROL_SUMMARY_ID == <<"controlsummary">>
roleGroupId(role) == <<"rolegroup", role>>
nodeServiceCardId(host, serviceName) == <<"nodesvc", host, serviceName>>

swarmRole(node) == IF node.role = "manager" THEN "manager" ELSE "worker"

\* The leader, the other managers, the workers; by hostname within each.
listSwarmNodes(dgNodes) ==
  SortedBy(OfType(dgNodes, "swarmnode"),
    LAMBDA n : <<IF n.leader THEN 0 ELSE IF n.role = "manager" THEN 1 ELSE 2, Place(n.name)>>)

\* Current work on its node.
isActiveTask(task) ==
  task.desiredState \notin {"shutdown", "remove"} /\ task.state # "complete"

\* The element that holds a task: the box of the node of its hostname or its id.
BoxOf(dgNodes, task) ==
  LET boxes == OfType(dgNodes, "swarmnode")
      named == SelectSeq(boxes, LAMBDA n : n.name = task.nodeHostname)
      known == SelectSeq(boxes, LAMBDA n : task.nodeId # Undefined /\ n.nodeId = task.nodeId)
  IN IF named # <<>> THEN Last(named).id
     ELSE IF known # <<>> THEN Last(known).id
     ELSE UNASSIGNED_NODE_GROUP_ID

PlacedTask(service, task) == [service |-> service, task |-> task]

\* Mutant: the tasks of a box are sorted by slot before their service.
comparePlacedBySlot(p) ==
  <<Place(projectOf(p.service)), IF p.task.slot = Undefined THEN 0 ELSE p.task.slot,
    Place(p.service.name), Place(p.task.nodeId), Place(p.task.id)>>

\* By stack, service, slot, node, id.
comparePlacedTasks(p) ==
  <<Place(projectOf(p.service)), Place(p.service.name),
    IF p.task.slot = Undefined THEN 0 ELSE p.task.slot, Place(p.task.nodeId), Place(p.task.id)>>

\* The active tasks of a box, in order.
placeTasks(dgNodes, box) ==
  LET services == OfType(dgNodes, "service")
      mine(s) == SelectSeq(s.tasks, LAMBDA t : isActiveTask(t) /\ BoxOf(dgNodes, t) = box)
      placed == FlattenSeq([i \in DOMAIN services |->
                  [k \in DOMAIN mine(services[i]) |->
                     PlacedTask(services[i], mine(services[i])[k])]])
  IN SortedBy(placed, comparePlacedTasks)

\* Consecutive runs of one service.
groupByService(placed) ==
  LET starts == SetToSortSeq({i \in DOMAIN placed :
                  i = 1 \/ placed[i - 1].service.id # placed[i].service.id}, <)
      upto(k) == IF k = Len(starts) THEN Len(placed) ELSE starts[k + 1] - 1
  IN [k \in DOMAIN starts |->
        [service |-> placed[starts[k]].service,
         tasks |-> [i \in 1..(upto(k) - starts[k] + 1) |-> placed[starts[k] + i - 1].task]]]

\* Whether a task has a slot is the mode's to say.
taskSlot(task, mode) ==
  IF mode = Undefined THEN task.slot
  ELSE IF mode \in {"global", "global-job"} THEN Undefined
  ELSE IF task.slot = Undefined THEN 0 ELSE task.slot

isSwarmNodeInactive(node) ==
  (node.status # Undefined /\ node.status # "ready") \/ node.availability \in {"drain", "pause"}

localGroupId(dgNodes, localNodeId) ==
  LET local == SelectSeq(OfType(dgNodes, "swarmnode"),
                 LAMBDA n : localNodeId # Undefined /\ n.nodeId = localNodeId)
  IN IF local = <<>> THEN Undefined ELSE Head(local).id

\* Standalone containers; those only a Compose file knows are left out.
Standing(dgNodes) ==
  SelectSeq(OfType(dgNodes, "container"), LAMBDA n : n.status # "not_running")

-----------------------------------------------------------------------------
(* The view.                                                               *)

\* A box and its cards, services first.
BoxContent(dgNodes, localNodeId, id) ==
  [tasks |-> placeTasks(dgNodes, id),
   local |-> IF id = localGroupId(dgNodes, localNodeId) THEN Standing(dgNodes) ELSE <<>>]

Box(dgNodes, localNodeId, id, parent) ==
  LET content == BoxContent(dgNodes, localNodeId, id)
  IN [Element(id, "nodeGroup", parent) EXCEPT !.count = Len(content.tasks) + Len(content.local)]

Cards(dgNodes, localNodeId, id) ==
  LET content == BoxContent(dgNodes, localNodeId, id)
      runs == groupByService(content.tasks)
      host == IF HasId(dgNodes, id) THEN ById(dgNodes, id).name ELSE Undefined
      inactive == HasId(dgNodes, id) /\ isSwarmNodeInactive(ById(dgNodes, id))
  IN [k \in DOMAIN runs |->
        [Element(nodeServiceCardId(host, runs[k].service.name), "nodeServiceCard", id)
           EXCEPT !.service = runs[k].service.id, !.tasks = runs[k].tasks, !.inactive = inactive]]
     \o [k \in DOMAIN content.local |-> Element(content.local[k].id, "containerNode", id)]

Members(dgNodes, role) == SelectSeq(listSwarmNodes(dgNodes), LAMBDA n : swarmRole(n) = role)

RoleGroup(dgNodes, localNodeId, role) ==
  LET members == Members(dgNodes, role)
  IN IF members = <<>> THEN <<>>
     ELSE <<[Element(roleGroupId(role), "roleGroup", Undefined) EXCEPT
               !.count = SumFunction([i \in DOMAIN members |->
                           Box(dgNodes, localNodeId, members[i].id, Undefined).count])]>>

\* The badge between the groups, with the workers that are ready.
Summary(dgNodes) ==
  LET workers == Members(dgNodes, "worker")
  IN IF workers = <<>> \/ Members(dgNodes, "manager") = <<>> THEN <<>>
     ELSE <<[Element(CONTROL_SUMMARY_ID, "controlSummary", Undefined) EXCEPT
               !.shows = <<Cardinality({i \in DOMAIN workers : workers[i].status = "ready"}),
                           Len(workers)>>]>>

toNodeGroupedFlowNodes(dgNodes, localNodeId) ==
  LET nodes == Members(dgNodes, "manager") \o Members(dgNodes, "worker")
      unassigned == IF placeTasks(dgNodes, UNASSIGNED_NODE_GROUP_ID) = <<>> THEN <<>>
                    ELSE <<UNASSIGNED_NODE_GROUP_ID>>
      boxIds == [i \in DOMAIN nodes |-> nodes[i].id] \o unassigned
      ParentOf(id) == IF HasId(dgNodes, id) THEN roleGroupId(swarmRole(ById(dgNodes, id)))
                      ELSE Undefined
      free == IF localGroupId(dgNodes, localNodeId) # Undefined THEN <<>> ELSE Standing(dgNodes)
  IN RoleGroup(dgNodes, localNodeId, "manager") \o RoleGroup(dgNodes, localNodeId, "worker")
     \o Summary(dgNodes)
     \o [i \in DOMAIN boxIds |-> Box(dgNodes, localNodeId, boxIds[i], ParentOf(boxIds[i]))]
     \o FlattenSeq([i \in DOMAIN boxIds |-> Cards(dgNodes, localNodeId, boxIds[i])])
     \o [i \in DOMAIN free |-> Element(free[i].id, "containerNode", Undefined)]

\* The task counts of the boxes, for the panel of a group.
boxTaskCounts(dgNodes, localNodeId) ==
  LET boxes == {n \in ToSet(toNodeGroupedFlowNodes(dgNodes, localNodeId)) : n.type = "nodeGroup"}
  IN [id \in {n.id : n \in boxes} |-> (CHOOSE n \in boxes : n.id = id).count]

\* What shows a graph node: itself, or the cards of a service, those in a box first.
canvasNodesShowing(nodes, id, within) ==
  LET cards == {n \in ToSet(nodes) : n.type = "nodeServiceCard" /\ n.service = id}
      inside == {n \in cards : n.parent = within}
  IN IF HasId(nodes, id) THEN {id}
     ELSE {n.id : n \in IF inside # {} THEN inside ELSE cards}

\* Changes when a box or a card comes, goes or moves, or a card grows.
nodeGroupedTopologyKey(dgNodes, localNodeId) ==
  {<<n.id, n.parent, Len(n.tasks)>> : n \in ToSet(toNodeGroupedFlowNodes(dgNodes, localNodeId))}

-----------------------------------------------------------------------------
(* The links.                                                              *)

\* From the Managers group to the box of every worker.
controlLinkEdges(dgNodes) ==
  LET workers == Members(dgNodes, "worker")
  IN IF Members(dgNodes, "manager") = <<>> THEN <<>>
     ELSE [i \in DOMAIN workers |->
             [id |-> <<"control", workers[i].id>>, source |-> roleGroupId("manager"),
              target |-> workers[i].id, healthy |-> workers[i].status = "ready"]]

\* The networks a service is attached to, by name.
serviceNetworks(dgNodes, dgEdges, id) ==
  LET ids == {ById(dgNodes, id).networkId}
             \union {e.target : e \in {x \in ToSet(dgEdges) :
                                         x.type = "secondary_network" /\ x.source = id}}
  IN {n.name : n \in {x \in ToSet(OfType(dgNodes, "network")) : x.id \in ids}}

cardHost(card) == card.id[2]

\* Cards traffic between which leaves the host.
Apart(from, to) == from.id # to.id /\ cardHost(from) # cardHost(to)

\* From each card of the selected service to each card of a service with a network in
\* common, once a pair, as many as are readable.
overlayLinkEdges(dgNodes, dgEdges, nodes, service) ==
  LET own == serviceNetworks(dgNodes, dgEdges, service)
      cards == SelectSeq(nodes, LAMBDA n : n.type = "nodeServiceCard")
      selected == SelectSeq(cards, LAMBDA n : n.service = service)
      shared(card) == own \intersect serviceNetworks(dgNodes, dgEdges, card.service)
      pairs == {p \in (DOMAIN selected) \X (DOMAIN cards) :
                  Apart(selected[p[1]], cards[p[2]]) /\ shared(cards[p[2]]) # {}}
      \* Of a pair met from both sides, the first counts.
      Again(p) == \E q \in pairs : /\ q[1] < p[1]
                                   /\ selected[q[1]].id = cards[p[2]].id
                                   /\ cards[q[2]].id = selected[p[1]].id
      links == SetToSortSeq({p \in pairs : ~Again(p)}, LAMBDA p, q : Lower(p, q))
      all == [k \in DOMAIN links |->
        [id |-> <<"overlay", {selected[links[k][1]].id, cards[links[k][2]].id}>>,
         source |-> selected[links[k][1]].id, target |-> cards[links[k][2]].id,
         networks |-> shared(cards[links[k][2]])]]
  IN SubSeq(all, 1, Min({Len(all), MAX_OVERLAY_LINKS}))

-----------------------------------------------------------------------------
(* The grid.                                                               *)

CONTAINER_NODE_HEIGHT == 84
NODE_BOX_HEADER_HEIGHT == 66
NODE_BOX_MIN_HEIGHT == 108
NODE_BOX_WIDTH == 300
NODE_BOX_PADDING == 12
CARD_GAP == 8
BOX_GAP_X == 20
BOX_GAP_Y == 20
ROLE_GROUP_PADDING_TOP == 40
ROLE_GROUP_PADDING_X == 18
ROLE_GROUP_PADDING_BOTTOM == 18
SECTION_GAP == 40
FREE_GAP == 20
FREE_NODE_WIDTH == 220
CARD_WIDTH == NODE_BOX_WIDTH - 2 * NODE_BOX_PADDING

serviceCardHeight(rows) == 28 + 20 * rows + 6

itemHeight(n) ==
  IF n.type = "nodeServiceCard" THEN serviceCardHeight(Len(n.tasks)) ELSE CONTAINER_NODE_HEIGHT

childrenOf(nodes, id) == SelectSeq(nodes, LAMBDA n : n.parent = id)

Total(s) == SumFunction(s)
Highest(s) == IF s = <<>> THEN 0 ELSE Max({s[i] : i \in DOMAIN s})

\* Mutant: the padding below the cards is forgotten.
boxHeightTight(nodes, box) ==
  LET items == childrenOf(nodes, box.id)
      content == Total([i \in DOMAIN items |-> itemHeight(items[i])]) + CARD_GAP * (Len(items) - 1)
  IN IF items = <<>> THEN NODE_BOX_MIN_HEIGHT
     ELSE Max({NODE_BOX_MIN_HEIGHT, content + NODE_BOX_PADDING})

boxHeight(nodes, box) ==
  LET items == childrenOf(nodes, box.id)
      content == Total([i \in DOMAIN items |-> itemHeight(items[i])]) + CARD_GAP * (Len(items) - 1)
  IN IF items = <<>> THEN NODE_BOX_MIN_HEIGHT
     ELSE Max({NODE_BOX_MIN_HEIGHT, NODE_BOX_HEADER_HEIGHT + content + NODE_BOX_PADDING})

\* Rows of boxes, each row as high as its highest box.
RowOf(i, perRow) == (i - 1) \div perRow
rowHeight(nodes, boxes, perRow, row) ==
  Max({boxHeight(nodes, boxes[i]) : i \in {k \in DOMAIN boxes : RowOf(k, perRow) = row}})
GridHeight(nodes, boxes, perRow, rows) ==
  Total([r \in 1..rows |-> rowHeight(nodes, boxes, perRow, r - 1) + BOX_GAP_Y])

placeGrid(nodes, boxes, perRow) ==
  LET columns == Min({perRow, Len(boxes)})
  IN IF boxes = <<>> THEN [w |-> 0, h |-> 0]
     ELSE [w |-> columns * NODE_BOX_WIDTH + (columns - 1) * BOX_GAP_X,
           h |-> GridHeight(nodes, boxes, perRow, RowOf(Len(boxes), perRow) + 1) - BOX_GAP_Y]

InGrid(nodes, boxes, perRow, i, x0, y0) ==
  [x |-> x0 + ((i - 1) % perRow) * (NODE_BOX_WIDTH + BOX_GAP_X),
   y |-> y0 + GridHeight(nodes, boxes, perRow, RowOf(i, perRow)),
   w |-> NODE_BOX_WIDTH,
   h |-> rowHeight(nodes, boxes, perRow, RowOf(i, perRow))]

\* Managers stay on one row.
PerRow(group, boxes) ==
  IF group.id = roleGroupId("manager") THEN Max({1, Len(boxes)}) ELSE MAX_WORKERS_PER_ROW

GroupSize(nodes, group) ==
  LET boxes == childrenOf(nodes, group.id)
      grid == placeGrid(nodes, boxes, PerRow(group, boxes))
  IN [w |-> grid.w + 2 * ROLE_GROUP_PADDING_X,
      h |-> ROLE_GROUP_PADDING_TOP + grid.h + ROLE_GROUP_PADDING_BOTTOM]

IndexOfId(seq, id) == CHOOSE i \in DOMAIN seq : seq[i].id = id

\* Where an element is, relative to its parent: the groups above each other, each
\* centred; Unassigned and what stands free below them.
layoutNodeGroups(nodes, n) ==
  LET groups == SelectSeq(nodes, LAMBDA m : m.type = "roleGroup")
      sizes == [i \in DOMAIN groups |-> GroupSize(nodes, groups[i])]
      widest == Highest([i \in DOMAIN groups |-> sizes[i].w])
      top(i) == Total([k \in 1..(i - 1) |-> sizes[k].h + SECTION_GAP])
      freeBoxes == SelectSeq(nodes, LAMBDA m : m.type = "nodeGroup" /\ m.parent = Undefined)
      freeTop == top(Len(groups) + 1)
      below == IF freeBoxes = <<>> THEN freeTop
               ELSE freeTop + placeGrid(nodes, freeBoxes, MAX_WORKERS_PER_ROW).h + SECTION_GAP
      free == SelectSeq(nodes, LAMBDA m : m.parent = Undefined
                                          /\ m.type \notin {"roleGroup", "nodeGroup", "controlSummary"})
      siblings == childrenOf(nodes, n.parent)
      at == IndexOfId(siblings, n.id)
  IN CASE n.type = "roleGroup" ->
            LET i == IndexOfId(groups, n.id)
            IN [x |-> (widest - sizes[i].w) \div 2, y |-> top(i), w |-> sizes[i].w, h |-> sizes[i].h]
       [] n.type = "controlSummary" ->
            [x |-> widest \div 2, y |-> top(2) - SECTION_GAP + SECTION_GAP \div 2, w |-> 0, h |-> 0]
       [] n.type = "nodeGroup" /\ n.parent # Undefined ->
            InGrid(nodes, siblings, PerRow(ById(nodes, n.parent), siblings), at,
                   ROLE_GROUP_PADDING_X, ROLE_GROUP_PADDING_TOP)
       [] n.type = "nodeGroup" /\ n.parent = Undefined ->
            InGrid(nodes, freeBoxes, MAX_WORKERS_PER_ROW, IndexOfId(freeBoxes, n.id), 0, freeTop)
       [] n.parent # Undefined /\ n.type \in {"nodeServiceCard", "containerNode"} ->
            [x |-> NODE_BOX_PADDING,
             y |-> NODE_BOX_HEADER_HEIGHT
                   + Total([k \in 1..(at - 1) |-> itemHeight(siblings[k]) + CARD_GAP]),
             w |-> CARD_WIDTH, h |-> itemHeight(n)]
       [] OTHER ->
            [x |-> (IndexOfId(free, n.id) - 1) * (FREE_NODE_WIDTH + FREE_GAP), y |-> below,
             w |-> FREE_NODE_WIDTH, h |-> CONTAINER_NODE_HEIGHT]

-----------------------------------------------------------------------------
(* What a group's panel says, and what cards and boxes show.               *)

\* Counts per distinct value, most common first, then by value.
tally(values) ==
  LET count(v) == Cardinality({i \in DOMAIN values : values[i] = v})
  IN SortedBy(SetToSeq({[value |-> v, count |-> count(v)] : v \in ToSet(values)}),
              LAMBDA t : <<-t.count, Place(t.value)>>)

\* Capacities and usage in whole cores and units of memory; 0 is unknown.
nodeUsage(capacity, used) ==
  IF capacity = 0 THEN Undefined ELSE Max({0, Min({100, (used * 100) \div capacity})})

\* The totals of a group; usage is that of the nodes whose agent reports, by their capacity.
summarizeRole(dgNodes, localNodeId, role, capacity, used) ==
  LET members == Members(dgNodes, role)
      counts == boxTaskCounts(dgNodes, localNodeId)
      reporting == {i \in DOMAIN members : members[i].name \in DOMAIN used}
      known == {i \in reporting : capacity[members[i].name] > 0}
  IN [members |-> members,
      tasks |-> Total([i \in DOMAIN members |-> counts[members[i].id]]),
      states |-> tally([i \in DOMAIN members |-> members[i].status]),
      capacity |-> Total([i \in DOMAIN members |-> capacity[members[i].name]]),
      reporting |-> Cardinality(reporting),
      usage |-> nodeUsage(SumFunctionOnSet([i \in DOMAIN members |-> capacity[members[i].name]], known),
                          SumFunctionOnSet([i \in known |-> used[members[i].name]], known))]

\* A majority of the managers has to be reachable.
quorumHealth(managers, reachable) ==
  LET quorum == managers \div 2 + 1
  IN [quorum |-> quorum, spare |-> reachable - quorum]

\* Docker names a task's container after its slot, or its node's id; its stats have it.
taskContainerName(service, task) ==
  <<service, IF task.slot # Undefined THEN task.slot ELSE task.nodeId, task.id>>

\* The badge of a card and its rows, in order, each with its own container's stats.
NodeServiceCard(card, mode, stats) ==
  [running |-> Cardinality({i \in DOMAIN card.tasks : card.tasks[i].state = "running"}),
   of |-> Len(card.tasks), dimmed |-> card.inactive,
   rows |-> [i \in DOMAIN card.tasks |->
     LET key == taskContainerName(card.service, card.tasks[i])
     IN [slot |-> taskSlot(card.tasks[i], mode), state |-> card.tasks[i].state,
         stats |-> IF key \in DOMAIN stats THEN stats[key] ELSE Undefined]]]

-----------------------------------------------------------------------------
(* Properties of a graph.                                                  *)

\* "Places every active task" (nodeTransform.ts:58), "Parents always precede their
\* children" (nodeTransform.ts:188), "so a role group's panel adds up to what the canvas
\* shows" (nodeTransform.ts:308): every active task is a row of one card, that of its
\* service in the box of its node, and nothing else is a row; the elements have one id each
\* and come after what they are in; and a group and its panel count the tasks in the
\* group's boxes.
CardsHold(dgNodes, nodes) ==
  LET cards == {n \in ToSet(nodes) : n.type = "nodeServiceCard"}
      boxes(group) == {n \in ToSet(nodes) : n.type = "nodeGroup" /\ n.parent = group}
      rows(box) == SumFunction([i \in DOMAIN nodes |->
                     IF nodes[i].parent # box THEN 0
                     ELSE IF nodes[i].type = "nodeServiceCard" THEN Len(nodes[i].tasks) ELSE 1])
  IN /\ \A i, j \in DOMAIN nodes : nodes[i].id = nodes[j].id => i = j
     /\ \A i \in DOMAIN nodes : nodes[i].parent # Undefined =>
          \E j \in 1..(i - 1) : nodes[j].id = nodes[i].parent
     /\ \A s \in ToSet(OfType(dgNodes, "service")) : \A t \in ToSet(s.tasks) :
          {c.parent : c \in {card \in cards : card.service = s.id /\ t \in ToSet(card.tasks)}}
            = IF isActiveTask(t) THEN {BoxOf(dgNodes, t)} ELSE {}
     /\ \A group \in {n \in ToSet(nodes) : n.type = "roleGroup"} :
          group.count = SumFunction([box \in boxes(group.id) |-> rows(box.id)])

\* "Same-node pairs are skipped" (swarmLinks.ts:89-90): links run between cards of
\* different hosts, once a pair.
LinksApart(nodes, links) ==
  \A i, j \in DOMAIN links :
    /\ links[i].id = links[j].id => i = j
    /\ {links[i].source, links[i].target} \subseteq
         {n.id : n \in {m \in ToSet(nodes) : m.type = "nodeServiceCard"}}
    /\ cardHost(ById(nodes, links[i].source)) # cardHost(ById(nodes, links[i].target))

NodeViewSound(dgNodes, dgEdges, nodes) ==
  /\ CardsHold(dgNodes, nodes)
  /\ \A s \in ToSet(OfType(dgNodes, "service")) :
       LinksApart(nodes, overlayLinkEdges(dgNodes, dgEdges, nodes, s.id))

\* What nodeLayout.ts computes: of the elements with the same parent no two overlap,
\* and every element lies within what it is in.
PlacedApart(nodes, at) ==
  \A i, j \in DOMAIN nodes :
    /\ i # j /\ nodes[i].parent = nodes[j].parent =>
         \/ at[i].x + at[i].w <= at[j].x \/ at[j].x + at[j].w <= at[i].x
         \/ at[i].y + at[i].h <= at[j].y \/ at[j].y + at[j].h <= at[i].y
    /\ nodes[i].parent = nodes[j].id =>
         /\ 0 <= at[i].x /\ at[i].x + at[i].w <= at[j].w
         /\ 0 <= at[i].y /\ at[i].y + at[i].h <= at[j].h

BoxesApart(nodes) == PlacedApart(nodes, [i \in DOMAIN nodes |-> layoutNodeGroups(nodes, nodes[i])])
=============================================================================
