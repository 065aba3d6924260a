------------------------------ MODULE Dashboard ------------------------------
(***************************************************************************)
(* The dashboard's cards, components/dashboard/, and the alerts of         *)
(* utils/alerts.ts.  They are given the nodes of a scope and the stats     *)
(* App.tsx leaves of it, and what a row of theirs is about can be opened.  *)
(*                                                                         *)
(* Stats are [cpu, mem, limit, rx, tx, errors] by a key [of, kind]; a      *)
(* task's key has the task.  How a number is written is left out.          *)
(***************************************************************************)
EXTENDS NodeView

CONSTANTS
  CPU_ALERT,          \* the percentage above which a replica is reported
  MAX_CONSUMERS

WorkloadKey(name) == [of |-> name, kind |-> "workload"]
NodeKey(host) == [of |-> host, kind |-> "node"]
TaskKey(service, task) == [of |-> service, kind |-> "task", task |-> task]

\* The name of the container or service a series is of.
SeriesName(key) == IF key.kind = "task" THEN TaskName(key.of, key.task) ELSE key.of

WorkloadNamesOf(nodes) == {n.name : n \in {m \in ToSet(nodes) : isWorkload(m)}}

Only(stats, keys) == [key \in keys |-> stats[key]]

\* Mutant: a task is looked for by its own name.
InScopeByName(key, names) == key.kind = "node" \/ SeriesName(key) \in names

\* A node's stats are in every scope, a task's in its service's.
InScope(key, names) == key.kind = "node" \/ key.of \in names

scopedStats(stats, nodes, stack) ==
  IF stack = Undefined THEN stats
  ELSE Only(stats, {key \in DOMAIN stats : InScope(key, WorkloadNamesOf(nodes))})

-----------------------------------------------------------------------------
(* Alerts.                                                                 *)

Alert(severity, node, message) ==
  [severity |-> severity, nodeId |-> node.id, container |-> node.name, message |-> message]

\* A service's stats sum its tasks'; the threshold is for one.
replicas(node) ==
  IF node.type = "service" /\ node.running # Undefined THEN Max({1, node.running}) ELSE 1

StatusAlerts(node) ==
  CASE node.type = "container" /\ node.status = "exited" -> <<Alert("error", node, "exited")>>
    [] node.type = "container" /\ node.status = "restarting" -> <<Alert("warning", node, "restarting")>>
    [] node.type = "service" /\ node.status = "degraded" -> <<Alert("warning", node, "degraded")>>
    [] OTHER -> <<>>

When(condition, alert) == IF condition THEN <<alert>> ELSE <<>>

UsageAlerts(node, s) ==
  When(s.cpu > CPU_ALERT * replicas(node), Alert("warning", node, "cpu"))
  \o When(s.limit > 0 /\ 10 * s.mem > 9 * s.limit, Alert("warning", node, "memory"))
  \o When(s.errors > 0, Alert("info", node, "errors"))

\* Errors first, then warnings; within each in the order of the nodes.
evaluateAlerts(nodes, stats) ==
  LET workloads == SelectSeq(nodes, isWorkload)
      all == FlattenSeq([i \in DOMAIN workloads |->
               StatusAlerts(workloads[i])
               \o IF WorkloadKey(workloads[i].name) \in DOMAIN stats
                  THEN UsageAlerts(workloads[i], stats[WorkloadKey(workloads[i].name)]) ELSE <<>>])
      with(severity) == SelectSeq(all, LAMBDA a : a.severity = severity)
  IN with("error") \o with("warning") \o with("info")

\* The rows, each of which opens its node, and the badge in the colour of the first.
AlertsCard(nodes, stats) ==
  LET alerts == evaluateAlerts(nodes, withoutNodeStats(stats))
  IN [rows |-> alerts, opens |-> [i \in DOMAIN alerts |-> alerts[i].nodeId],
      badge |-> IF alerts = <<>> THEN Undefined ELSE alerts[1].severity]

-----------------------------------------------------------------------------
(* Consumers and charts.                                                   *)

\* Traffic is counted both ways.
Metric(s, metric) == IF metric = "net" THEN s.rx + s.tx ELSE s[metric]

\* The first few by what is sorted by, ties in some order of the map's; a row opens the
\* workload of its name, looked for as a container.
TopConsumersCard(nodes, stats, sortBy) ==
  LET consumers == consumerStats(stats)
      tie(key) == IF key.kind = "task" THEN Place(key.task) ELSE 0
      sorted == SortedBy(SetToSeq(DOMAIN consumers), LAMBDA key :
                  <<-Metric(consumers[key], sortBy), Place(Last(key.of)), Place(Head(key.of)), tie(key)>>)
      rows == SubSeq(sorted, 1, Min({MAX_CONSUMERS, Len(sorted)}))
      ref(key) == [type |-> "container", name |-> SeriesName(key), id |-> SeriesName(key)]
  IN [rows |-> rows,
      opens |-> [i \in DOMAIN rows |-> resolveNodeRef(nodes, ref(rows[i]), Undefined)]]

\* The server's history of a named stack: the series of its workloads and their tasks.
ServerHistory(series, nodes, stack) ==
  LET names == {n.name : n \in {m \in ToSet(nodes) : isWorkload(m) /\ projectOf(m) = stack}}
  IN Only(series, {key \in DOMAIN series :
                     key.kind # "node" /\ (stack \in {Undefined, STANDALONE_STACK} \/ key.of \in names)})

\* The standalone scope is cut out of the whole history; each workload is plotted once.
scopeHistory(series, nodes, stack) ==
  LET kept == {key \in DOMAIN series :
                 stack = STANDALONE_STACK => SeriesName(key) \in WorkloadNamesOf(nodes)}
  IN withoutCoveredTasks(Only(series, kept))

\* One line a series, labelled with its name.
buildSeries(metric, series) ==
  {[label |-> SeriesName(key), value |-> Metric(series[key], metric)] : key \in DOMAIN series}

-----------------------------------------------------------------------------
(* Projects, nodes and events.                                             *)

\* Stacks by name, what has none last; the largest first.  A row scopes the page to it.
ComposeProjectsCard(nodes) ==
  LET projects == SortedBy(SetToSeq(listStacks(nodes)), LAMBDA p :
                    <<-p.total, IF p.name = STANDALONE_STACK THEN 1 ELSE 0, Place(p.name)>>)
  IN [i \in DOMAIN projects |->
        [name |-> projects[i].name, running |-> projects[i].running, total |-> projects[i].total,
         colour |-> IF projects[i].running = projects[i].total THEN "green"
                    ELSE IF projects[i].running = 0 THEN "red" ELSE "amber"]]

\* A row for each node, with its tasks and, when its agent reports, its usage.
SwarmNodesCard(nodes, stats, capacity) ==
  LET machines == listSwarmNodes(nodes)
  IN [i \in DOMAIN machines |->
        LET key == NodeKey(machines[i].name)
        IN [opens |-> machines[i].id, tasks |-> Len(placeTasks(nodes, machines[i].id)),
            agent |-> key \in DOMAIN stats,
            usage |-> IF key \in DOMAIN stats THEN nodeUsage(capacity, stats[key].cpu) ELSE Undefined]]

INSPECTABLE_TYPES == {"container", "network", "volume"}

\* An id is a type and a name.  A name an event gives may lack its stack.
resolveNodeId(nodes, type, name) ==
  LET exact == {i \in DOMAIN nodes : nodes[i].type = type /\ nodes[i].name = name}
      ending == {i \in DOMAIN nodes : nodes[i].type = type /\ EndsIn(nodes[i].name, name)}
  IN IF type \notin INSPECTABLE_TYPES \/ exact \union ending = {} THEN Undefined
     ELSE IF exact # {} THEN nodes[Min(exact)].id
     ELSE nodes[Min(ending)].id

\* The events, [type, name] each; those of something in the graph open it.
EventTimelineCard(nodes, events) ==
  [i \in DOMAIN events |-> [event |-> events[i], opens |-> resolveNodeId(nodes, events[i].type, events[i].name)]]

-----------------------------------------------------------------------------
(* Properties of a graph with its stats.                                   *)

\* What a scope's cards are given.
CardsOf(dgNodes, dgEdges, stats, stack) ==
  LET nodes == filterGraphByStack(dgNodes, dgEdges, stack).nodes
      own == scopedStats(stats, nodes, stack)
  IN [nodes |-> nodes, stats |-> own,
      alerts |-> ToSet(AlertsCard(nodes, own).rows),
      consumers |-> DOMAIN consumerStats(own),
      plotted |-> DOMAIN scopeHistory(ServerHistory(stats, dgNodes, stack), nodes, stack),
      tasks |-> SumFunction([i \in DOMAIN SwarmNodesCard(nodes, own, 1) |-> SwarmNodesCard(nodes, own, 1)[i].tasks])]

\* "Only the scoped workloads' stats" (App.tsx:162), "Each workload once" (TopConsumersCard.tsx:32),
\* "plot each workload once" (Dashboard.tsx:41): the alerts, consumers and tasks of the
\* page are those of its scopes, each in one of them; a project's row counts what its
\* scope has; and no service is listed or plotted both as a whole and by its tasks.
CardsAddUp(dgNodes, page, rows, scopes) ==
  LET mine(i) == {n \in ToSet(scopes[i].nodes) : isWorkload(n)}
      Splits(whole, part(_)) ==
        /\ whole = UNION {part(i) : i \in DOMAIN rows}
        /\ \A i, j \in DOMAIN rows : i # j => part(i) \intersect part(j) = {}
      known == {key \in page.consumers : key.of \in WorkloadNamesOf(dgNodes)}
  IN /\ Splits(page.alerts, LAMBDA i : scopes[i].alerts)
     /\ Splits(known, LAMBDA i : scopes[i].consumers)
     /\ \A i \in DOMAIN rows : {key \in page.plotted : key.kind = "workload" /\ key.of \in WorkloadNamesOf(scopes[i].nodes)}
                                 = {key \in scopes[i].plotted : key.kind = "workload"}
     /\ rows # <<>> => page.tasks = SumFunction([i \in DOMAIN rows |-> scopes[i].tasks])
     /\ \A i \in DOMAIN rows : /\ rows[i].total = Cardinality(mine(i))
                               /\ rows[i].running = Cardinality({n \in mine(i) : n.status = "running"})
     /\ page.plotted = page.consumers
     /\ \A a, b \in page.consumers : a.of = b.of => a.kind = b.kind

ScopesAddUp(dgNodes, dgEdges, stats, rows) ==
  CardsAddUp(dgNodes, CardsOf(dgNodes, dgEdges, stats, Undefined), rows,
             [i \in DOMAIN rows |-> CardsOf(dgNodes, dgEdges, stats, rows[i].name)])

\* "Open the detail panel for the workload the alert refers to" (AlertsCard.tsx:13), "resolve
\* those to the real node" (FlowCanvas.tsx:311-312): what a row is about is what it opens; the
\* consumers listed are drawn with the same value; and a node's row has as many tasks as
\* its box on the canvas.
ConsumersDrawn(dgNodes, stats, metric, top, lines) ==
  LET owner(key) == IF key.kind = "task" THEN key.of ELSE SeriesName(key)
  IN \A i \in DOMAIN top.rows :
       /\ owner(top.rows[i]) \in WorkloadNamesOf(dgNodes) =>
            ById(dgNodes, top.opens[i]).name = owner(top.rows[i])
       /\ [label |-> SeriesName(top.rows[i]), value |-> Metric(stats[top.rows[i]], metric)] \in lines
       /\ Cardinality({line \in lines : line.value > Metric(stats[top.rows[i]], metric)}) < i

RowsOpenTheirOwn(dgNodes, stats, events, drawn) ==
  LET inBox(id) == [i \in DOMAIN drawn |->
                      IF drawn[i].parent = id /\ drawn[i].type = "nodeServiceCard" THEN Len(drawn[i].tasks) ELSE 0]
  IN /\ \A metric \in {"cpu", "mem", "net"} :
          ConsumersDrawn(dgNodes, stats, metric, TopConsumersCard(dgNodes, stats, metric),
            buildSeries(metric, scopeHistory(ServerHistory(stats, dgNodes, Undefined), dgNodes, Undefined)))
     /\ LET alerts == AlertsCard(dgNodes, stats)
        IN \A i \in DOMAIN alerts.rows : ById(dgNodes, alerts.opens[i]).name = alerts.rows[i].container
     /\ \A row \in ToSet(SwarmNodesCard(dgNodes, stats, 1)) : row.tasks = SumFunction(inBox(row.opens))
     /\ \A row \in ToSet(EventTimelineCard(dgNodes, events)) : row.opens # Undefined =>
          LET named(n) == n.type = row.event.type /\ n.name = row.event.name
          IN /\ ById(dgNodes, row.opens).type = row.event.type
             /\ (\E n \in ToSet(dgNodes) : named(n)) => named(ById(dgNodes, row.opens))
=============================================================================
