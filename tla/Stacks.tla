------------------------------- MODULE Stacks -------------------------------
(***************************************************************************)
(* The graph the page is given and what it is narrowed to: utils/stack.ts. *)
(* A workload is a container or a swarm service.  A node belongs to at     *)
(* most one stack (a Compose project or a swarm stack); the page can be    *)
(* scoped to one stack or to what has none.                                *)
(*                                                                         *)
(* Node lists keep their order, for "the first" matters.  A name is the    *)
(* sequence of the words and separators it is written with, <<web>> or     *)
(* <<shop, Underscore, web>>, and so are the names of stacks.  Words hold  *)
(* no separator, so that comparing sequences is comparing strings, also at *)
(* their beginning up to a separator and at their end from one.            *)
(***************************************************************************)
EXTENDS Naturals, Sequences, SequencesExt, FiniteSetsExt

CONSTANTS
  Undefined,        \* JavaScript's undefined and null
  STANDALONE_STACK,
  Spelling          \* how the name of a stack is written; empty for Undefined

ASSUME StacksAssumption == STANDALONE_STACK # Undefined

\* A node with nothing set but what every node has.
BareNode(id, type, name) ==
  [id |-> id, type |-> type, name |-> name, status |-> Undefined, stack |-> Undefined,
   composeProject |-> Undefined, stackNamespace |-> Undefined, networkId |-> Undefined,
   source |-> Undefined, running |-> Undefined, tasks |-> <<>>, mode |-> Undefined,
   role |-> Undefined, leader |-> FALSE, availability |-> "active", nodeId |-> Undefined]

\* What is in a name besides words: separators, and the number of the first replica.
Underscore == "underscore"
Dash == "dash"
Dot == "dot"
First == "first"

\* shop_web, shop-web-1 and shop_web.1.<task>.
SwarmName(stack, base) == Spelling[stack] \o <<Underscore>> \o base
ComposeName(stack, base) == Spelling[stack] \o <<Dash>> \o base \o <<Dash, First>>
TaskName(service, task) == service \o <<Dot, First, Dot, task>>

\* What Docker calls the workload `base' of a stack.
SameNames(stack, base) == {SwarmName(stack, base), ComposeName(stack, base)}

HasId(seq, id) == \E i \in DOMAIN seq : seq[i].id = id
ById(seq, id) == seq[Min({i \in DOMAIN seq : seq[i].id = id})]
Ids(seq) == {seq[i].id : i \in DOMAIN seq}

\* The stack the backend resolved, and the labels where it did not.
projectOf(node) ==
  LET known == SelectSeq(<<node.stack, node.composeProject, node.stackNamespace>>,
                         LAMBDA s : s # Undefined)
  IN IF known = <<>> THEN Undefined ELSE Head(known)

isWorkload(node) == node.type \in {"container", "service"}

\* The dashboard summarises services when there are any, or when there is nothing and
\* the daemon is a swarm's.
showsSwarmWorkloads(dgNodes, swarm, stack) ==
  LET types == {node.type : node \in ToSet(dgNodes)}
  IN "service" \in types \/ ("container" \notin types /\ swarm /\ stack # STANDALONE_STACK)

isServiceLive(node) ==
  IF node.running # Undefined THEN node.running > 0 ELSE node.status = "running"

-----------------------------------------------------------------------------
(* Stats keys: [of, kind] with kind "node" for a node's aggregate, "task"  *)
(* for a task of service `of', "workload" for a container or a service.    *)

isNodeStatsKey(key) == key.kind = "node"

\* The service's aggregate is there, which already sums the task.
isCoveredTask(key, keys) ==
  key.kind = "task" /\ \E other \in keys : other.kind = "workload" /\ other.of = key.of

\* The entries of a stats map with every workload counted once.
consumerStats(stats) ==
  LET kept == {key \in DOMAIN stats :
                 ~isNodeStatsKey(key) /\ ~isCoveredTask(key, DOMAIN stats)}
  IN [key \in kept |-> stats[key]]

withoutCoveredTasks(series) ==
  LET kept == {key \in DOMAIN series : ~isCoveredTask(key, DOMAIN series)}
  IN [key \in kept |-> series[key]]

withoutNodeStats(stats) ==
  [key \in {k \in DOMAIN stats : ~isNodeStatsKey(k)} |-> stats[key]]

-----------------------------------------------------------------------------
(* Scopes.                                                                 *)

ScopeName(node) == IF projectOf(node) = Undefined THEN STANDALONE_STACK ELSE projectOf(node)

\* Every stack with a workload, and how many of its workloads run.
listStacks(dgNodes) ==
  LET workloads(name) == {i \in DOMAIN dgNodes :
                            isWorkload(dgNodes[i]) /\ ScopeName(dgNodes[i]) = name}
      names == {ScopeName(node) : node \in {n \in ToSet(dgNodes) : isWorkload(n)}}
  IN {[name |-> name,
       total |-> Cardinality(workloads(name)),
       running |-> Cardinality({i \in workloads(name) : dgNodes[i].status = "running"})]
      : name \in names}

inStack(node, stack) == ScopeName(node) = stack

\* The ids of the stack's own nodes; swarm nodes are in every scope, and of those
\* without a stack only workloads are.
OwnIds(dgNodes, stack) ==
  {node.id : node \in {n \in ToSet(dgNodes) :
     \/ n.type = "swarmnode"
     \/ inStack(n, stack) /\ (isWorkload(n) \/ stack # STANDALONE_STACK)}}

\* Mutant: the networks other than a workload's first are forgotten.
KeptIdsPrimary(dgNodes, dgEdges, stack) ==
  LET workloads == {n \in ToSet(dgNodes) : isWorkload(n) /\ n.id \in OwnIds(dgNodes, stack)}
      ids == {n.id : n \in workloads}
  IN OwnIds(dgNodes, stack)
     \union {n.networkId : n \in workloads}
     \union {e.source : e \in {x \in ToSet(dgEdges) : x.type = "volume_mount" /\ x.target \in ids}}

\* They and the networks and volumes its workloads refer to.
KeptIds(dgNodes, dgEdges, stack) ==
  LET workloads == {n \in ToSet(dgNodes) : isWorkload(n) /\ n.id \in OwnIds(dgNodes, stack)}
      ids == {n.id : n \in workloads}
  IN OwnIds(dgNodes, stack)
     \union {n.networkId : n \in workloads}
     \union {e.target : e \in {x \in ToSet(dgEdges) :
                                 x.type = "secondary_network" /\ x.source \in ids}}
     \union {e.source : e \in {x \in ToSet(dgEdges) :
                                 x.type = "volume_mount" /\ x.target \in ids}}

\* The elements of a list that are in a set, in their order.
FilteredTo(seq, set) ==
  LET kept[i \in 0..Len(seq)] ==
        IF i = 0 THEN <<>>
        ELSE IF seq[i] \in set THEN Append(kept[i - 1], seq[i]) ELSE kept[i - 1]
  IN kept[Len(seq)]

filterGraphByStack(dgNodes, dgEdges, stack) ==
  IF stack = Undefined THEN [nodes |-> dgNodes, edges |-> dgEdges]
  ELSE LET kept == KeptIds(dgNodes, dgEdges, stack)
           nodes == FilteredTo(dgNodes, {n \in ToSet(dgNodes) : n.id \in kept})
       IN [nodes |-> nodes,
           edges |-> FilteredTo(dgEdges, {e \in ToSet(dgEdges) : {e.source, e.target} \subseteq Ids(nodes)})]

-----------------------------------------------------------------------------
(* References to workloads.                                                *)

\* The name a network has in its stack, so that its colour is that of the others'.
stripStackPrefix(name, stack) ==
  LET prefix == Spelling[stack] \o <<Underscore>>
  IN IF stack # Undefined /\ IsStrictPrefix(prefix, name)
     THEN SubSeq(name, Len(prefix) + 1, Len(name)) ELSE name

\* The service's name, for a task container's.
BaseName(name) ==
  IF Len(name) > 4 /\ name[Len(name) - 3] = Dot /\ name[Len(name) - 1] = Dot
  THEN SubSeq(name, 1, Len(name) - 4) ELSE name

\* shop_web, and what begins with shop-web-, for web in the stack shop.
NamedInStack(full, name, stack) ==
  full = SwarmName(stack, name) \/ IsPrefix(Spelling[stack] \o <<Dash>> \o name \o <<Dash>>, full)

\* What ends in _web or -web, for web.
EndsIn(full, name) == IsSuffix(<<Underscore>> \o name, full) \/ IsSuffix(<<Dash>> \o name, full)

TypeRank(wanted, type) ==
  CASE wanted = type -> 0
    [] wanted # type /\ {wanted, type} = {"container", "service"} -> 1
    [] OTHER -> 2

\* Mutant: the stack the reference is made from does not count.
scoreAnywhere(node, name, contextStack) ==
  IF node.name = name THEN 400
  ELSE IF node.name = BaseName(name) THEN 350
  ELSE IF EndsIn(node.name, name) THEN 100
  ELSE 0

\* How well a node answers to a name: exactly, as a task's service, by its short name in
\* the stack, by its short name.
score(node, name, contextStack) ==
  IF node.name = name THEN 400
  ELSE IF node.name = BaseName(name) THEN 350
  ELSE IF contextStack # Undefined /\ NamedInStack(node.name, name, contextStack) THEN 300
  ELSE IF EndsIn(node.name, name)
       THEN IF contextStack # Undefined /\ projectOf(node) = contextStack THEN 200 ELSE 100
  ELSE 0

\* The node a reference [type, name, id] means, the first of the best; itself if none.
resolveNodeRef(dgNodes, ref, contextStack) ==
  LET rank(i) == TypeRank(ref.type, dgNodes[i].type)
      candidates == {i \in DOMAIN dgNodes :
                       rank(i) < 2 /\ score(dgNodes[i], ref.name, contextStack) > 0}
      worth(i) == score(dgNodes[i], ref.name, contextStack) - rank(i)
      best == {i \in candidates : \A j \in candidates : worth(i) >= worth(j)}
  IN IF HasId(dgNodes, ref.id) \/ candidates = {} THEN ref.id ELSE dgNodes[Min(best)].id

-----------------------------------------------------------------------------
(* Properties of a graph.                                                  *)

\* The graphs there are: an id is of one node, networks and volumes are no workloads, and
\* an edge is a workload's with a network, a volume's with a workload, or between two.
ProperGraph(dgNodes, dgEdges) ==
  LET workloads == {n.id : n \in {m \in ToSet(dgNodes) : isWorkload(m)}}
  IN /\ \A i, j \in DOMAIN dgNodes : dgNodes[i].id = dgNodes[j].id => i = j
     /\ ~HasId(dgNodes, Undefined)
     /\ \A n \in ToSet(dgNodes) : n.networkId \notin workloads
     /\ \A e \in ToSet(dgEdges) :
          /\ e.type \in {"depends_on", "secondary_network", "volume_mount"}
          /\ e.type = "secondary_network" => e.target \notin workloads
          /\ e.type = "volume_mount" => e.source \notin workloads

\* "Keeps the stack's own nodes, plus any network or volume a kept workload references,
\* plus the edges whose ends both survive" (stack.ts:191-193): the scopes split the
\* workloads, and a workload has the same networks, volumes and, within the stack, edges
\* in its scope as in the whole graph.
ScopesSplit(dgNodes, dgEdges) ==
  LET scope(stack) == filterGraphByStack(dgNodes, dgEdges, stack)
      stacks == {summary.name : summary \in listStacks(dgNodes)}
  IN \A node \in {n \in ToSet(dgNodes) : isWorkload(n)} :
       /\ {stack \in stacks : HasId(scope(stack).nodes, node.id)} = {ScopeName(node)}
       /\ LET mine == scope(ScopeName(node))
          IN /\ HasId(dgNodes, node.networkId) => HasId(mine.nodes, node.networkId)
             /\ \A e \in ToSet(dgEdges) :
                  /\ e.type # "depends_on" /\ node.id \in {e.source, e.target}
                  /\ {e.source, e.target} \subseteq Ids(dgNodes)
                  => e \in ToSet(mine.edges)
             /\ \A e \in ToSet(mine.edges) : {e.source, e.target} \subseteq Ids(mine.nodes)

\* "Candidates in `contextStack' win over same-named workloads in other stacks"
\* (stack.ts:250), as far as the code keeps it: a short name used in a stack that has such
\* a workload leads to a workload called exactly so, to one whose name is the stack's and
\* the short one, or begins with them; hence to the same-named workload of another stack
\* only if that stack's name goes on from this one's with a dash (web in shop may be
\* shop-web-web-1, of shop-web).  One called exactly so wins whatever its stack (272).
RefsStayHome(dgNodes, stacks, bases) ==
  \A stack \in stacks, base \in bases, type \in {"container", "service"} :
    LET ref == [type |-> type, name |-> base, id |-> Undefined]
        found == resolveNodeRef(dgNodes, ref, stack)
        name == ById(dgNodes, found).name
    IN (\E n \in ToSet(dgNodes) : isWorkload(n) /\ n.name \in SameNames(stack, base)) =>
         /\ HasId(dgNodes, found)
         /\ name = base \/ NamedInStack(name, base, stack)
         /\ \A other \in stacks :
              name \in SameNames(other, base) \ SameNames(stack, base) =>
                IsPrefix(Spelling[stack] \o <<Dash>>, Spelling[other])
=============================================================================
