----------------------------- MODULE DetailPanel -----------------------------
(***************************************************************************)
(* The panel that tells about one resource: hooks/useDetailPanel.ts and    *)
(* the four hooks that fetch what it tells, hooks/useResourceDetail.ts.    *)
(*                                                                         *)
(* The graph of the page can change under the panel, and with it what the  *)
(* panel is.  A hook's effect runs after the render that asks for another  *)
(* resource, as a step of its own; answers come when they like, and may    *)
(* come after they were aborted.  The centring of the view is left out.    *)
(***************************************************************************)
EXTENDS Highlight

CONSTANTS
  TypeOfId,       \* what the prefix of an id names
  Refs            \* what panels and cards link to: [type, name, id]

VARIABLES
  whole,          \* the graph of all stacks: [nodes, edges]
  selectedStack,
  canvas, wires,  \* the elements drawn and the edges between them
  selection,
  detailNodeId,
  asked,          \* of each hook, the resource its effect ran for last
  fetched,        \* its result
  requests        \* [id, live]; aborted ones are not live

canvasVars == <<canvas, wires>>
panelVars == <<detailNodeId, selection>>
fetchVars == <<asked, fetched, requests>>

Inspected == {"container", "service", "volume", "network"}
EMPTY == [data |-> Undefined, loading |-> FALSE, error |-> FALSE]

PanelInit ==
  /\ selection = Undefined /\ detailNodeId = Undefined
  /\ asked = [kind \in Inspected |-> Undefined]
  /\ fetched = [kind \in Inspected |-> EMPTY]
  /\ requests = {}

scoped == filterGraphByStack(whole.nodes, whole.edges, selectedStack)

-----------------------------------------------------------------------------
(* What the panel is.                                                      *)

isGhostResource == HasId(scoped.nodes, detailNodeId)
                   /\ ById(scoped.nodes, detailNodeId).status = "not_running"

\* "ghost" stands for the four kinds of resource that only a file names.
variant ==
  IF detailNodeId = Undefined THEN "none"
  ELSE LET type == TypeOfId[detailNodeId]
       IN IF type = "swarmnode" /\ ~HasId(scoped.nodes, detailNodeId) THEN "none"
          ELSE IF type \in Inspected /\ isGhostResource THEN "ghost"
          ELSE type

\* The workloads of a network, or those outside any.
groupContainers ==
  CASE variant = "group" ->
         SelectSeq(scoped.nodes, LAMBDA n : n.type = "container" /\ n.source = Undefined
                                            /\ n.networkId = Undefined)
    [] detailNodeId # Undefined /\ TypeOfId[detailNodeId] = "network" ->
         SelectSeq(scoped.nodes, LAMBDA n :
           \/ isWorkload(n) /\ n.networkId = detailNodeId
           \/ \E e \in ToSet(scoped.edges) :
                e.type = "secondary_network" /\ e.target = detailNodeId /\ e.source = n.id)
    [] OTHER -> <<>>

volumeMounts ==
  {e.target : e \in {x \in ToSet(scoped.edges) :
                       x.type = "volume_mount" /\ x.source = detailNodeId}} \intersect Ids(scoped.nodes)

\* The resource a hook is asked for.
Url(kind) == IF variant = kind THEN detailNodeId ELSE Undefined
FetchesDue == \E kind \in Inspected : asked[kind] # Url(kind)

loading == variant \in Inspected /\ fetched[variant].loading
error == variant \in Inspected /\ fetched[variant].error

\* The resource whose details the body shows.
PanelBody ==
  IF loading \/ error \/ variant = "none" THEN Undefined
  ELSE IF variant \notin Inspected THEN detailNodeId
  ELSE IF variant = "service" \/ fetched[variant].data # Undefined THEN fetched[variant].data
  ELSE fetched["container"].data

-----------------------------------------------------------------------------
(* Opening and closing.                                                    *)

\* What is opened is selected too, when it is on the canvas.
handleInfoClick(id, focusId) ==
  /\ detailNodeId' = id
  /\ selection' = IF HasId(canvas, focusId) THEN [type |-> "node", id |-> focusId] ELSE selection

closeDetail == detailNodeId' = Undefined

\* A link in the panel: a name is looked for in the stack of what is shown, and a service
\* linked from a node's panel is shown by its card there.
handleNavigate(ref) ==
  LET context == IF HasId(scoped.nodes, detailNodeId) THEN projectOf(ById(scoped.nodes, detailNodeId))
                 ELSE Undefined
      target == resolveNodeRef(scoped.nodes, ref, context)
      near == canvasNodesShowing(canvas, target, detailNodeId)
  IN handleInfoClick(target, IF Cardinality(near) = 1 THEN CHOOSE id \in near : TRUE ELSE target)

-----------------------------------------------------------------------------
(* Fetching.                                                               *)

\* After a render: what is no longer asked for is aborted, what is new is requested.  The
\* last result stays until the answer comes; without a resource the hook is emptied.
RunFetches ==
  /\ FetchesDue
  /\ LET changed == {kind \in Inspected : asked[kind] # Url(kind)}
     IN /\ asked' = [kind \in Inspected |-> Url(kind)]
        /\ requests' = {[r EXCEPT !.live = r.live /\ TypeOfId[r.id] \notin changed] : r \in requests}
                       \union {[id |-> Url(kind), live |-> TRUE] :
                                 kind \in {k \in changed : Url(k) # Undefined}}
        /\ fetched' = [kind \in Inspected |->
                         IF kind \notin changed THEN fetched[kind]
                         ELSE IF Url(kind) = Undefined THEN EMPTY
                         ELSE [data |-> fetched[kind].data, loading |-> TRUE, error |-> FALSE]]

\* Mutant: an answer counts though its request was aborted.
CountsAborted(r) == TRUE

Counts(r) == r.live

Result(r, ok) == [data |-> IF ok THEN r.id ELSE Undefined, loading |-> FALSE, error |-> ~ok]

Answer(r, ok) ==
  /\ r \in requests
  /\ requests' = requests \ {r}
  /\ fetched' = IF Counts(r) THEN [fetched EXCEPT ![TypeOfId[r.id]] = Result(r, ok)] ELSE fetched
  /\ UNCHANGED asked

-----------------------------------------------------------------------------
(* Properties.                                                             *)

\* "only the relevant hook fetches based on variant" (useDetailPanel.ts:158), "Cancels
\* in-flight requests when the URL changes" (useResourceDetail.ts:14): once the effects
\* have run, at most one request counts, the one the panel waits for; a body it shows is
\* that of the resource it was opened for, through graphs that lose that resource or make
\* a ghost of it; and no other hook holds anything.
PanelTellsItsOwn ==
  ~FetchesDue =>
    /\ {r.id : r \in {q \in requests : q.live}} = IF loading THEN {detailNodeId} ELSE {}
    /\ PanelBody \in {Undefined, detailNodeId}
    /\ PanelBody = Undefined => loading \/ error \/ variant = "none"
    /\ \A kind \in Inspected \ {variant} : fetched[kind] = EMPTY
=============================================================================
