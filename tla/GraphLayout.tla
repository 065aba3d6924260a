---------------------------- MODULE GraphLayout ----------------------------
(***************************************************************************)
(* Which graph the canvas draws while layouts are computed:                *)
(* hooks/useGraphLayout.ts.  A change of the topology starts a layout,     *)
(* which takes its time and is cancelled by the next one; any other change *)
(* of the graph is patched into what is drawn.                             *)
(*                                                                         *)
(* What a layout does is in NetworkView and NodeView: here a graph is its  *)
(* topology and its data.  `inactive' stands for the fields that are       *)
(* present only when they are true.  Renders and the effects they cause    *)
(* are separate steps: answers can arrive in between.  `again' is history. *)
(***************************************************************************)
EXTENDS Naturals

CONSTANTS
  Topology,       \* topology keys
  Empty,          \* the key of a graph without nodes
  NoKey,
  MaxData         \* bound: versions of the data

ASSUME LayoutAssumption ==
  Empty \in Topology /\ NoKey \notin Topology /\ MaxData \in Nat

VARIABLES
  graph,          \* the graph the hook is given
  drawn,          \* the graph on the canvas
  settledTopoKey, \* the topology of it
  errorTopoKey,   \* the topology whose last layout failed
  layouts,        \* being computed: the graph, and whether it is cancelled
  ranFor,         \* what the effects ran for last
  again           \* a layout was started for the topology that was settled

layoutVars == <<graph, drawn, settledTopoKey, errorTopoKey, layouts, ranFor, again>>

Keys == Topology \union {NoKey}
Graphs(keys) == [topo : keys, data : 0..MaxData, inactive : BOOLEAN]
GraphOf(topo, data, inactive) == [topo |-> topo, data |-> data, inactive |-> inactive]
Deps == [graph |-> graph, settled |-> settledTopoKey]

LayoutInit ==
  /\ graph = GraphOf(Empty, 0, FALSE)
  /\ drawn = GraphOf(Empty, 0, FALSE)
  /\ settledTopoKey = NoKey /\ errorTopoKey = NoKey
  /\ layouts = {}
  /\ ranFor = [graph |-> GraphOf(NoKey, 0, FALSE), settled |-> NoKey]
  /\ again = FALSE

layoutBusy == /\ graph.topo # Empty /\ graph.topo # settledTopoKey
              /\ errorTopoKey # graph.topo
layoutError == errorTopoKey = graph.topo

EffectsDue == ranFor # Deps
Live == {l \in layouts : ~l.cancelled}

\* The page is given another graph, with the same topology or another.
GraphChanges(topo, inactive) ==
  /\ graph.data < MaxData
  /\ graph' = GraphOf(topo, graph.data + 1, inactive)
  /\ UNCHANGED <<drawn, settledTopoKey, errorTopoKey, layouts, ranFor, again>>

\* Mutant: the layout under way is not cancelled.
CancelledNone == layouts

Cancelled == {[graph |-> l.graph, cancelled |-> TRUE] : l \in layouts}

\* Data and fields that are there replace those drawn; a field that is gone stays.
Patched == GraphOf(drawn.topo, graph.data, drawn.inactive \/ graph.inactive)

\* After a render: a layout for a new topology, a patch for a settled one.
RunEffects ==
  /\ EffectsDue
  /\ ranFor' = Deps
  /\ IF graph.topo # ranFor.graph.topo
     THEN /\ layouts' = Cancelled \union {[graph |-> graph, cancelled |-> FALSE]}
          /\ again' = (graph.topo = settledTopoKey)
     ELSE UNCHANGED <<layouts, again>>
  /\ drawn' = IF graph.topo # Empty /\ graph.topo = settledTopoKey THEN Patched ELSE drawn
  /\ UNCHANGED <<graph, settledTopoKey, errorTopoKey>>

LayoutDone(l) ==
  /\ l \in layouts
  /\ layouts' = layouts \ {l}
  /\ IF l.cancelled THEN UNCHANGED <<drawn, settledTopoKey, errorTopoKey>>
     ELSE /\ drawn' = l.graph
          /\ errorTopoKey' = NoKey
          /\ settledTopoKey' = l.graph.topo
  /\ UNCHANGED <<graph, ranFor, again>>

\* Mutant: a failure is not told.
FailedQuietly(l) == errorTopoKey

Failed(l) == IF l.cancelled THEN errorTopoKey ELSE l.graph.topo

\* ELK fails; an empty graph needs no layout.
LayoutFails(l) ==
  /\ l \in layouts /\ l.graph.topo # Empty
  /\ layouts' = layouts \ {l}
  /\ errorTopoKey' = Failed(l)
  /\ UNCHANGED <<graph, drawn, settledTopoKey, ranFor, again>>

LayoutNext ==
  \/ \E topo \in Topology, inactive \in BOOLEAN : GraphChanges(topo, inactive)
  \/ RunEffects
  \/ \E l \in layouts : LayoutDone(l) \/ LayoutFails(l)

\* Effects run and layouts end.
LayoutFairness == /\ WF_layoutVars(RunEffects)
                  /\ WF_layoutVars(\E l \in layouts : LayoutDone(l) \/ LayoutFails(l))

LayoutSpec == LayoutInit /\ [][LayoutNext]_layoutVars /\ LayoutFairness

-----------------------------------------------------------------------------
(* Properties.                                                             *)

LayoutTypeOK ==
  /\ graph \in Graphs(Topology) /\ drawn \in Graphs(Topology)
  /\ settledTopoKey \in Keys /\ errorTopoKey \in Keys
  /\ layouts \subseteq [graph : Graphs(Topology), cancelled : BOOLEAN]
  /\ ranFor \in [graph : Graphs(Keys), settled : Keys]
  /\ again \in BOOLEAN

\* "so the empty state never sits over a stale, still-interactive graph"
\* (useGraphLayout.ts:112), "catching data that arrived while the layout was in flight"
\* (useGraphLayout.ts:144): one layout at most is under way that counts; once the effects
\* have run it is for the topology given, and one is under way while the page says so; and
\* with none under way or failed the canvas draws the topology it was given and its last
\* data, unless a layout was computed for a topology that was settled already.
CanvasShowsTopology ==
  /\ \A l, m \in Live : l = m
  /\ ~EffectsDue =>
       /\ \A l \in Live : l.graph.topo = graph.topo
       /\ layoutBusy => Live # {}
       /\ Live = {} /\ ~layoutError =>
            /\ drawn.topo = graph.topo
            /\ graph.topo # Empty /\ ~again =>
                 drawn.data = graph.data /\ (graph.inactive => drawn.inactive)

\* useGraphLayout.ts:86: once the graph is at rest, "Computing layout" goes away, however
\* many layouts were started, cancelled and failed before.
LayoutSettles == <>[](~EffectsDue /\ ~layoutBusy)
=============================================================================
