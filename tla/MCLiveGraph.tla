---------------------------- MODULE MCLiveGraph ----------------------------
(***************************************************************************)
(* The state manager alone, and LiveGraph, which composes it with the hub  *)
(* and the browser.  A behaviour runs one of them, `part'.                 *)
(*                                                                         *)
(* There is one container `c' attached to one network `n'.  Alone, the     *)
(* manager is sent graphs by both collectors, one with an edge to a        *)
(* network it does not hold.  In LiveGraph the daemon runs nothing, the    *)
(* container, or both.                                                     *)
(***************************************************************************)
EXTENDS LiveGraph

CONSTANTS c, n, e, up, down, file, m1, m2

MCFrom == [x \in {e} |-> c]
MCTo == [x \in {e} |-> n]

Container(st, net, src) == [status |-> st, networkId |-> net, source |-> src]
Network == [status |-> Empty, networkId |-> Empty, source |-> Empty]

Alone(container) == [nodes |-> [x \in {c} |-> container], edges |-> [x \in {} |-> m1]]
Attached(container, mount) ==
    [nodes |-> [x \in {c, n} |-> IF x = c THEN container ELSE Network],
     edges |-> [x \in {e} |-> mount]]
Dangling(container, mount) ==
    [nodes |-> [x \in {c} |-> container], edges |-> [x \in {e} |-> mount]]

ManagerOffers ==
    [docker |-> {EmptyGraph,
                 Alone(Container(up, n, Empty)),
                 Attached(Container(up, n, Empty), m1)},
     compose |-> {Dangling(Container(Empty, n, file), m2),
                  Attached(Container(Empty, Empty, file), m2)}]
LiveOffers ==
    [docker |-> {Alone(Container(down, Empty, Empty)), Attached(Container(up, n, Empty), m1)},
     compose |-> {EmptyGraph}]

MCOffers == [x \in Collector |-> ManagerOffers[x] \union LiveOffers[x]]

VARIABLE part

partVars == <<part, liveVars>>

PartInit == part \in {"manager", "live"} /\ LiveInit


OfPart(offers) == \A x \in Collector : snapshots'[x] \in offers[x] \union {EmptyGraph}

PartNext ==
    /\ part' = part
    /\ \/ /\ part = "manager" /\ Next /\ OfPart(ManagerOffers)
          /\ UNCHANGED <<updates, hubVars, page, link, dropped, sync>>
       \/ part = "live" /\ LiveNext /\ OfPart(LiveOffers)

PartSpec == PartInit /\ [][PartNext]_partVars

\* Every goroutine and the browser keep running; what the collectors and the
\* network do is not theirs to decide.
Live(action) == part = "live" /\ action

LiveFairness ==
    /\ WF_liveVars(Live(MainSubscribe)) /\ WF_liveVars(Live(PipeToHub))
    /\ \A x \in Conn : /\ WF_liveVars(Live(HubStep(x)))
                       /\ WF_liveVars(Live(HubDeliver(x)))
    /\ WF_liveVars(Live(Connect)) /\ WF_liveVars(Live(OnClose)) /\ WF_liveVars(Live(OnMessage))

PartFairSpec == PartSpec /\ LiveFairness
=============================================================================
