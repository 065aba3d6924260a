---------------------------- MODULE MCCollectors ----------------------------
(***************************************************************************)
(* The Compose collector and the discovery of agents side by side, each    *)
(* under fair goroutines.  They share no state, so a behaviour exercises   *)
(* one of them, `component', and the other rests.                          *)
(*                                                                         *)
(* Compose has a file in the configured directory and one in a directory   *)
(* made later, or in a directory made in that one.                         *)
(***************************************************************************)
EXTENDS ComposeCollector, AgentDiscovery

CONSTANTS sub, nested, f, g

MCParent == [d \in Dir \ {Root} |-> IF d = sub THEN Root ELSE sub]
MCDirOf == [x \in File |-> IF x = f THEN Root ELSE IF nested \in Dir THEN nested ELSE sub]

VARIABLE component

vars == <<component, composeVars, discoveryVars>>

Init ==
    /\ component \in {"compose", "discovery"}
    /\ ComposeInit /\ DiscoveryInit
    \* One initial state of the one that rests.
    /\ component # "compose" => disk = NoGraph
    /\ component # "discovery" => runs = NoInfos

Next ==
    /\ component' = component
    /\ \/ component = "compose" /\ ComposeNext /\ UNCHANGED discoveryVars
       \/ component = "discovery" /\ DiscoveryNext /\ UNCHANGED composeVars

Compose(action) == component = "compose" /\ action
Discovery(action) == component = "discovery" /\ action

\* The collector's goroutines run, and its select takes each ready case again and
\* again.
ComposeFairness ==
    /\ WF_composeVars(Compose(Scan)) /\ WF_composeVars(Compose(Fire))
    /\ WF_composeVars(Compose(Consume))
    /\ SF_composeVars(Compose(Notified)) /\ SF_composeVars(Compose(Exit))
    /\ SF_composeVars(Compose(\E e \in events : HandleEvent(e)))

\* The pool's goroutine runs: its timer fires, its requests end, and lookups succeed.
DiscoveryFairness ==
    /\ WF_discoveryVars(Discovery(BeginRefresh))
    /\ \A a \in Addr : WF_discoveryVars(Discovery(AskInfo(a)))
    /\ WF_discoveryVars(Discovery(\E listed \in BOOLEAN : EndRefresh(listed)))

Spec == Init /\ [][Next]_vars /\ ComposeFairness /\ DiscoveryFairness

\* ComposeCatchesUp: once the files are at rest, the graph pipeUpdates took last is
\* theirs.  FindsAgents: once the swarm is at rest and requests are answered, the pool
\* has the agent of every node that has one and no other.
CollectorsCatchUp ==
  /\ component = "compose" => ComposeCatchesUp
  /\ component = "discovery" => FindsAgents

\* RemovalsShown: the same when files are moved out of their directory.
RenamesShown == component = "compose" => RemovalsShown
=============================================================================
