----------------------------- MODULE MCHistory ------------------------------
(***************************************************************************)
(* What the dashboard and the log view read: the containers the agents     *)
(* report (AgentReports), the stats history (StatsHistory), the event      *)
(* history (EventHistory) and the pages and streams of a log (LogView).    *)
(* They share no state, so a behaviour exercises one of them, `kind', and  *)
(* the others rest.                                                        *)
(*                                                                         *)
(* Of the agents, the server has a task on each of two nodes, and the      *)
(* second one's agent is faulty; it asks them in one round and finds no    *)
(* agent in the next.                                                      *)
(***************************************************************************)
EXTENDS AgentReports, StatsHistory, EventHistory, LogView, TLC

CONSTANTS n1, n2, t1, t2, c1, prefix1

TheTaskNode == t1 :> n1 @@ t2 :> n2
ThePrefixOf == c1 :> prefix1

\* A faulty agent reports up to two samples.
TheFaultyReports == {{}} \union {{s, t} : s \in Sample, t \in Sample}

\* A container or two, or none; what they use does not matter.
SomeNames == {[n \in s |-> 0] : s \in {{}, {"a"}, {"a", "b"}}}

VARIABLE kind

vars == <<kind, reportsVars, statsVars, eventVars, viewVars>>

Init ==
  /\ kind \in {"agents", "stats", "events", "lines"}
  /\ ReportsInit /\ StatsInit /\ EventsInit /\ ViewInit
  \* One initial state of those that rest.
  /\ kind # "agents" => standalone = [c \in Container |-> None]
  /\ kind # "lines" => written = 0 /\ active = FALSE

Next ==
  /\ kind' = kind
  /\ \/ /\ kind = "agents" /\ ReportsNext /\ (rounds' = MaxRounds => ~running')
        /\ UNCHANGED <<statsVars, eventVars, viewVars>>
     \/ kind = "stats" /\ StatsNext /\ UNCHANGED <<reportsVars, eventVars, viewVars>>
     \/ kind = "events" /\ EventsNext /\ UNCHANGED <<reportsVars, statsVars, viewVars>>
     \/ kind = "lines" /\ ViewNext /\ UNCHANGED <<reportsVars, statsVars, eventVars>>

\* The browser runs the view's handlers and frames, its requests end, and its stream
\* delivers what the server sends.
View(action) == kind = "lines" /\ action

ViewFairness ==
  /\ WF_viewVars(View(Reset)) /\ WF_viewVars(View(ShowFirst \/ FirstFails))
  /\ WF_viewVars(View(Connect)) /\ WF_viewVars(View(OnMessage)) /\ WF_viewVars(View(Flush))

Spec == Init /\ [][Next]_vars /\ ViewFairness
=============================================================================
