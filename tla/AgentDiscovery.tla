--------------------------- MODULE AgentDiscovery ---------------------------
(***************************************************************************)
(* backend/collector/agent_pool.go: how the server finds the agents of a   *)
(* swarm's nodes.  A refresh resolves the agents' DNS name, asks every     *)
(* address which node it runs on, and takes its word only if the swarm     *)
(* lists a running task on that node with that address.  Lookups, requests *)
(* and the task list can each fail.                                        *)
(*                                                                         *)
(* Left out: the time between refreshes, and Tasks unset (no swarm to ask, *)
(* claims are taken as they are).                                          *)
(***************************************************************************)
EXTENDS Naturals, FiniteSets

CONSTANTS
    Node,           \* the swarm's nodes
    Addr,           \* agent addresses, in the order they are sorted
    Faulty,         \* addresses that may name any node, or none of the swarm's
    Unknown,        \* such a node
    None,
    MaxMoves,       \* bound: agent tasks that start, stop or change address
    MaxFaults       \* bound: requests and task lists that fail

ASSUME DiscoveryAssumption ==
    /\ Addr \subseteq Nat /\ Faulty \subseteq Addr
    /\ Unknown \notin Node /\ None \notin Node \union Addr \union {Unknown}
    /\ MaxMoves \in Nat /\ MaxFaults \in Nat

Claim == Node \union {Unknown, None}

VARIABLES
    runs,       \* per address, the node whose agent task has it
    moves, faults,
    stage,      \* the refresh: waiting, or asking for /info
    found,      \* the addresses it resolved
    asked,      \* those that answered or failed
    infos,      \* the nodes they named
    agents,     \* per node, its agent's address
    resolved,   \* the addresses of the last refresh
    verified,   \* per address, the node the swarm confirmed
    history     \* history: every pair of address and node that was true

envVars == <<runs, moves, history>>
poolVars == <<agents, resolved, verified>>
discoveryVars == <<envVars, faults, stage, found, asked, infos, poolVars>>

NoInfos == [a \in Addr |-> None]

DiscoveryInit ==
    /\ runs \in [Addr -> Node \union {None}]
    /\ moves = 0 /\ faults = 0
    /\ history = {<<a, runs[a]>> : a \in Addr}
    /\ stage = "waiting"
    /\ found = {} /\ asked = {} /\ infos = NoInfos
    /\ agents = [n \in Node |-> None]
    /\ resolved = {}
    /\ verified = NoInfos

----------------------------------------------------------------------------

\* The addresses the DNS name has: none, authoritatively, when no agent runs.
Resolve == {a \in Addr : runs[a] # None}

\* A refresh is due and its lookup succeeds.  When it fails for the moment, the
\* refresh ends with no change.
BeginRefresh ==
    /\ stage = "waiting"
    /\ stage' = "asking"
    /\ found' = Resolve
    /\ asked' = {} /\ infos' = NoInfos
    /\ UNCHANGED <<envVars, faults, poolVars>>

\* What the agent at an address answers: the node it runs on, or anything.
Answers(a) == IF a \in Faulty THEN Node \union {Unknown} ELSE {runs[a]} \ {None}

\* One of the concurrent requests for /info is answered, or not.
AskInfo(a) ==
    /\ stage = "asking"
    /\ a \in found \ asked
    /\ asked' = asked \union {a}
    /\ \/ \E n \in Answers(a) : infos' = [infos EXCEPT ![a] = n] /\ faults' = faults
       \/ runs[a] = None /\ UNCHANGED <<infos, faults>>
       \/ faults < MaxFaults /\ faults' = faults + 1 /\ infos' = infos
    /\ UNCHANGED <<envVars, stage, found, poolVars>>

\* Whether a running task on node n has the address.
TaskHolds(a, n) == n # None /\ runs[a] = n

VerifyNodesTrusting(listed) ==      \* mutant: without the list, claims are taken
    [a \in Addr |-> IF infos[a] # None /\ (~listed \/ TaskHolds(a, infos[a]))
                    THEN infos[a] ELSE None]

\* Mutant: an address once confirmed is not looked up again.
VerifyNodesOnce(listed) ==
    [a \in Addr |-> IF infos[a] # None /\ (verified[a] = infos[a] \/ (listed /\ TaskHolds(a, infos[a])))
                    THEN infos[a] ELSE None]

\* The node of each address that answered, once confirmed: by the task list, or by an
\* earlier one when it cannot be read.
VerifyNodes(listed) ==
    [a \in Addr |-> IF infos[a] # None /\ IF listed THEN TaskHolds(a, infos[a])
                                          ELSE verified[a] = infos[a]
                    THEN infos[a] ELSE None]

\* The first address of each node among those verified.
FirstOf(v) ==
    [n \in Node |-> IF \E a \in Addr : v[a] = n
                    THEN CHOOSE a \in Addr : v[a] = n /\ \A b \in Addr : v[b] = n => a <= b
                    ELSE None]

\* Every request has ended: the answers are verified and the pool replaced.
EndRefresh(listed) ==
    /\ stage = "asking"
    /\ asked = found
    /\ IF listed THEN faults' = faults
       ELSE faults < MaxFaults /\ faults' = faults + 1
    /\ stage' = "waiting"
    /\ found' = {} /\ asked' = {} /\ infos' = NoInfos
    /\ verified' = VerifyNodes(listed)
    /\ agents' = FirstOf(verified')
    /\ resolved' = found
    /\ UNCHANGED envVars

----------------------------------------------------------------------------

\* The swarm starts, stops or moves an agent task: an address may be another node's next.
Move(a, n) ==
    /\ moves < MaxMoves
    /\ runs[a] # n
    /\ moves' = moves + 1
    /\ runs' = [runs EXCEPT ![a] = n]
    /\ history' = history \union {<<a, n>>}
    /\ UNCHANGED <<faults, stage, found, asked, infos, poolVars>>

DiscoveryNext ==
    \/ BeginRefresh
    \/ \E a \in Addr : AskInfo(a)
    \/ \E listed \in BOOLEAN : EndRefresh(listed)
    \/ \E a \in Addr, n \in Node \union {None} : Move(a, n)

DiscoverySpec == DiscoveryInit /\ [][DiscoveryNext]_discoveryVars

----------------------------------------------------------------------------

\* What the pool holds names nodes of the swarm only, whatever an agent claims.
DiscoveryTypeOK ==
    /\ runs \in [Addr -> Node \union {None}]
    /\ moves \in 0 .. MaxMoves /\ faults \in 0 .. MaxFaults
    /\ stage \in {"waiting", "asking"}
    /\ found \subseteq Addr /\ asked \subseteq found
    /\ infos \in [Addr -> Claim]
    /\ agents \in [Node -> Addr \union {None}]
    /\ resolved \subseteq Addr
    /\ verified \in [Addr -> Node \union {None}]
    /\ history \subseteq Addr \X (Node \union {None})

\* "An agent's word alone is not taken" (agent_pool.go:340-344): an agent the pool
\* uses for a node had its address on that node, through any sequence of task lists
\* that were read or failed and of addresses that changed hands.
ConfirmedOnly == \A n \in Node : agents[n] # None => <<agents[n], n>> \in history

\* Once the swarm is at rest and requests are answered, the pool has the agent of every
\* node that has one and no other.
TrueAgents == [n \in Node |-> {a \in Addr \ Faulty : runs[a] = n}]
FindsAgents ==
    <>[]\A n \in Node :
        /\ TrueAgents[n] # {} => agents[n] # None
        /\ agents[n] # None => runs[agents[n]] = n

=============================================================================
