---------------------------- MODULE AgentReports ----------------------------
(***************************************************************************)
(* backend/collector/agent_stats.go and agent_locate.go: the rounds that   *)
(* ask the agents of the other nodes for their containers' samples, and    *)
(* the lookups that find the node of a container by its ID, an ID prefix,  *)
(* its name or its task.  A faulty node's agent may report any container   *)
(* as its own, and tell the swarm that its task is any container.          *)
(*                                                                         *)
(* Lookups and rounds interleave; the task list is read with no lock held. *)
(***************************************************************************)
EXTENDS Naturals

CONSTANTS
    Node,           \* the other nodes, each with a known agent
    Faulty,         \* those whose reports may be wrong
    FaultyReports,  \* what they may report
    Task, Container,
    TaskNode,       \* where the swarm placed each task: a task never moves
    Prefix,         \* prefixes of container IDs
    PrefixOf,       \* per container, its prefix
    Bare,           \* the name of every standalone container: names are unique per node only
    Reader,         \* concurrent lookups
    None,
    Conflict,       \* the mark of a key that agents reported differently
    MaxRounds       \* bound: rounds of samples

ASSUME ReportsAssumption ==
    /\ Faulty \subseteq Node
    /\ TaskNode \in [Task -> Node]
    /\ PrefixOf \in [Container -> Prefix]
    /\ None \notin Node \union Task \union Container
    /\ Conflict \notin Node \union Task \union {None}
    /\ MaxRounds \in Nat

NameOf(t) == <<"name", t>>              \* {service}.{slot}.{taskID}
TaskName == {NameOf(t) : t \in Task}
SampleName == TaskName \union {Bare}
ContainerID == Container \union Prefix

\* What may be a container ID is neither a task ID nor the name of a task's container,
\* and there is no ID that stands for none.
ASSUME IdAssumption ==
    /\ ContainerID \intersect (Task \union TaskName) = {}
    /\ None \notin ContainerID \union SampleName

Id == ContainerID \union Task \union SampleName
Sample == [id : Container, name : SampleName, task : Task \union {None}]

ASSUME FaultyAssumption == FaultyReports \subseteq SUBSET Sample

VARIABLES
    listed,     \* the tasks in the swarm's list
    status,     \* per task, the container its node says it has, or None
    standalone, \* per standalone container, its node
    rounds,     \* how many rounds began
    running,    \* a round is in progress
    asked,      \* the agents still to answer it
    answers,    \* the samples each of the others reported in it
    round,      \* the claims the round has collected
    owners, names, tasks, placements,   \* as in AgentPool
    lookup      \* per handler, its lookup

swarmVars == <<listed, status, standalone>>
roundVars == <<rounds, running, asked, answers, round>>
poolVars == <<owners, names, tasks, placements>>
reportsVars == <<swarmVars, roundVars, poolVars, lookup>>

NoClaims == [k \in Id |-> None]
NoRound == [owners |-> NoClaims, names |-> NoClaims, tasks |-> NoClaims,
            containers |-> NoClaims, tasksBy |-> NoClaims]

\* A lookup that holds no answer of the task list.
LookupAt(pc, id, task, node) == [pc |-> pc, id |-> id, task |-> task, answer |-> {}, node |-> node]
Idle == LookupAt("idle", None, None, None)

ReportsInit ==
    /\ listed = Task
    /\ status = [t \in Task |-> None]
    /\ standalone \in {f \in [Container -> Node \union {None}] :
           \A c, d \in Container : c # d /\ f[c] = f[d] => f[c] = None}
    /\ rounds = 0 /\ running = FALSE /\ asked = {} /\ answers = [n \in Node |-> {}]
    /\ round = NoRound
    /\ owners = NoClaims /\ names = NoClaims /\ tasks = NoClaims
    /\ placements = [t \in Task |-> None]
    /\ lookup = [h \in Reader |-> Idle]

----------------------------------------------------------------------------
(* A round of samples.                                                     *)

ClaimForgets(claimed, values) ==    \* mutant: a conflict leaves the key free
    LET all == ({claimed} \union values) \ {None}
    IN  IF \E v \in all : all = {v} THEN CHOOSE v \in all : TRUE ELSE None

\* A key with the claim `claimed' after `values' were claimed for it too, in any order.
Claim(claimed, values) ==
    LET all == ({claimed} \union values) \ {None}
    IN  IF all = {} THEN None
        ELSE IF \E v \in all : all = {v} THEN CHOOSE v \in all : TRUE
        ELSE Conflict

\* Claims after those of pairs of a key and a value.
ClaimAll(claims, pairs) ==
    [k \in Id |-> Claim(claims[k], {p[2] : p \in {p \in pairs : p[1] = k}})]

\* The round's claims after all those of a report of node n.
ClaimReport(n, report) ==
    LET tasked == {s \in report : s.task # None}
        others == report \ tasked
        keys(s) == {s.id, s.name, s.task}
    IN  [containers |-> ClaimAll(round.containers, {<<s.id, n>> : s \in report}),
         tasksBy |-> ClaimAll(round.tasksBy, {<<s.task, n>> : s \in tasked}),
         tasks |-> ClaimAll(round.tasks, UNION {keys(s) \X {s.task} : s \in tasked}),
         owners |-> ClaimAll(round.owners, {<<s.id, n>> : s \in others}),
         names |-> ClaimAll(round.names, {<<s.name, n>> : s \in others})]

\* What runs on a node, and what a faulty one may say does.
Running(n) ==
    {[id |-> status[t], name |-> NameOf(t), task |-> t] :
        t \in {t \in listed : TaskNode[t] = n /\ status[t] # None}}
    \union {[id |-> c, name |-> Bare, task |-> None] :
        c \in {c \in Container : standalone[c] = n}}

Reports(n) == IF n \in Faulty THEN FaultyReports ELSE {Running(n)}

BeginRound ==
    /\ ~running /\ rounds < MaxRounds
    /\ running' = TRUE
    /\ rounds' = rounds + 1
    /\ asked' = Node
    /\ UNCHANGED <<swarmVars, answers, round, poolVars, lookup>>

\* Whether another node also reported the sample's container or task.
ReportedByOthers(r, s) ==
    \/ r.containers[s.id] = Conflict
    \/ s.task # None /\ r.tasksBy[s.task] = Conflict

\* The samples the round returns, with their nodes.
Samples == {p \in Node \X Sample : p[2] \in answers[p[1]] /\ ~ReportedByOthers(round, p[2])}

\* The round's claims become the pool's, and placements of tasks no longer sampled go.
Publish(r) ==
    /\ owners' = r.owners /\ names' = r.names /\ tasks' = r.tasks
    /\ placements' = [t \in Task |-> IF r.tasks[t] = None THEN None ELSE placements[t]]

\* An agent's samples arrive and are claimed under the round's lock, or its request
\* fails.
AgentAnswers(n) ==
    /\ n \in asked
    /\ asked' = asked \ {n}
    /\ \E report \in Reports(n) \union {{}} :
        /\ answers' = [answers EXCEPT ![n] = report]
        /\ round' = ClaimReport(n, report)
    /\ UNCHANGED <<swarmVars, rounds, running, poolVars, lookup>>

\* All have answered.
EndRound ==
    /\ running /\ asked = {}
    /\ running' = FALSE
    /\ Publish(round)
    /\ round' = NoRound /\ answers' = [n \in Node |-> {}]
    /\ UNCHANGED <<swarmVars, rounds, asked, lookup>>

\* A round for which no agent is known: nothing is sampled.
EmptyRound ==
    /\ ~running /\ rounds < MaxRounds
    /\ rounds' = rounds + 1
    /\ Publish(NoRound)
    /\ UNCHANGED <<swarmVars, running, asked, answers, round, lookup>>

----------------------------------------------------------------------------
(* A lookup.                                                               *)

TaskIDOfName(id) == IF \E t \in Task : id = NameOf(t) THEN CHOOSE t \in Task : id = NameOf(t) ELSE id

Goto(h, pc) == lookup' = [lookup EXCEPT ![h].pc = pc]
Return(h, n) == lookup' = [lookup EXCEPT ![h] = LookupAt("done", lookup[h].id, None, n)]

SampledTaskUnchecked(id) ==     \* mutant: a name goes by any task it was sampled with
    IF id \notin ContainerID /\ tasks[id] \in Task THEN tasks[id] ELSE None

\* The task a name or task ID was last sampled with, if that is its task.
SampledTask(id) ==
    IF id \notin ContainerID /\ tasks[id] \in Task /\ TaskIDOfName(id) = tasks[id]
    THEN tasks[id] ELSE None

BeginLookup(h, id) ==
    /\ lookup[h].pc \in {"idle", "done"}
    /\ lookup' = [lookup EXCEPT ![h] =
           LookupAt(IF SampledTask(id) # None THEN "placement" ELSE "owner", id, SampledTask(id), None)]
    /\ UNCHANGED <<swarmVars, roundVars, poolVars>>

\* The cached placement, if there is one.
ReadPlacement(h) ==
    /\ lookup[h].pc = "placement"
    /\ IF placements[lookup[h].task] # None
       THEN Return(h, placements[lookup[h].task])
       ELSE Goto(h, "list")
    /\ UNCHANGED <<swarmVars, roundVars, poolVars>>

\* What the task list says: the tasks of each node and their containers.
TaskList == {[task |-> t, node |-> TaskNode[t], container |-> status[t]] : t \in listed}

\* The task list is read; when it cannot be, the container is not located.
ListTasks(h) ==
    /\ lookup[h].pc \in {"list", "owner"}
    /\ \/ lookup' = [lookup EXCEPT ![h].answer = TaskList,
                                   ![h].pc = IF @ = "list" THEN "store" ELSE "claims"]
       \/ Return(h, None)
    /\ UNCHANGED <<swarmVars, roundVars, poolVars>>

\* Mutant: the placement is stored whether or not the task is still sampled.
StorePlacementAlways(h) ==
    LET entry == {e \in lookup[h].answer : e.task = lookup[h].task}
    IN  /\ lookup[h].pc = "store"
        /\ IF entry = {} THEN Goto(h, "owner")
           ELSE \E e \in entry : Return(h, e.node)
        /\ placements' = [t \in Task |->
               IF \E e \in entry : e.task = t /\ e.container # None
               THEN TaskNode[t] ELSE placements[t]]
        /\ UNCHANGED <<swarmVars, roundVars, owners, names, tasks>>

\* The placement listed is the answer, and is cached if the task has a container and is
\* still sampled.  A task not listed is looked up as an owner.
StorePlacement(h) ==
    LET entry == {e \in lookup[h].answer : e.task = lookup[h].task}
    IN  /\ lookup[h].pc = "store"
        /\ IF entry = {} THEN Goto(h, "owner")
           ELSE \E e \in entry : Return(h, e.node)
        /\ placements' = [t \in Task |->
               IF tasks[t] # None /\ \E e \in entry : e.task = t /\ e.container # None
               THEN TaskNode[t] ELSE placements[t]]
        /\ UNCHANGED <<swarmVars, roundVars, owners, names, tasks>>

MatchesId(c, id) == c # None /\ (c = id \/ PrefixOf[c] = id)

\* The nodes the list names for an ID: of its task, or of tasks with its container.
ListedNodes(answer, id) ==
    {e.node : e \in {e \in answer : \/ e.task = TaskIDOfName(id)
                                    \/ id \in ContainerID /\ MatchesId(e.container, id)}}

TheOnly(s) == IF \E n \in s : s = {n} THEN CHOOSE n \in s : TRUE ELSE None
OwnerFromTasks(answer, id) == TheOnly(ListedNodes(answer, id))

\* What the last round's standalone containers say of an ID: their nodes, or Conflict.
StandaloneMatches(id) ==
    ({owners[id], names[id]}
     \union (IF id \in ContainerID THEN {owners[c] : c \in {c \in Container : MatchesId(c, id)}}
             ELSE {})) \ {None}

StandaloneClaim(id) ==
    IF StandaloneMatches(id) \subseteq Node THEN TheOnly(StandaloneMatches(id)) ELSE None

\* A task's container that another node reports as a standalone one.
Contradicted(id, owner) ==
    id \in ContainerID /\ StandaloneMatches(id) # {} /\ StandaloneClaim(id) # owner

ReadClaims(h) ==
    LET id == lookup[h].id
        owner == OwnerFromTasks(lookup[h].answer, id)
    IN  /\ lookup[h].pc = "claims"
        /\ Return(h, IF owner = None THEN StandaloneClaim(id)
                     ELSE IF Contradicted(id, owner) THEN None ELSE owner)
        /\ UNCHANGED <<swarmVars, roundVars, poolVars>>

----------------------------------------------------------------------------

\* External: a task's container is created, as its node tells; a faulty one tells anything.
StartContainer(t, c) ==
    /\ t \in listed /\ status[t] = None
    /\ TaskNode[t] \notin Faulty =>
        standalone[c] = None /\ \A u \in Task : TaskNode[u] \notin Faulty => status[u] # c
    /\ status' = [status EXCEPT ![t] = c]
    /\ UNCHANGED <<listed, standalone, roundVars, poolVars, lookup>>

\* External: the swarm forgets a task.
RemoveTask(t) ==
    /\ t \in listed
    /\ listed' = listed \ {t}
    /\ UNCHANGED <<status, standalone, roundVars, poolVars, lookup>>

ReportsNext ==
    \/ BeginRound \/ EndRound \/ EmptyRound \/ \E n \in Node : AgentAnswers(n)
    \/ \E h \in Reader :
        \/ \E id \in Id : BeginLookup(h, id)
        \/ ReadPlacement(h) \/ ListTasks(h) \/ StorePlacement(h) \/ ReadClaims(h)
    \/ \E t \in Task : RemoveTask(t) \/ \E c \in Container : StartContainer(t, c)

ReportsSpec == ReportsInit /\ [][ReportsNext]_reportsVars

----------------------------------------------------------------------------

Claims(values) == [Id -> values \union {None, Conflict}]
Listing == [task : Task, node : Node, container : Container \union {None}]
Lookup == [pc : {"idle", "placement", "list", "store", "owner", "claims", "done"},
           id : Id \union {None}, task : Task \union {None}, answer : SUBSET Listing,
           node : Node \union {None}]

ReportsTypeOK ==
    /\ listed \subseteq Task
    /\ status \in [Task -> Container \union {None}]
    /\ standalone \in [Container -> Node \union {None}]
    /\ rounds \in 0 .. MaxRounds /\ asked \subseteq Node /\ running \in BOOLEAN
    /\ answers \in [Node -> SUBSET Sample]
    /\ round \in [owners : Claims(Node), names : Claims(Node), tasks : Claims(Task),
                   containers : Claims(Node), tasksBy : Claims(Node)]
    /\ owners \in Claims(Node) /\ names \in Claims(Node) /\ tasks \in Claims(Task)
    /\ placements \in [Task -> Node \union {None}]
    /\ lookup \in [Reader -> Lookup]

\* What is claimed for a key is what all reports of the round say of it, or the mark of a
\* conflict, in whatever order the agents answered (agent_stats.go:43-87, 120-128).
Said(values) ==
    IF values = {} THEN {None} ELSE IF \E v \in values : values = {v} THEN values ELSE {Conflict}
ClaimsExact ==
    \A k \in Id :
        /\ round.containers[k] \in Said({n \in Node : \E s \in answers[n] : s.id = k})
        /\ round.tasksBy[k] \in Said({n \in Node : \E s \in answers[n] : s.task = k})
        /\ round.tasks[k] \in Said({t \in Task : \E n \in Node : \E s \in answers[n] :
                                       s.task = t /\ k \in {s.id, s.name, t}})
        /\ round.owners[k] \in Said({n \in Node : \E s \in answers[n] : s.task = None /\ s.id = k})
        /\ round.names[k] \in Said({n \in Node : \E s \in answers[n] : s.task = None /\ s.name = k})

\* The samples shown of a container, and of a task, are all of one node: "a container runs
\* on one node and a task on one node" (agent_stats.go:109-110).
ShownForOneNode ==
    \A p, q \in Samples :
        \/ p[2].id = q[2].id
        \/ p[2].task # None /\ p[2].task = q[2].task
        => p[1] = q[1]

\* Placements are cached of tasks of the last round only (agent_pool.go:135-136), whatever
\* lookups were under way when a round ended: the cache does not grow with past tasks.
PlacementsSampled == \A t \in Task : placements[t] # None => tasks[t] # None

\* A name or task ID of a task the swarm lists is located on its node or not at all,
\* whatever agents report.
LocatedOnItsNode ==
    \A h \in Reader :
        LET t == TaskIDOfName(lookup[h].id)
        IN  lookup[h].pc = "done" /\ t \in listed => lookup[h].node \in {TaskNode[t], None}

\* What lookups use and what they answer is right, and no container's stats are shown for
\* another node's, however rounds, answers of a faulty agent and lookups overlap.
LookupsSafe == ClaimsExact /\ ShownForOneNode /\ PlacementsSampled /\ LocatedOnItsNode
=============================================================================
