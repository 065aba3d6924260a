# DockGraph: verification project

DockGraph shows the containers, networks, volumes and swarm services of a Docker host
or swarm as a live graph in a browser. A Go server polls the daemon and the Compose
files, merges what they say, and pushes snapshots and deltas to browsers over a
WebSocket; agents on the other nodes of a swarm answer signed requests for what only
their own daemon knows. This directory holds TLA+ models of the parts of that program
whose correctness depends on order, time or failure, and of the functions that decide
what the page shows, the TLC runs that check them, and
proofs of the main results with TLAPS. File names below are relative to the repository.

`PROJECT.json` is the index: the components, the source lines each definition
translates (`map`), what each run checks, for each property a mutation of the code that
breaks it, the hazards the properties are about, and the theorems.

1. [The system](#1-the-system) - components, state, interactions, what is hard
2. [The modules](#2-the-modules) - what stands for what
3. [The runs](#3-the-runs) - what is checked, within which bounds
4. [Fairness](#4-fairness)
5. [What is proved](#5-what-is-proved)
6. [Where the code does not do what it says](#6-where-the-code-does-not-do-what-it-says)
7. [What is not modelled](#7-what-is-not-modelled)
8. [Plan](#8-plan)

## 1. The system

### The graph, from the daemon to the page

```
 Docker daemon --> DockerCollector --\                                  /--> browser: useDockGraph
                  (3 goroutines)      pipeUpdates -> Manager -> pipeToHub -> Hub
 Compose files --> ComposeCollector -/               (merge,diff)       \--> browser ...
```

| Component | State | Operations | Right when |
|---|---|---|---|
| Docker collector (`backend/collector/docker.go`, `debounce.go`) | `pollMu`, task fingerprint, the updates channel, debounce timer and signal | poll (ticker, event, task poll), event watch with reconnection, Stop | snapshots never go back; an event or a task change always leads to a poll that saw it; Stop returns |
| Compose collector (`compose.go`) | watched directories, graphs parsed last, debounce, updates channel | scan, watch, handle an event, Stop | no change of a file is lost to a scan under way; at rest the graph is that of the files |
| State manager (`backend/state/manager.go`, `diff.go`) | each collector's last snapshot, merged graph, subscribers' channels | Subscribe, HandleUpdate, HandleStats | the merged graph is consistent; snapshot and deltas of a subscriber lead to it |
| Hub (`backend/api/ws.go`, `limits.go`) | clients, snapshot for newcomers, slot counts, per connection a channel and two pumps | HandleWS, writePump, readPump, Broadcast, SweepExpiredClients, Shutdown | no client misses or repeats a version; each slot is given back once; shutdown drains |
| Browser feed (`useDockGraph.ts`, `deltaUtils.ts`) | the graph, its fingerprint, the socket | connect, onmessage, onclose | the page ends up showing the merged graph |

### The other nodes of a swarm

| Component | State | Operations | Right when |
|---|---|---|---|
| Agent discovery (`agent_pool.go`) | per node the agent's address, addresses resolved and verified | Refresh: resolve, ask `/info`, verify against the task list | an address is used for a node only if the swarm placed a task there with that address |
| Agent reports (`agent_stats.go`, `agent_locate.go`) | who owns which container, name and task; placement cache | rounds of samples; lookups by ID, prefix, name, task | answers in any order give the same owners; a faulty agent cannot draw a lookup to itself |
| Agent authentication (`backend/agentauth`) | the replay cache, the agent's own addresses | Authorize, Verify | a request is accepted once; honest ones are refused only when the cache is really full |

### Signing in

| Component | State | Operations | Right when |
|---|---|---|---|
| Login limiter (`auth/ratelimit.go`, `auth/handlers.go`) | attempts per client in order of activity, one verification slot | attempt, RetryAfter, forget, cleanup | nobody is counted for more than it tried; a full table forgets the least recent; the retry time is honest |
| Sessions (`auth/jwt.go`, `session.go`, `middleware.go`) | signing key, time of the last logout | sign, verify, log out, restart | a token from before a logout or restart never gets in |

### What is kept to be read back

| Component | State | Operations | Right when |
|---|---|---|---|
| Stats history (`stats_history.go`) | series per container, sample count | record, evict, downsample, query | samples are in order, the count is exact, gauges keep their last value |
| Event history (`event_history.go`, `pipeEvents` in `main.go`) | circular buffer, event stream | Add, Recent, reconnect | Recent(n) are the last n events, newest first |
| Log view (`useLogs.ts`, served by `api/logs.go`) | the buffer of lines shown, the event stream, requests for older and for newest lines | open, close, load more, load newer, receive, scroll | the buffer is one contiguous run; no line is held back unless the view says so |

### The page

| Component | State | Operations | Right when |
|---|---|---|---|
| Scopes (`utils/stack.ts`, `useStackScope.ts`) | the stack in the URL | narrow the graph and the stats, resolve a short name | the scopes split the workloads; a name leads to its own stack's workload |
| Graph by network (`utils/graphTransform.ts`, `layout/elk*.ts`, `edgePaths.ts`) | - | draw, hand to ELK, take back, smooth the paths | every element and edge of the graph is drawn once, inside what it belongs to |
| Graph by swarm node (`utils/nodeTransform.ts`, `layout/nodeLayout.ts`, `swarmLinks.ts`, `roleSummary.ts`) | - | nest, place, link, sum up | every active task is in one box; sums agree with boxes; boxes do not overlap |
| Layout (`useGraphLayout.ts`) | the settled topology, layouts under way, what is drawn | start, cancel, finish, fail, patch | what is drawn is the graph given, once no layout is under way |
| Selection (`utils/selectionGraph.ts`, `useSelectionHighlight.ts`) | what is selected | light, fade | a lit link has its ends lit; what is gone fades nothing |
| Views (`FlowCanvas.tsx`, `useSearchFilter.ts`, `components/table/`) | view, tab, search, debounce, filters, table being followed | drill down, search, group, sort, select | a click on a count leads to the rows counted |
| Detail panel (`useDetailPanel.ts`, `useResourceDetail.ts`) | node, kind, four requests | open, close, graph changes, answers | it tells of the resource it was opened for |
| Dashboard (`components/dashboard/`, `utils/alerts.ts`, `App.tsx`) | - | list, count, chart, open | scopes add up to the page; a row opens what it is about |
| Polling (`usePollingFetch.ts`) | the answer, request and timer of a URL | poll, change URL, answer, fail | never an older answer over a newer, never another URL's |
| Canvas of the edges (`CanvasEdgeLayer.tsx`, `canvas/`, `ElkEdge.tsx`, `pathUtils.ts`) | what is drawn and where, settle timer, animation frames | draw, hide, settle, animate, hit | what is seen are the edges, where the viewport has them |
| Log windows (`logWindowsState.ts`, `LogWindow.tsx`, `useDragResize.ts`) | windows with their tabs, their depth, a gesture | open, close, move, merge, tear off | one tab per container, and every window can be reached |
| Scroll box of a log (`LogStream.tsx`) | scroll position, anchor, whether it follows, active match | lines change, scroll, wheel; search, step | what is read stays in place; following stops only for a reader who scrolls up, or a search |

Collectors, manager and hub interact through bounded channels and three locks (`pollMu`,
the manager's, the hub's); all sends that may drop (`select { ... default: }`) do so
silently. The agents are reached by HTTP. The limiter and the sessions share only the
clock. Everything on the server is in memory: a restart starts from nothing.
The parts of the page share the graph of the feed, the URL and React's state: a handler's
changes are rendered together, effects run after the render, and timers, frames and
answers come between any two of these.

What is hard: three goroutines that poll one daemon; events during a poll; a snapshot
that is read under a lock and sent after it; full channels; a client that expires, leaves
and is shut down at once; addresses that change hands; verifications that overlap with the
pruning of the cache; whole seconds and fractions of them; buckets merged a second time; answers, timers and effects of the page that were meant for
a graph, a resource or a URL it has left.
`hazards` in `PROJECT.json` lists these at their lines, with the properties about them.

## 2. The modules

The modules use the code's names. An action is what one goroutine does between two
points where another can see it: a critical section, one channel operation, one request.

| Module | Code | What is abstracted |
|---|---|---|
| `Graph` | merge, diff, the cleaning of network ids and edges | a node is a status, a network id and a source; an edge is a mount |
| `GraphView` | `applySnapshot`, `applyDelta`, `fingerprint` of the browser | the page keeps a set of nodes and of edges, duplicates included |
| `StateManager` | the manager: `Subscribe` and its return, `HandleUpdate`, `HandleStats`, a subscriber's receive; `lost` and `seen` are history | stats messages carry nothing |
| `SlotLimiter` | `slotLimiter` | - |
| `Hub` | `HandleWS` in three steps (slot; registration under the lock; snapshot and pumps), both pumps, broadcasts client by client, sweep, shutdown | pings and deadlines: a connection whose peer is gone ends |
| `Admission` | *abstract*: at most so many connections are served, none new after a shutdown | - |
| `HubFeed` | `Hub` fed by `pipeToHub` with numbered versions | a graph is its version |
| `LiveGraph` | `StateManager`, `pipeUpdates`, `pipeToHub`, `Hub` and `useDockGraph` composed | one browser; expiry and shutdown (see `HubFeed`) |
| `DockerCollector` | the collector and its three goroutines | a snapshot is the number of changes seen of each part |
| `ComposeCollector` | scans, watches and their debounce | a file's content is a version, unparsable, or absent |
| `AgentDiscovery` | a refresh of the pool | time between refreshes |
| `AgentReports` | rounds, claims, lookups, placement cache | sample values |
| `AgentAuth` | `Authorize`; `Verify` in three steps: clock and signature, own address, replay cache | encodings; requests refused before any state is read |
| `Clock` | the server's clock, which the limiter and the sessions read, in ticks, `second` of them to a second | - |
| `LoginLimiter` | the limiter, and the login handler from attempt to answer | hashing; log lines |
| `Sessions` | tokens, logout, restart, middleware | encoding |
| `StatsHistory` | the history's three tiers and its queries | one rate and one gauge stand for all |
| `EventHistory` | circular buffer and `pipeEvents` | the events' contents |
| `LogView` | `useLogs`: its main effect and the frame after it, pages, stream with its reconnections, detaching; pages and stream of `api/logs.go` | one container's log whose lines have distinct times; a page is any run that fits, as long lines shorten it; the 10000-line limit of a resumed stream; duplicates an aggregated view drops |
| `Stacks` | `stack.ts`: stacks, scopes, the stats of a scope, name resolution | a name is what it is composed of |
| `NetworkView` | `graphTransform.ts`, `elkGraph.ts`, `elk.ts`, `elkPositions.ts`, `edgePaths.ts`, `components.ts` | ELK: each element has some place in its parent; one coordinate, but for the smoothing of paths |
| `NodeView` | `nodeTransform.ts`, `nodeLayout.ts`, `swarmLinks.ts`, `roleSummary.ts`, `NodeServiceCard.tsx` | - |
| `Highlight` | `selectionGraph.ts`, `useSelectionHighlight.ts` | opacity |
| `GraphLayout` | `useGraphLayout.ts`: renders, effects and layouts as separate steps | a graph is its topology and its data |
| `DetailPanel` | `useDetailPanel.ts`, `useResourceDetail.ts` | an answer is the resource it is about |
| `FlowCanvas` | `FlowCanvas.tsx`, `useSearchFilter.ts`, the tables; extends `DetailPanel` and the views | column widths, menus |
| `Dashboard` | the dashboard's cards, `alerts.ts`, the scoping of stats in `App.tsx` | numbers' format |
| `EdgeLayer` | `CanvasEdgeLayer.tsx`, `canvas/`, `ElkEdge.tsx`, `pathUtils.ts` | whole lengths; a distance stands for a fraction |
| `PollingFetch` | `usePollingFetch.ts` with the charts' URL | an answer is a version |
| `LogWindows` | `logWindowsState.ts`, `useLogWindows.ts`, `LogWindow.tsx`, `useDragResize.ts`, dock | one pointer; only the window of a gesture has a place |
| `LogPane` | `LogStream.tsx` | rows of one height; lines without gaps (those are in `LogView`); one match to a line found |
| `RecentLog` | *abstract*: a log of which only the last `capacity` entries can be read | - |
| `*Proofs` | theorems, see section 5 | |
| `MC*` | instances for TLC | |

A word on correspondence. Where the code reads under a lock and acts after it, there are
two actions and a variable for what is carried (`gift` in `Hub`, `draft` in the
collectors, `now` in `AgentAuth`, `asked` in `Sessions`). Where the code does several
things under one lock, they are one action. A clock is a number of ticks, so that
comparisons at a boundary, and truncation to seconds (`Unix`, `Trunc`), are exact.
Variables called history in a comment exist in no code: they record what a property
needs to say of the past and guard nothing. Definitions marked "mutant" are
mutations of the definition that follows them and are used by no specification; each
property has one that breaks it.

## 3. The runs

Twelve runs. Parts that share no state are checked side by side in one run: a variable
says which of them a behaviour exercises, and the others rest in one initial state, so
the reachable states are the sum of theirs and not the product.

| Run | Parts | Properties |
|---|---|---|
| `hub` | HubFeed | `SlotAccounting`, `NoVersionMissed`, refinement `ImplementsAdmission` |
| `hub_liveness` | HubFeed, fair | `ShutdownDrains`, `ConnectionsEnd` |
| `live_graph` | StateManager alone; LiveGraph, fair | `MergedWellFormed`, `FeedsChain` (and `TypeOK`); `PageFollows`, `PageCatchesUp` |
| `docker_collector` | DockerCollector | `NothingForgotten`, `NoRollback` |
| `docker_liveness` | DockerCollector, fair | `CatchesUp`, `StopReturns` |
| `collectors` | ComposeCollector, AgentDiscovery, fair | `NoChangeForgotten`; `ConfirmedOnly`; `CollectorsCatchUp` |
| `access` | AgentAuth, LoginLimiter, Sessions | `ReplayRefused`, `RefusedJustly`; `LimiterHonest`; `AcceptedJustly`, `EndedForGood` |
| `history` | AgentReports, StatsHistory, EventHistory, LogView (the last fair) | `LookupsSafe`; `HistorySound`; `RecentIsNewest`, refinement `ImplementsLog`; `ViewSound`, `ReachesNewest` |
| `page` | the modules of the page; GraphLayout fair | of graphs, paths and texts: `ScopesSound`, `GraphDrawn`, `LitSound`, `DashboardAgrees`, `MarksSound`; of what runs: `PanelTellsItsOwn`, `DrillDownShowsCounted`, `CanvasShowsTopology`, `LayoutEnds`, `EdgesCurrent`, `OneStreamEach`, `PollsInOrder`, `PaneHolds` |
| `live_snapshot` | LiveGraph | `SnapshotShown` is violated, section 6 |
| `compose_rename` | ComposeCollector | `RenamesShown` is violated, section 6 |
| `log_run` | LogView | `OneRun` is violated, section 6 |

Deadlock is not checked: every model may stop, when its bound on inputs is reached or
its process has ended.

### Bounds, and why they are enough

- **hub**: three connections, two of them of one client address, against limits of two
  in all and one per address, so both limits bind; channels of 2. The state constraint
  `TwoScenes` explores two parts: any number of sessions that expire, statistics aside and
  no state broadcast; and a feed of two versions to two connections that stay. Their
  product holds nothing that one of them does not: broadcasts and expiry meet only in
  the channel, which both parts fill. `WireCap` is never reached, so no writer waits for ever.
- **hub_liveness**: one connection, for a temporal property about one connection depends
  on others only through the slots, which `hub` covers.
- **live_graph**: the manager alone, with a container, a network and the edge between them; Docker offers
  nothing, the container alone (naming the network), or all; Compose offers a graph with
  an edge to a network it does not hold, or all with another mount. These are the ways
  the graphs of two collectors can overlap, override and dangle. Updates are unbounded;
  a channel of 2 fills up. Then the whole pipeline: two connections one after the other,
  capacities of the hub 1, two updates (three in `live_snapshot`, where the third is the
  one skipped).
- **docker_collector**: a swarm manager with its three goroutines, two local changes,
  one of tasks, one failure. Two changes let one fall before and one into a poll; the
  failure can hit a poll or the event stream. `docker_liveness`: a single host.
- **collectors**: a file in the configured directory and one in a directory made later;
  three edits, one failed scan. Two nodes, two addresses, one of them of an agent that
  may answer anything; two moves, two failed requests or lists.
- **access**: three nonces against a cache of two that is pruned at one, a window of one
  tick, two verifications at a time that may take a tick each, three ticks: a nonce is kept,
  expires, and its place is used again, and a verification that read the last tick its request
  is acceptable in overlaps one that prunes with a later clock. Logins: limit 2 in a window of 3 ticks, 2 ticks to the second, a
  table of 2 for 3 clients, in two scenes: a crowd whose logins come one at a time
  (eviction), two clients with concurrent logins (the slot and withdrawals). Sessions of
  2 ticks, with a restart.
- **history**: two nodes of which one is faulty and reports up to two samples, each with a
  task, one container; the
  second round is one that finds no agent (`EmptyRound`), which is how placements are
  forgotten. Statistics of two containers, 4 samples kept, buckets of 2 ticks, 5 ticks:
  every bucket is squeezed, and merged again. Four events into a buffer of 3: it wraps.
  A log of 5 lines, pages of 2, a buffer of 3: live lines push lines out at one
  end and an older page at the other. One broken stream, one time the view is
  reopened.

- **page**: a variable `scene` says which part a behaviour is about. Six kinds of scene
  are a state each: two workloads in two networks, one of them possibly gone, with any
  subset of six edges (a network joined by two, a volume shared, a dependency); two
  services of up to two tasks on a manager and two workers, one down, one task on a node
  that is gone; paths of up to five strokes (corners, U-turns and their removal need
  four); a container and another workload of any name form in two stacks, the name of one of
  which goes on from that of the other; a service with a task and
  containers with stats of any of their keys; a line of up to
  three letters, one of up to one, and a query of up to two (overlapping matches need three),
  over two cases of a letter, another letter and one that becomes two in lower case. In the others one machine runs:
  the panel over two graphs, one of which lacks a resource or has it as a ghost; four
  changes of three topologies, with any number of layouts under way; three windows of
  three containers, once with what is typed and moves, once with moves and sizes but no
  typing, from one place, by two shifts and with one handle; three sets of edges, three
  viewports and two sizes; two scopes of a poll and two versions; a log of five lines in
  a box given at most four, in which a banner is higher than a row, and the slack at the
  bottom is less than a banner, and a search, if there is one, finds the second line and the
  fourth, so that it has up to two matches, gains one and loses one.

Symmetry is used in `hub` and `access`, which check no liveness, over connections of one
address, nonces, verifications, the two clients that log in concurrently, visitors and
logins, none of which the definitions tell apart.

## 4. Fairness

Fairness is assumed of goroutines and of the browser's handlers, never of what a user,
a network, a daemon or a swarm does.

- `WF` of a goroutine's step: the Go scheduler runs every goroutine that can run.
- `SF` of `Lock(p)`: `sync.Mutex` hands the lock to a waiter that has waited for 1 ms.
- `SF` of the cases of a `select` (`ReceiveEvent`, `Notified`, `StreamError`,
  `Subscribe`, `HandleEvent`, `Exit`): among cases that are ready again and again, Go's
  random choice takes each.
- A query of the daemon returns or fails, since it has a timeout; how often it fails is
  bounded, since otherwise nothing is ever shown.
- `SweepExpiredClients` has `WF`: a ticker starts it every 30 seconds. It begins only
  when the connections of the last sweep are closed, 100 ms after it.
- The effects of a render run, and a layout, which is a computation of the page's own,
  ends or fails (`PageFairness`). Nothing is assumed of the graph: `LayoutEnds` speaks of
  one that comes to rest.
- The log view's handlers and animation frames run, its request for the first page
  ends, and an open stream delivers what the server sends (`ViewFairness`). Nothing is
  assumed of the requests for older and for newest lines, nor of the reader.
- `PromptHandlers` (TRUE in `hub_liveness` alone): a handler gets from its critical
  section to the send of its snapshot before `SendCap` messages (32 in the code) were
  broadcast to its channel. Without it the send blocks for ever, for nobody reads the
  channel yet, and `ConnectionsEnd` and `ShutdownDrains` are false; the safety runs do not
  assume it.

## 5. What is proved

TLAPS checks the following for every value of the constants that satisfies the
assumptions declared with them; each run evaluates the assumptions of its modules.

| Theorem | Says | Assumptions |
|---|---|---|
| `LiveGraphProofs!TypeCorrect` | types of the manager; no channel exceeds its capacity | `GraphAssumption`, `ManagerAssumption` |
| `LiveGraphProofs!MergedConsistent` | whatever the collectors send, no network id without its network, no edge without both ends | same |
| `LiveGraphProofs!FeedsCorrect` | what a subscriber that lost nothing has still to receive leads from what it saw to the merged graph | same |
| `LiveGraphProofs!LiveInvHolds` | the invariant of the whole way from the collectors to the page | same, and `LiveAssumption` |
| `LiveGraphProofs!PageLed` | the messages on their way to a page that lost nothing take it to the merged graph (`PageFollows`) | same |
| `HubProofs!TypeCorrect` | types of hub and feed; no client's channel exceeds its capacity | `HubAssumption`, `FeedAssumption` |
| `HubProofs!SlotsAccounted` | the slots counted are those of the connections that hold one (`SlotAccounting`) | same |
| `HubProofs!AdmissionImplemented` | the hub implements `Admission`: limits kept, nobody new after a shutdown | same |
| `HubProofs!VersionsKept` | a client nothing was dropped for has every version since it registered, once and in order (`NoVersionMissed`) | same |
| `DockerCollectorProofs!TypeCorrect` | types; the updates channel keeps its capacity | `CollectorAssumption` |
| `DockerCollectorProofs!ChangesKept` | no change of the daemon is forgotten (`NothingForgotten`) | same |
| `DockerCollectorProofs!SnapshotsInOrder` | snapshots never go back (`NoRollback`, an action property) | same |
| `CollectorsProofs!ComposeTyped` | types; the updates channel keeps its capacity | `ComposeAssumption` |
| `CollectorsProofs!ComposeKept` | no change of a file in a watched directory is lost (`NoChangeForgotten`) | same |
| `CollectorsProofs!DiscoveryTyped` | types of the agent pool | `DiscoveryAssumption` |
| `CollectorsProofs!AgentsConfirmed` | an address the pool uses for a node was that node's agent's (`ConfirmedOnly`) | same |
| `AgentProofs!CacheKeeps` | the cache holds every accepted nonce while its timestamp is acceptable | `AuthAssumption` |
| `AgentProofs!CacheStaysBounded` | it never exceeds its maximum | same |
| `AgentProofs!NoReplay` | a request delivered again is refused, unless its time ran out while it was verified (`ReplayRefused`, an action property) | same |
| `AgentProofs!NoUnjustRefusal` | what passed every other check is refused only if it was accepted before, or the cache is full of what is still acceptable (`RefusedJustly`, an action property) | `AuthAssumption` |
| `AgentProofs!ReportsTyped` | types of rounds, lookups and the placement cache | `ReportsAssumption` |
| `AgentProofs!LookupsRight` | whatever faulty agents answer and however rounds and lookups overlap, claims are exact, a container is shown for one node, a listed task is located on its node or nowhere, placements do not pile up (`LookupsSafe`) | same, `IdAssumption`, `FaultyAssumption` |
| `SignInProofs!TypeCorrect` | types | `ClockAssumption`, `SessionsAssumption` |
| `SignInProofs!OnlyLiveTokens` | an accepted token is of this process, issued after the last logout and within a session's length | same |
| `SignInProofs!NoSessionReturns` | a refused token stays refused (an action property) | same |
| `SignInProofs!LimiterTyped` | types of the limiter; the table keeps its bound | `ClockAssumption`, `LimiterAssumption` |
| `SignInProofs!LimiterIsHonest` | no client is counted for what it did not try or forgotten before a less recent one, and one that comes back when told to is let in (`LimiterHonest`) | same |
| `HistoryProofs!StatsTyped` | types of the three tiers | `StatsAssumption` |
| `HistoryProofs!HistoryStaysSound` | what the history keeps, squeezed and squeezed again, stands for what was recorded, and a query's points for what lies in its range (`HistorySound`) | same |
| `HistoryProofs!BufferImplementsLog` | the circular buffer implements `RecentLog`, for every capacity | `HistoryAssumption` |
| `HistoryProofs!RecentIsRight` | `Recent(n)` are the last n, newest first | same |
| `PageProofs!LayoutTypes` | types of the layout hook | `LayoutAssumption` |
| `PageProofs!CanvasFollows` | what is drawn follows the graph given, for any topologies and number of layouts | same |
| `PageProofs!PollsKeepOrder` | no older answer over a newer, none of another URL (`PollsInOrder`) | none |
| `PageProofs!LogIsOneRun` | the log view's buffer is one contiguous run (`ViewSound`), for every length, page and buffer | `ViewAssumption` |
| `PageProofs!OneTabEach` | one tab a container, one depth a window, each tab its own search, title bars within reach (`OneStreamEach`), for any number of windows | `WindowsAssumption` |
| `PageProofs!PanelTells` | the panel shows an answer about what it is open on, whatever the order of the answers (`PanelTellsItsOwn`) | none |
| `PageProofs!EdgesStayCurrent` | once no frame is due, the canvas shows the edges, the viewport and the size there are (`EdgesCurrent`) | `EdgesAssumption` |
| `PageProofs!PaneStays` | what a reader looks at stays where it is until they or a search move the box, and only they or a search end the following (`PaneHolds`) | `PaneAssumption` |
| `PageProofs!ScopesAreWhole` | each workload is in one scope, its own, with its network, its mounts and its memberships, and a scope holds no edge without its ends (`ScopesSplit`), for any proper graph | `StacksAssumption` |
| `PageProofs!NamesStayHome` | a short name used in a stack that has such a workload leads to one called exactly so or named after the stack, and to the same-named one of another stack only where that stack's name goes on from this one's (`RefsStayHome`), for any proper graph, stacks and spellings | names are sequences of words, a short name is no task container's |
| `PageProofs!SelectionStaysLit` | a lit link has its ends lit, what is lit has its groups lit, but for those around the selected element, and a selection that is gone fades nothing (`LitClosed`), for elements nested at any depth, any edges and any selection | elements `Nested`, edges `ProperEdges` |

The assumptions say that capacities are at least one, that absence markers are not values,
and what kind of set or function a constant is. Some say more. `LiveAssumption` says that the manager has one subscriber, for
`main.go:259` is the one call of `Subscribe`, and that no connection is the marker `Nil`.
`IdAssumption` says that what can be a container's id is neither a task's id nor a task's name, which
differ in form; `EdgesAssumption`, that a path is made of straight strokes, as ELK's orthogonal router
draws them, and that a zoom is positive. `StacksAssumption` says that the name of the scope of what
has no stack is not the absent name.

The last three theorems are about operators, and say what they ask of a graph: `ProperGraph`, that an
id is of one node and what an edge of a type joins; `Nested`, that a group is drawn before what is in it,
which makes the groups a forest; `ProperEdges`, that an id is of one edge. The `page` run checks
that the drawings of its graphs are so, in both groupings. A page that lost a message may hold a
node twice for a while (`GraphView`); of such a graph they say nothing.

The arguments.

**State manager.** `MergedWellFormed` and `FeedsChain` are not inductive by themselves.
The invariant is `TypeOK /\ MergedWellFormed /\ NewUntouched /\ FeedsChain`, where
`NewUntouched` says that a subscription not made yet has an empty channel, and has seen
and lost nothing. The work is in lemmas on the operators of `Graph`: a merge of any
two graphs is well formed (its last two passes make it so, whatever came before), and
applying `diffSnapshots(old, new)` to `old` gives `new` up to what the diff compares. The
preservation proof then extends a chain by one element, or drops it when it is full and
marks the subscriber as having lost.

**The way to the page.** `PageFollows` speaks of a page that has shown its first snapshot.
`LiveInv` says what has to be so before: `ManagerFirst`, a snapshot is only ever the first
message of the manager's channel, and the hub's copy for newcomers is what the pipe has
seen; `Stages`, what a connection can hold at each stage of its handler; and `Fed`, that
what is on the way (in the page's connection, its channel, the broadcast under way and the
manager's channel) leads to the merged graph from the snapshot that the handler is
still to send, or from the first one in the queue, or from what the page shows,
whichever of the three stages the page is in. One lemma shows how a message moves through
each place without changing the sequence, `LeadsOn` how the sequence grows by a delta at
its end, and `ReplayCovers` that what the page computes by replaying the sequence, with its
own overlay of duplicates, is what `Leads` says. The last is an induction over the
messages' number, stated for a set of numbers (`CountUp`), which is how an induction is
possible here.

**Hub.** `HubInv` adds to the types and to `SlotAccounting` that a connection's pumps start
last and that clients, broadcasts and the sweep know registered connections only
(`Staged`): otherwise a pump that exits, or a sweep, might give back a slot the
handler still holds. The refinement of `Admission` counts the holders with lemmas on
cardinalities. `FeedInv` keeps for each client what was offered to it and what it has got
(`Got`, `Offered`): the snapshot kept for newcomers, a handler's copy of it and the broadcast under
way are of the versions they should be (`Sources`), and a client's queue holds the versions
since its registration in order, but for the one being broadcast if it is still to
come (`FitsNow`).

**Docker collector.** `NothingForgotten` speaks of the task fingerprint and of what is
pending. `CollectorInv` adds who holds `pollMu` and what that goroutine has read: a draft is
of versions between the last snapshot sent and the daemon's (`Drafted`, `SentSeen`), only the
holder has one (`Locked`), and the loops run only after the first poll (`Started`).
`NoRollback` follows, for the next snapshot is the draft of the holder of the lock.

**Compose collector, discovery.** `ComposeInv` says of every file in a watched directory
that what was parsed last is on disk, or that something is under way that will read
it again (an event, a signal, a timer, a scan that has not reached it). `DiscoveryInv` says that
what the pool believes was true of the swarm once, step by step from the resolved address
to the verified node and to the pool.

**Replay cache.** The invariant ties each handler's view to the present: a handler that
read the clock at `now` may prune later, so what it prunes has to be unacceptable at
`now <= clock` already (`HandlersHold`); every accepted nonce belongs to a
signed request (`AcceptedSigned`), nonces name requests (`NonceNames`), and the cache
holds them (`KeptWhileAcceptable`) within its bound. None of this depends on how long a
verification takes. `NoReplay` follows: while its timestamp is acceptable, the nonce of
what was accepted is found. It says nothing of a request whose time runs out while it is
verified: see `verify.go:73` in section 6.

That a refusal is just (`NoUnjustRefusal`) is the converse: what the cache holds was accepted
(`SeenAccepted`), and a cache found full after pruning at `now` is full of nonces acceptable at
`now` (`FullOfAcceptable`), since pruning leaves nothing else.

**Agent reports.** A claim built value by value, over any split of the reports into answers, is the
claim of all the values: nothing, the one value, or a conflict (`ClaimAllAdds`). So the claims
of a round are functions of what all agents answered (`RoundClaims`), which nothing outside the
round changes. `PlacementsHold` says that a cached placement is the swarm's own and of a
task of the last round; `LookupsHold`, for each point at which a lookup can be, what it has
read so far and what that still implies after any number of rounds.

**Login limiter.** A bucket keeps the times of its attempts, oldest first, up to the limit
(`TableOK`). The invariant counts not only the attempts since the cutoff but those since *every*
moment after it: of each, a bucket holds no more than its client is to be counted for
(`Dominated`). That is what survives the passing of time, and a withdrawal that takes another
request's attempt. `Dated` says that a bucket knows when its client was last seen unless both
are out of the window, which gives the order of eviction; `Promised`, that a time told to a client
is after its oldest attempt has left the window.

**Sessions.** A token's fields are truncated, and the truncations have opposite effects:
`iat` is rounded down, so a token appears older than it is and a logout ends it; `exp`
is rounded down, so it ends early. The invariant `Issued` (a token is what `SignToken`
made at a time not in the future) and `LoggedOut` carry this through restarts, where the
key does what the forgotten logout can not.

**Stats history.** Each point kept stands for a range of the snapshots recorded (`PointSound`): it has
the containers of that range, its gauge is the last value there, and its time is in its bucket.
The ranges join without gap or overlap up to the newest snapshot (`Chained`, `PointsSound`), and the
number of samples kept with the points is the one they hold (`SamplesExact`). Squeezing
the points of a bucket into one, evicting the oldest, and taking every other one for a query
keep this by lemmas on parts and concatenations of chains. The operators that run over the points
are recursive functions. A recursive definition is of use in a proof only when such a function is
shown to exist, by a descent without the induction theorems: of numbers of which none is the
least there are none (`NoLeast`).

**Event history.** The refinement mapping reads the buffer oldest first. The invariant
`Written` says which places hold which of the last events; the proof is about `%` at
the two boundaries, before the first wrap and after.

**Layout.** `CanvasShowsTopology` speaks of the moments when no effect is due. In between,
`LayoutInv` says for which graph the effects ran last (`ranFor`), that at most one layout
counts and that it is for that topology, and that a topology the effects ran for is
settled, has failed or has its layout under way. The step that matters is the end of a
layout while another graph has been given: it is drawn, and the effects that follow
start the next.

**Polling.** `PollInv` says that what is kept, on its way or waiting for its timer is of the
URL the effect ran for, that of the request and the timer there is exactly one while
there is a URL, and that a live request has read nothing older than what is shown.

**Log view.** `ViewInv` says where each thing in flight belongs: a closed view has nothing
under way (`Quiet`); the lines held back are a run that ends with the last line sent, and
the server goes on after it (`Batched`); the buffer of a view that is not detached ends
where they begin, or where the stream was opened (`Joined`). The last two hold until a
stream or a page has crossed (`crossed`, section 6). The lemmas are about runs: cutting
one at either end, and appending a run that follows it, gives a run.

**Log windows.** `WindowsInv` adds to `OneStreamEach` what makes it inductive: ids are below
the next one, so that a new window has an id of its own; the ids in `depth` differ, so that
taking one out takes out the right number; and the window and the tab a gesture holds are
there until the pointer is released (`Grabbed`). The windows after a tab is taken out, or a
window dropped on another, are related to those before by where each window and each tab
comes from (`Comes`, `ComesTab`): no two come from the same place (`MovedSound`), so that
what was there once is there once.

**Panel.** `PanelTellsItsOwn` speaks of a panel whose effects have run. `FetchInv` holds in between:
each of the hooks holds nothing, waits for the resource it was asked for last, or has an answer
about it (`Fits`); a request that counts is one a hook waits for (`Waited`). What the panel has
become meanwhile does not matter, for the effects compare with what was asked.

**Edges on the canvas.** `EdgesInv` says that what is seen was drawn for the viewport there is and, unless the
observer of the size is still due, at its size (`DrawnWell`), that a canvas that is hidden has its timer
and that the loop's handle tells whether a frame is scheduled. Then the proof is geometry:
an edge culled has no point of its path on the screen, since a straight stroke lies in the
box of its two ends.

**Scroll box.** `FollowHolds` says that the place the box remembers is the end while it follows, and
that only the reader or a search brings it above that place, the search from wherever React runs
its effect (`MovedKeeps`); `SeenHolds`, that the row the box anchors stays
at the spot where the row that was seen is, through lines added and cut at either end. Both need
`BufferHolds`: a buffer is detached from the newest lines only when it is full, so that what comes
at one end goes at the other.

**Scopes and names.** A list filtered has the elements that are in the set (`FilteredIs`), so a scope has the
nodes whose ids it keeps (`ScopeIs`); in a proper graph a workload's id is kept in its own stack only
(`KeptInOwn`), as what references pull in is no workload. The worth of a candidate is bounded,
so a best one exists (`WorthIs`), and one named after the stack beats every other but one of the very
name; which workloads of other stacks are named after it too is a matter of prefixes (`PrefixIs`, `GoesOn`).

**What stays lit.** The closure a component computes, upwards to its groups and downwards to what is in them,
is a function on what can be reached. That it exists is shown by descent on the place in the list, where a group
comes before what is in it (`GoingDown`). Then what is lit around an element is closed under groups
(`AroundLit`), and so is the union over what the links reach (`ClosedWhen`).

**Only model-checked.** Liveness, fairness and `ENABLED` are not provable here. Of the
safety properties, TLC alone checks `GraphDrawn`, `DashboardAgrees`, `MarksSound` and
`DrillDownShowsCounted`. They are about what pure operators make of a graph, a path or a text; these select,
sort, fold and flatten sequences of any length, which is induction over data, and `SortSeq` leaves
open in which order equal elements come. `ScopesSound` and `LitSound` are invariants of the
scenes of `page`; what they say of a scene the last three theorems say of every graph, under the hypotheses
above.

## 6. Where the code does not do what it says

Three runs exhibit a disagreement between the code and its own comments.

- **`live_snapshot`** (`frontend/src/hooks/useDockGraph.ts:45`): `applySnapshot` skips a
  snapshot whose fingerprint is that of the last *snapshot*, but deltas change the page
  without changing the fingerprint. Snapshot S, delta to T, connection lost, the graph
  goes back to S, reconnection: snapshot S is skipped and the page shows T.
  `deltaUtils.ts:17-18` promises that only what "we already have" is skipped.
  `PageFollows` and `PageCatchesUp` exclude this case through `sync`, and say so.
- **`compose_rename`** (`backend/collector/compose.go:225`): `watchFiles` handles write,
  create and remove events; a file moved out of its directory comes as a rename, which
  is ignored, and its services stay until another change. `NoChangeForgotten` and
  `CollectorsCatchUp` exclude files in `moved`.
- **`log_run`** (`frontend/src/hooks/useLogs.ts:126`): the log buffer "is always one
  contiguous run of lines" (line 74). `openSSE` gives the stream the position to start
  after in its URL, and the server sends no event ids; when the stream ends, because the
  connection breaks or the container stops, `EventSource` opens the same URL again and
  the lines since that position are appended a second time. `ViewSound`
  excludes streams opened twice at one position through `crossed`.

Met while reading the code, and not turned into runs:

- `backend/state/diff.go:35`: edges are compared by id, so that a changed mount path is in
  no delta (`SameToDiff` says "as far as the diff tells").
- `frontend/src/utils/deltaUtils.ts:61`: `omitempty` leaves out a field that went back to
  its zero value, and the overlay keeps the old one (`OverlayNode`).
- `backend/api/ws.go:142`: the snapshot is sent after the lock was released, so deltas
  may come first; the page then takes a delta for its first graph (`sync = "broken"`).
- `backend/collector/compose.go:229`: of `mkdir -p a/b`, `b` may exist before `a` is
  watched and is then never watched.
- `backend/agentauth/verify.go:73`: the clock is read once, before the signature and the
  address are checked, and `remember` prunes by that clock (191-196). A request is delivered
  again in the last second its timestamp is acceptable in; before that verification takes the
  lock, another with a later clock prunes the nonce, and the request is accepted a second time,
  though what was "seen before" should be refused (62-63). It takes a verification that
  is under way while a second begins. `ReplayRefused` leaves exactly this case out.
- `backend/auth/jwt.go:44`: a login in the same second as a logout gets a token that is
  refused, since its time of issue is rounded down to before the logout.
- `backend/auth/ratelimit.go:142`: withdrawing an attempt takes the newest of the client,
  which may be that of another of its requests.
- `frontend/src/hooks/useLogs.ts:284`: a page of older lines that arrives after `loadNewer`
  replaced the buffer, or after live lines pushed out the line it was asked for, leaves a
  hole, or lines twice (`crossed` in `ApplyMore`).
- `frontend/src/hooks/useLogs.ts:202`: a view reopened while older lines are asked for aborts
  the request but keeps `loadingMore`, and asks for no older lines again.
- `backend/api/logs_aggregate.go:494`: a "kill" event ends the follower of a container that
  keeps running when the signal does not end it; a container that starts between
  the listing and the subscription to events (440-466) is not followed.
- `frontend/src/utils/stack.ts:272`, 274: "candidates in `contextStack` win over same-named
  workloads in other stacks" (250), but a container called exactly `web` wins whatever its stack,
  and for `web` in `shop` what begins with `shop-web-` counts as the stack's own:
  `shop-web-api-1`, of `web-api` or of a stack `shop-web`, wins if it comes first. `RefsStayHome`
  says what is left of the claim.
- `frontend/src/hooks/useGraphLayout.ts:145`: a graph that returns to the settled topology
  while a layout of another is under way is drawn with the data it had, until it changes
  again (`again`); and `nodeInactive`, which `nodeTransform.ts:227` leaves out when it is
  false, is merged into what is drawn (line 158) and never cleared there.
- `frontend/src/hooks/useSearchFilter.ts:51`: `clearAll` leaves the debounce of `setQuery`
  running, so that a drill-down ("predictable", `FlowCanvas.tsx:340-341`) that follows
  typing at once is searched by the old text (`counted.typing`).
- `frontend/src/hooks/useResourceDetail.ts:49`: while the next resource loads, the header
  shows the data of the last of its kind.
- `frontend/src/hooks/logWindowsState.ts:208`, 241: closing or detaching a tab before the
  active one keeps the index, so that the next tab becomes the active one; a detached tab's
  window is not clamped to the viewport until it is moved.
- `frontend/src/utils/graphTransform.ts:176` and `FlowCanvas.tsx:216`: edges are animated in
  graphs of at most `ANIMATION_NODE_LIMIT` nodes, and the canvas draws the edges of larger
  ones: it animates only while a graph that crossed the limit waits for its layout.
- `frontend/src/components/logwindow/LogStream.tsx:167`: the banner "Loading older logs"
  comes without the effect that places the rows, so what is read jumps by its height until
  the lines come (`shifted`), though "the content never visibly jumps" (line 152). A
  reader's scroll is undone when lines come before its event; and at the bottom of a
  detached buffer nothing scrolls, so that nothing catches up until the reader moves.
- `LogStream.tsx:137-141`: while a search is in the box, every line that adds or removes a
  match scrolls to the active match (`MatchEffect`), whether the reader follows or reads
  elsewhere. The scroll event then stops the following though nobody scrolled (`jumped`),
  where line 184 says "stop only when the user scrolls up", and what was read does not stay,
  where lines 149-150 say that it does. If lines change before that event, the layout effect
  puts the box back by the old anchor.
- `LogStream.tsx:52-63`: the text is sliced by the indices of its lower case. After a letter
  that becomes two there ("İ"), the hits of the line are marked that much too far to the
  right, or are empty. Line 209 steps from the raw `activeMatch`, which may lie beyond a list
  that has shrunk (line 133 clamps only what is shown): the first step then may lead anywhere,
  or nowhere.
- `backend/main.go:293`: `main` returns when `ListenAndServe` does, which is when `Shutdown`
  begins and not when it ends.

## 7. What is not modelled

- **Functions of their input** on the server: the Compose parser with its includes,
  extends and sandbox; the graph built from a poll's answers; the secrets masker; client
  addresses; configuration. They keep no state between calls.
- **The rest of the server**: aggregated log streams, requests to other nodes, the stats
  workers, the system info cache, the agent's server. Planned.
- **Of the page**: ELK's algorithm, of which the models ask that a layout gives each element a
  place inside its parent; components that format what they are given (rows, panels,
  badges, themes, menus) and their styles; the order of React's renders beyond "a handler's
  changes are rendered together, effects run later"; the reload on another protocol
  version; the filters and menus of an aggregated log.
- **REST handlers** that read the daemon and answer; **cryptography** and encodings;
  **pings and deadlines** of a connection, of which only the effect is modelled;
  **a failed first poll**, after which `main` exits.

## 8. Plan

Done, in this order: the operators on graphs, the manager with its proofs, the hub and its
abstract specification, the pipeline to the page, both collectors, the agents, signing
in, the histories, the log view; then the page: scopes, both drawings of the graph, layout
with its proof, selection, views and tables, panel, dashboard, polling, the canvas of the edges, log
windows and their scroll box.

To do:

1. *Proofs* about the operators that draw: for any graph, what `GraphDrawn`
   says of small ones.
2. *Aggregated log streams* (`logs_aggregate.go`): the followers of the containers of a
   stream, their limit, the merge of their pages. Every container that runs is followed.
3. *Stats workers and the stats pipe* (`stats_worker.go`, `main.go`), *system info cache*,
   *agent server*: single flight, limits, shutdown.
4. *Requests to other nodes* (`remote.go`, `hosts.go`): where a request goes while agents
   come and go.
5. *Operators*: include and extends (termination, bounds), the graph of a poll
   (every edge has its ends, ids are unique), client addresses.
