----------------------------- MODULE PageProofs -----------------------------
(***************************************************************************)
(* Proofs about the hooks of the page, for any topologies, URLs, logs,     *)
(* windows, graphs and number of changes: the canvas draws the graph it is *)
(* given, polls neither overlap nor show what they did not ask for, the    *)
(* lines of a log view are one run that its stream goes on from, each      *)
(* container has one tab of one log window at most, the panel tells about  *)
(* the resource it was opened for, the edges on the canvas are drawn where *)
(* the viewport has them, and what is read in a log stays where it is.     *)
(* And about operators, for any graph: a scope is a stack's own, a name    *)
(* leads home, and what a selection reaches stays lit.                     *)
(***************************************************************************)
EXTENDS FlowCanvas, EdgeLayer, GraphLayout, PollingFetch, LogView, LogWindows, LogPane,
        SequenceTheorems, FiniteSetTheorems, WellFoundedInduction, TLAPS

-----------------------------------------------------------------------------
(* The canvas.                                                             *)

\* What holds between the effects: a layout that counts is for the topology the effects
\* ran for, one is under way or has failed unless that topology is settled, and what was
\* patched last is drawn unless a layout of the settled topology could still replace it.
LayoutInv ==
  /\ LayoutTypeOK
  /\ \A l, m \in Live : l = m
  /\ \A l \in Live : l.graph.topo = ranFor.graph.topo
  /\ drawn.topo = settledTopoKey \/ settledTopoKey = NoKey
  /\ \/ ranFor.graph.topo \in {NoKey, settledTopoKey, errorTopoKey}
     \/ Live # {}
  /\ Live # {} /\ ranFor.graph.topo \in {settledTopoKey, ranFor.settled} => again
  /\ /\ ~again /\ ranFor.settled = ranFor.graph.topo
     /\ ranFor.graph.topo \in Topology \ {Empty}
     => /\ settledTopoKey = ranFor.settled
        /\ drawn.data = ranFor.graph.data
        /\ ranFor.graph.inactive => drawn.inactive

-----------------------------------------------------------------------------
\* Nothing is drawn, asked for or under way when the page opens.
LEMMA LayoutInitInv == LayoutInit => LayoutInv
<1> SUFFICES ASSUME LayoutInit PROVE LayoutInv
  OBVIOUS
<1>1. LayoutTypeOK
  <2>1. 0 \in 0..MaxData
    BY LayoutAssumption
  <2> QED
    BY <2>1, LayoutAssumption DEF LayoutInit, LayoutTypeOK, GraphOf, Graphs, Keys
<1>2. Live = {}
  BY DEF LayoutInit, Live
<1> QED
  BY <1>1, <1>2, LayoutAssumption DEF LayoutInit, LayoutInv, GraphOf

\* Every step of the hook, and of what it is given, keeps it.
LEMMA LayoutStepInv == LayoutInv /\ [LayoutNext]_layoutVars => LayoutInv'
<1> SUFFICES ASSUME LayoutInv, [LayoutNext]_layoutVars PROVE LayoutInv'
  OBVIOUS
<1> USE LayoutAssumption
<1>1. ASSUME NEW topo \in Topology, NEW inactive \in BOOLEAN, GraphChanges(topo, inactive)
      PROVE  LayoutInv'
  <2>1. LayoutTypeOK'
    <3>1. graph.data + 1 \in 0..MaxData
      BY <1>1 DEF LayoutInv, LayoutTypeOK, GraphChanges, Graphs
    <3> QED
      BY <1>1, <3>1 DEF LayoutInv, LayoutTypeOK, GraphChanges, GraphOf, Graphs
  <2>2. Live' = Live
    BY <1>1 DEF GraphChanges, Live
  <2> QED
    BY <1>1, <2>1, <2>2 DEF LayoutInv, GraphChanges
<1>2. CASE RunEffects
  <2>1. LayoutTypeOK'
    <3>1. ranFor' \in [graph : Graphs(Keys), settled : Keys]
      BY <1>2 DEF LayoutInv, LayoutTypeOK, RunEffects, Deps, Graphs, Keys
    <3>2. drawn' \in Graphs(Topology)
      BY <1>2 DEF LayoutInv, LayoutTypeOK, RunEffects, Patched, GraphOf, Graphs
    <3>3. Cancelled \subseteq [graph : Graphs(Topology), cancelled : BOOLEAN]
      <4> SUFFICES ASSUME NEW l \in Cancelled
                   PROVE  l \in [graph : Graphs(Topology), cancelled : BOOLEAN]
        OBVIOUS
      <4>1. PICK m \in layouts : l = [graph |-> m.graph, cancelled |-> TRUE]
        BY DEF Cancelled
      <4>2. m.graph \in Graphs(Topology)
        BY DEF LayoutInv, LayoutTypeOK
      <4> QED
        BY <4>1, <4>2
    <3>4. layouts' \subseteq [graph : Graphs(Topology), cancelled : BOOLEAN]
      <4>1. [graph |-> graph, cancelled |-> FALSE] \in [graph : Graphs(Topology), cancelled : BOOLEAN]
        BY DEF LayoutInv, LayoutTypeOK
      <4>2. layouts' = layouts \/ layouts' = Cancelled \union {[graph |-> graph, cancelled |-> FALSE]}
        BY <1>2 DEF RunEffects
      <4> QED
        BY <3>3, <4>1, <4>2 DEF LayoutInv, LayoutTypeOK
    <3>6. again' \in BOOLEAN
      BY <1>2 DEF RunEffects, LayoutInv, LayoutTypeOK
    <3>5. UNCHANGED <<graph, settledTopoKey, errorTopoKey>>
      BY <1>2 DEF RunEffects
    <3> QED
      BY <3>1, <3>2, <3>4, <3>5, <3>6 DEF LayoutInv, LayoutTypeOK
  <2>2. CASE graph.topo # ranFor.graph.topo
    <3>1. Live' = {[graph |-> graph, cancelled |-> FALSE]}
      BY <1>2, <2>2 DEF RunEffects, Live, Cancelled, LayoutInv, LayoutTypeOK
    <3>2. ranFor'.graph = graph /\ ranFor'.settled = settledTopoKey /\ graph' = graph
          /\ settledTopoKey' = settledTopoKey /\ errorTopoKey' = errorTopoKey
          /\ again' = (graph.topo = settledTopoKey)
      BY <1>2, <2>2 DEF RunEffects, Deps
    <3>3. drawn'.topo = drawn.topo
      BY <1>2 DEF RunEffects, Patched, GraphOf, LayoutInv, LayoutTypeOK, Graphs
    <3>4. \A l \in Live' : l = [graph |-> graph, cancelled |-> FALSE] /\ l.graph = graph
      BY <3>1
    <3>5. Live' # {}
      BY <3>1
    <3>6. drawn'.topo = settledTopoKey' \/ settledTopoKey' = NoKey
      BY <3>2, <3>3 DEF LayoutInv
    <3>7. ranFor'.graph.topo \in {settledTopoKey', ranFor'.settled} => again'
      BY <3>2
    <3> QED
      BY <2>1, <3>2, <3>4, <3>5, <3>6, <3>7 DEF LayoutInv
  <2>3. CASE graph.topo = ranFor.graph.topo
    <3>1. Live' = Live
      BY <1>2, <2>3 DEF RunEffects, Live
    <3>2. ranFor'.graph = graph /\ ranFor'.settled = settledTopoKey /\ graph' = graph
          /\ settledTopoKey' = settledTopoKey /\ errorTopoKey' = errorTopoKey
          /\ again' = again
      BY <1>2, <2>3 DEF RunEffects, Deps
    <3>3. drawn'.topo = drawn.topo
      BY <1>2 DEF RunEffects, Patched, GraphOf, LayoutInv, LayoutTypeOK, Graphs
    <3>4. graph.topo # Empty /\ graph.topo = settledTopoKey =>
            drawn'.data = graph.data /\ (graph.inactive => drawn'.inactive)
      BY <1>2 DEF RunEffects, Patched, GraphOf, LayoutInv, LayoutTypeOK, Graphs
    <3> QED
      BY <2>1, <2>3, <3>1, <3>2, <3>3, <3>4 DEF LayoutInv
  <2> QED
    BY <2>2, <2>3
<1>3. ASSUME NEW l \in layouts, LayoutDone(l) PROVE LayoutInv'
  <2>1. LayoutTypeOK'
    <3>1. l.graph \in Graphs(Topology) /\ l.graph.topo \in Keys /\ NoKey \in Keys
      BY DEF LayoutInv, LayoutTypeOK, Graphs, Keys
    <3>2. drawn' \in {drawn, l.graph} /\ settledTopoKey' \in {settledTopoKey, l.graph.topo}
          /\ errorTopoKey' \in {errorTopoKey, NoKey} /\ layouts' \subseteq layouts
          /\ UNCHANGED <<graph, ranFor, again>>
      BY <1>3 DEF LayoutDone
    <3> QED
      BY <3>1, <3>2 DEF LayoutInv, LayoutTypeOK
  <2>2. CASE l.cancelled
    <3>1. Live' = Live
      BY <1>3, <2>2 DEF LayoutDone, Live
    <3> QED
      BY <1>3, <2>1, <2>2, <3>1 DEF LayoutDone, LayoutInv
  <2>3. CASE ~l.cancelled
    <3>1. l \in Live
      BY <2>3 DEF Live
    <3>2. Live' = {}
      BY <1>3, <3>1 DEF LayoutDone, Live, LayoutInv
    <3>3. l.graph.topo = ranFor.graph.topo /\ l.graph.topo \in Topology
      BY <3>1 DEF LayoutInv, LayoutTypeOK, Graphs
    <3>4. drawn' = l.graph /\ settledTopoKey' = l.graph.topo /\ UNCHANGED <<graph, ranFor, again>>
      BY <1>3, <2>3 DEF LayoutDone
    <3>5. ranFor.settled = ranFor.graph.topo => again
      BY <3>1 DEF LayoutInv
    <3> QED
      BY <2>1, <3>2, <3>3, <3>4, <3>5 DEF LayoutInv
  <2> QED
    BY <2>2, <2>3
<1>4. ASSUME NEW l \in layouts, LayoutFails(l) PROVE LayoutInv'
  <2>1. LayoutTypeOK'
    <3>1. l.graph.topo \in Keys
      BY DEF LayoutInv, LayoutTypeOK, Graphs, Keys
    <3>2. errorTopoKey' \in {errorTopoKey, l.graph.topo} /\ layouts' \subseteq layouts
          /\ UNCHANGED <<graph, drawn, settledTopoKey, ranFor, again>>
      BY <1>4 DEF LayoutFails, Failed
    <3> QED
      BY <3>1, <3>2 DEF LayoutInv, LayoutTypeOK
  <2>2. UNCHANGED <<graph, drawn, settledTopoKey, ranFor, again>>
    BY <1>4 DEF LayoutFails, Failed
  <2>3. CASE l.cancelled
    <3>1. Live' = Live /\ errorTopoKey' = errorTopoKey
      BY <1>4, <2>3 DEF LayoutFails, Failed, Live
    <3> QED
      BY <2>1, <2>2, <3>1 DEF LayoutInv
  <2>4. CASE ~l.cancelled
    <3>1. l \in Live
      BY <2>4 DEF Live
    <3>2. Live' = {} /\ errorTopoKey' = ranFor.graph.topo
      BY <1>4, <2>4, <3>1 DEF LayoutFails, Failed, Live, LayoutInv
    <3> QED
      BY <2>1, <2>2, <3>2 DEF LayoutInv
  <2> QED
    BY <2>3, <2>4
<1>5. CASE UNCHANGED layoutVars
  <2>1. Live' = Live /\ LayoutTypeOK'
    BY <1>5 DEF layoutVars, Live, LayoutInv, LayoutTypeOK
  <2> QED
    BY <1>5, <2>1 DEF layoutVars, LayoutInv
<1> QED
  BY <1>1, <1>2, <1>3, <1>4, <1>5 DEF LayoutNext

\* What the page relies on follows once the effects have run.
LEMMA LayoutInvSuffices == LayoutInv => CanvasShowsTopology
<1> SUFFICES ASSUME LayoutInv PROVE CanvasShowsTopology
  OBVIOUS
<1>1. ASSUME ~EffectsDue
      PROVE  ranFor.graph = graph /\ ranFor.settled = settledTopoKey
  BY <1>1 DEF EffectsDue, Deps
<1>2. graph.topo \in Topology /\ NoKey \notin Topology
  BY LayoutAssumption DEF LayoutInv, LayoutTypeOK, Graphs
<1> QED
  BY <1>1, <1>2 DEF LayoutInv, CanvasShowsTopology, layoutBusy, layoutError

-----------------------------------------------------------------------------
\* useGraphLayout.ts: whatever graphs the hook is given while layouts are computed, fail
\* and are cancelled, the canvas that is not busy draws the topology given.
THEOREM CanvasFollows == LayoutSpec => []CanvasShowsTopology
<1>1. LayoutSpec => []LayoutInv
  BY LayoutInitInv, LayoutStepInv, PTL DEF LayoutSpec
<1> QED
  BY <1>1, LayoutInvSuffices, PTL

\* Every key, graph and layout of the hook is of its kind.
THEOREM LayoutTypes == LayoutSpec => []LayoutTypeOK
<1>1. LayoutSpec => []LayoutInv
  BY LayoutInitInv, LayoutStepInv, PTL DEF LayoutSpec
<1>2. LayoutInv => LayoutTypeOK
  BY DEF LayoutInv
<1> QED
  BY <1>1, <1>2, PTL

-----------------------------------------------------------------------------
(* The polling hook.                                                       *)

\* Requests read a version the server had, and so did what is kept.
PollTyped ==
  /\ served \in Nat \ {NoVersion}
  /\ poll.data.version \in 0..served
  /\ \A f \in flights : f.read \in 0..served

\* What holds between the effects: the hook's state is of the URL the effect ran for, and
\* of that URL a poll is under way or scheduled, never both and never two.
PollInv ==
  /\ PollTyped
  /\ poll.url = ran
  /\ poll.data # NoData => poll.data.of = ran /\ poll.data.version # NoVersion
  /\ poll.data = NoData => ran = NoUrl \/ poll.loading \/ poll.error
  /\ \A f \in LiveFlights : f.url = ran /\ LiveFlights = {f} /\ ~timer
  /\ (timer \/ LiveFlights # {}) <=> ran # NoUrl
  /\ \A f \in LiveFlights : f.read # NoVersion => f.read >= poll.data.version

\* No card polls when the page opens.
LEMMA PollStart == PollInit => PollInv
<1> SUFFICES ASSUME PollInit PROVE PollInv
  OBVIOUS
<1>1. LiveFlights = {}
  BY DEF PollInit, LiveFlights
<1>2. /\ poll.url = NoUrl /\ poll.data = NoData /\ poll.data.version = NoVersion
      /\ ran = NoUrl /\ timer = FALSE /\ served = 1 /\ flights = {}
  BY DEF PollInit, NothingPolled, Settled, NoData, Data
<1>3. PollTyped
  BY <1>2 DEF PollTyped, NoVersion
<1> QED
  BY <1>1, <1>2, <1>3 DEF PollInv

\* An effect aborts what is under way.
LEMMA AbortedLive ==
    ASSUME PollTyped
    PROVE  \A f \in Aborted : f.read \in 0..served /\ ~f.live
BY DEF PollTyped, Aborted

\* Every effect, answer and tick keeps it.
LEMMA PollStep == PollInv /\ [PollNext]_pollVars => PollInv'
<1> SUFFICES ASSUME PollInv, [PollNext]_pollVars PROVE PollInv'
  OBVIOUS
<1>0. PollTyped
  BY DEF PollInv
<1>1. CASE UNCHANGED <<ran, poll, flights, timer, served>>
  <2>1. LiveFlights' = LiveFlights
    BY <1>1 DEF LiveFlights
  <2> QED
    BY <1>1, <2>1 DEF PollInv, PollTyped
<1>2. CASE RunPoll
  <2>1. CASE url = NoUrl
    <3>1. ran' = NoUrl /\ timer' = FALSE /\ served' = served /\ flights' = Aborted
          /\ poll' = NothingPolled
      BY <1>2, <2>1 DEF RunPoll
    <3>2. LiveFlights' = {}
      BY <1>0, <3>1, AbortedLive DEF LiveFlights
    <3>3. PollTyped'
      BY <1>0, <3>1, AbortedLive DEF PollTyped, NothingPolled, Settled, NoData, Data, NoVersion
    <3>4. poll'.url = NoUrl /\ poll'.data = NoData
      BY <3>1 DEF NothingPolled, Settled
    <3> QED
      BY <3>1, <3>2, <3>3, <3>4 DEF PollInv
  <2>2. CASE url # NoUrl
    <3>1. /\ ran' = url /\ timer' = FALSE /\ served' = served
          /\ flights' = Aborted \union {Sent(url)}
          /\ poll' = [url |-> url, data |-> Kept, loading |-> TRUE, error |-> FALSE]
      BY <1>2, <2>2 DEF RunPoll
    <3>2. LiveFlights' = {Sent(url)}
      <4>1. \A f \in Aborted : ~f.live
        BY <1>0, AbortedLive
      <4> QED
        BY <3>1, <4>1 DEF LiveFlights, Sent
    <3>3. /\ Kept.version \in 0..served
          /\ Kept # NoData => Kept.of = url /\ Kept.version # NoVersion
      BY <1>0 DEF Kept, NoData, Data, NoVersion, PollTyped, PollInv
    <3>4. PollTyped'
      BY <1>0, <3>1, <3>3, AbortedLive DEF PollTyped, Sent, NoVersion
    <3>5. poll'.url = url /\ poll'.data = Kept /\ poll'.loading
      BY <3>1
    <3>6. /\ Sent(url).url = url /\ Sent(url).read = NoVersion
      BY DEF Sent
    <3> QED
      BY <2>2, <3>1, <3>2, <3>3, <3>4, <3>5, <3>6 DEF PollInv
  <2> QED
    BY <2>1, <2>2
<1>3. CASE PollAgain
  <2>1. timer /\ LiveFlights = {} /\ ran # NoUrl
    BY <1>3 DEF PollAgain, PollInv
  <2>2. /\ timer' = FALSE /\ flights' = flights \union {Sent(ran)}
        /\ UNCHANGED <<ran, poll, served>>
    BY <1>3 DEF PollAgain
  <2>3. LiveFlights' = {Sent(ran)}
    BY <2>1, <2>2 DEF LiveFlights, Sent
  <2>4. PollTyped'
    BY <1>0, <2>2 DEF PollTyped, Sent, NoVersion
  <2>5. Sent(ran).url = ran /\ Sent(ran).read = NoVersion
    BY DEF Sent
  <2> QED
    BY <2>1, <2>2, <2>3, <2>4, <2>5 DEF PollInv
<1>4. ASSUME NEW f \in flights, ServerReads(f) PROVE PollInv'
  <2> DEFINE g == [url |-> f.url, read |-> served, live |-> f.live]
  <2>1. flights' = (flights \ {f}) \union {g} /\ UNCHANGED <<ran, poll, timer, served>>
    BY <1>4 DEF ServerReads
  <2>2. PollTyped'
    BY <1>0, <2>1 DEF PollTyped
  <2>3. f \in LiveFlights => LiveFlights' = {g}
    <3>1. f \in LiveFlights => LiveFlights = {f} /\ f.live
      BY DEF PollInv, LiveFlights
    <3> QED
      BY <2>1, <3>1 DEF LiveFlights
  <2>4. f \notin LiveFlights => LiveFlights' = LiveFlights
    BY <1>0, <2>1 DEF LiveFlights, PollTyped
  <2>5. g.url = f.url /\ g.read = served /\ served >= poll.data.version
    BY <1>0 DEF PollTyped
  <2> HIDE DEF g
  <2>6. CASE f \in LiveFlights
    BY <2>1, <2>2, <2>3, <2>5, <2>6 DEF PollInv
  <2>7. CASE f \notin LiveFlights
    BY <2>1, <2>2, <2>4, <2>7 DEF PollInv
  <2> QED
    BY <2>6, <2>7
<1>5. ASSUME NEW f \in flights, NEW ok \in BOOLEAN, PollAnswered(f, ok) PROVE PollInv'
  <2>1. flights' = flights \ {f} /\ UNCHANGED <<ran, served>> /\ (ok => f.read # NoVersion)
    BY <1>5 DEF PollAnswered
  <2>2. CASE ~f.live
    <3>1. LiveFlights' = LiveFlights /\ UNCHANGED <<poll, timer>>
      BY <1>5, <2>1, <2>2 DEF LiveFlights, PollAnswered
    <3>2. PollTyped'
      BY <1>0, <2>1, <3>1 DEF PollTyped
    <3> QED
      BY <2>1, <3>1, <3>2 DEF PollInv
  <2>3. CASE f.live
    <3>1. LiveFlights = {f} /\ f.url = ran /\ LiveFlights' = {} /\ ran # NoUrl
      BY <2>1, <2>3 DEF LiveFlights, PollInv
    <3>2. timer' = TRUE
      BY <1>5, <2>3 DEF PollAnswered
    <3>3. CASE ok
      <4>1. poll' = Settled(f.url, Data(f.url, f.read), FALSE)
        BY <1>5, <2>3, <3>3 DEF PollAnswered
      <4>2. poll'.url = ran /\ poll'.data.of = ran /\ poll'.data.version = f.read
        BY <3>1, <4>1 DEF Settled, Data
      <4>3. PollTyped'
        BY <1>0, <2>1, <3>2, <4>2 DEF PollTyped
      <4>4. poll'.data # NoData
        BY <2>1, <3>3, <4>2 DEF NoData, Data
      <4> QED
        BY <2>1, <3>1, <3>2, <3>3, <4>2, <4>3, <4>4 DEF PollInv
    <3>4. CASE ~ok
      <4>1. poll' = Settled(poll.url, poll.data, TRUE)
        BY <1>5, <2>3, <3>4 DEF PollAnswered
      <4>2. poll'.url = ran /\ poll'.data = poll.data /\ poll'.error
        BY <4>1 DEF Settled, PollInv
      <4>3. PollTyped'
        BY <1>0, <2>1, <3>2, <4>2 DEF PollTyped
      <4> QED
        BY <2>1, <3>1, <3>2, <4>2, <4>3 DEF PollInv
    <3> QED
      BY <3>3, <3>4
  <2> QED
    BY <2>2, <2>3
<1>6. CASE ServerMoves
  <2>1. served' = served + 1 /\ UNCHANGED <<ran, poll, flights, timer>>
    BY <1>6 DEF ServerMoves
  <2>2. LiveFlights' = LiveFlights
    BY <2>1 DEF LiveFlights
  <2>3. PollTyped'
    BY <1>0, <2>1 DEF PollTyped, NoVersion
  <2> QED
    BY <2>1, <2>2, <2>3 DEF PollInv
<1> QED
  BY <1>1, <1>2, <1>3, <1>4, <1>5, <1>6 DEF PollNext, Choose, pollVars

\* usePollingFetch.ts:20-25: whatever the dashboard asks for and whenever answers come,
\* requests do not overlap, an older answer replaces no newer one, and what is rendered
\* is of the URL it is rendered with.
THEOREM PollsKeepOrder == PollSpec => []PollsInOrder
<1>1. PollInv => PollsInOrder
  <2> SUFFICES ASSUME PollInv PROVE PollsInOrder
    OBVIOUS
  <2>1. /\ rendered.data # NoData => rendered.data.of = url
        /\ rendered.data = NoData => url = NoUrl \/ rendered.loading \/ rendered.error
    BY DEF PollInv, rendered
  <2>2. ~PollDue => (timer \/ LiveFlights # {}) = (url # NoUrl)
    BY DEF PollInv, PollTyped, PollDue
  <2> QED
    BY <2>1, <2>2 DEF PollInv, PollsInOrder
<1> QED
  BY <1>1, PollStart, PollStep, PTL DEF PollSpec

-----------------------------------------------------------------------------
(* The log view.                                                           *)

Stream ==
  [pc : {"closed", "connecting", "open", "refused"}, since : 0..MaxLines, next : Nat,
   last : 0..MaxLines, batch : Seq(1..MaxLines)]

ViewTyped ==
  /\ written \in 0..MaxLines
  /\ shown \in Seq(1..MaxLines) /\ Len(shown) <= bufferSize
  /\ first \in {NotAsked} \cup 0..MaxLines
  /\ more \in {NotAsked} \cup 1..MaxLines /\ newer \in {NotAsked} \cup 1..MaxLines
  /\ source \in Stream
  /\ source.pc = "open" => source.next > 0

\* Each element is as far from the first as it stands behind it.
Run(s) == \A i \in 1..Len(s) : s[i] = s[1] + i - 1

\* The lines up to z.
Ends(s, z) == \A i \in 1..Len(s) : s[i] = z - Len(s) + i

\* Nothing is shown, asked for or delivered before there is a stream, nor of an empty log.
Quiet ==
  /\ resetting => first = NotAsked
  /\ resetting \/ first # NotAsked => source.pc = "closed"
  /\ source.pc = "closed" => /\ shown = <<>> /\ source.batch = <<>>
                             /\ more = NotAsked /\ newer = NotAsked /\ ~detached
  /\ written = 0 => shown = <<>> /\ source.batch = <<>> /\ ~detached
  /\ more # NotAsked => shown # <<>>

\* The lines waiting to be shown are those up to the last one sent, and the server goes on
\* after it, or after the line the stream was opened at.
Batched ==
  /\ Ends(source.batch, source.last)
  /\ source.last = 0 => source.batch = <<>>
  /\ source.pc = "open" =>
        /\ source.last > 0 => source.next = source.last + 1
        /\ source.last = 0 /\ source.since > 0 => source.next = source.since + 1

\* The buffer ends where the lines that wait begin, or the stream was opened.
Joined ==
  ~detached /\ shown # <<>> =>
     shown[Len(shown)] = IF source.last > 0 THEN source.last - Len(source.batch)
                         ELSE source.since

ViewInv == ViewTyped /\ Quiet /\ (~crossed => Run(shown) /\ Batched /\ Joined)

\* The larger and the smaller of two.
LEMMA OfTwo ==
    ASSUME NEW a \in Int, NEW b \in Int
    PROVE  /\ Max({a, b}) = IF a >= b THEN a ELSE b
           /\ Min({a, b}) = IF a <= b THEN a ELSE b
<1>1. Max({a, b}) = IF a >= b THEN a ELSE b
  <2> DEFINE m == IF a >= b THEN a ELSE b
             Is(x) == x \in {a, b} /\ \A y \in {a, b} : x >= y
  <2>1. Is(m) /\ \A x : Is(x) => x = m
    OBVIOUS
  <2>2. Max({a, b}) = CHOOSE x : Is(x)
    BY DEF Max
  <2> QED
    BY <2>1, <2>2
<1>2. Min({a, b}) = IF a <= b THEN a ELSE b
  <2> DEFINE m == IF a <= b THEN a ELSE b
             Is(x) == x \in {a, b} /\ \A y \in {a, b} : x <= y
  <2>1. Is(m) /\ \A x : Is(x) => x = m
    OBVIOUS
  <2>2. Min({a, b}) = CHOOSE x : Is(x)
    BY DEF Min
  <2> QED
    BY <2>1, <2>2
<1> QED
  BY <1>1, <1>2

\* A page is a run of lines that ends with the newest one it was asked up to.
LEMMA PageIsRun ==
    ASSUME NEW n \in 0..MaxLines, NEW page \in PagesUpTo(n)
    PROVE  /\ page \in Seq(1..MaxLines) /\ Len(page) <= bufferSize /\ Run(page)
           /\ n = 0 => page = <<>>
           /\ n # 0 => page # <<>> /\ page[Len(page)] = n
<1> USE ViewAssumption
<1>1. CASE n = 0
  <2>1. page = <<>>
    BY <1>1 DEF PagesUpTo
  <2> QED
    BY <1>1, <2>1, EmptySeq DEF Run
<1>2. CASE n # 0
  <2>1. Max({1, n - pageSize + 1}) >= 1 /\ Max({1, n - pageSize + 1}) >= n - pageSize + 1
        /\ Max({1, n - pageSize + 1}) \in Int
    BY OfTwo
  <2>2. PICK a \in Int : a >= 1 /\ a >= n - pageSize + 1 /\ a <= n /\ page = Lines(a, n)
    BY <1>2, <2>1 DEF PagesUpTo
  <2> DEFINE k == n - a + 1
  <2>3. k \in Nat \ {0} /\ k <= pageSize /\ page = [i \in 1..k |-> a + i - 1]
    BY <2>2 DEF Lines
  <2>4. page \in [1..k -> 1..MaxLines]
    BY <2>2, <2>3
  <2>5. page \in Seq(1..MaxLines) /\ Len(page) = k
    BY <2>3, <2>4
  <2>6. \A i \in 1..k : page[i] = a + i - 1
    BY <2>3
  <2> QED
    BY <1>2, <2>2, <2>3, <2>5, <2>6 DEF Run
<1> QED
  BY <1>1, <1>2

\* The first n lines of a buffer.
LEMMA FirstLines ==
    ASSUME NEW s \in Seq(1..MaxLines), NEW n \in Nat \ {0}
    PROVE  /\ FirstOf(s, n) \in Seq(1..MaxLines) /\ Len(FirstOf(s, n)) <= n
           /\ \A i \in 1..Len(FirstOf(s, n)) : i \in 1..Len(s) /\ FirstOf(s, n)[i] = s[i]
           /\ s # <<>> => Len(FirstOf(s, n)) > 0
           /\ Len(s) <= n => Len(FirstOf(s, n)) = Len(s)
<1>1. Len(s) \in Nat
  BY LenProperties
<1>2. s # <<>> => Len(s) \in Nat \ {0}
  BY EmptySeq
<1>3. \A i \in 1..Len(s) : s[i] \in 1..MaxLines
  BY ElementOfSeq
<1> DEFINE m == IF n <= Len(s) THEN n ELSE Len(s)
<1>4. m \in 0..Len(s) /\ m \in Int /\ 1 \in Int
  BY <1>1
<1>5. Min({n, Len(s)}) = m
  <2>1. n \in Int /\ Len(s) \in Int
    BY <1>1
  <2> QED
    BY <2>1, OfTwo
<1>6. FirstOf(s, n) = SubSeq(s, 1, m)
  BY <1>5 DEF FirstOf
<1>7. \A i \in 1..m : s[i] \in 1..MaxLines
  BY <1>1, <1>3, <1>4
<1>8. /\ FirstOf(s, n) \in Seq(1..MaxLines)
      /\ Len(FirstOf(s, n)) = IF 1 <= m THEN m - 1 + 1 ELSE 0
      /\ \A i \in 1..(m - 1 + 1) : FirstOf(s, n)[i] = s[1 + i - 1]
  <2> HIDE DEF m
  <2> QED
    BY <1>4, <1>6, <1>7, SubSeqProperties
<1>9. Len(FirstOf(s, n)) = m /\ \A i \in 1..m : FirstOf(s, n)[i] = s[i]
  <2> HIDE DEF m
  <2>1. \A i \in 1..m : i \in 1..(m - 1 + 1) /\ 1 + i - 1 = i
    BY <1>1, <1>4
  <2> QED
    BY <1>1, <1>4, <1>8, <2>1
<1>10. m <= n /\ (Len(s) <= n => m = Len(s)) /\ (s # <<>> => m > 0)
  BY <1>1, <1>2
<1>11. \A i \in 1..m : i \in 1..Len(s)
  BY <1>1, <1>4
<1> HIDE DEF m
<1> QED
  BY <1>8, <1>9, <1>10, <1>11

\* The last n lines of a buffer.
LEMMA LastLines ==
    ASSUME NEW s \in Seq(1..MaxLines), NEW n \in Nat \ {0}, s # <<>>
    PROVE  /\ LastOf(s, n) \in Seq(1..MaxLines) /\ Len(LastOf(s, n)) \in 1..n
           /\ Len(LastOf(s, n)) <= Len(s)
           /\ \A i \in 1..Len(LastOf(s, n)) :
                 LastOf(s, n)[i] = s[Len(s) - Len(LastOf(s, n)) + i]
<1>1. Len(s) \in Nat \ {0}
  BY EmptySeq
<1>2. \A i \in 1..Len(s) : s[i] \in 1..MaxLines
  BY ElementOfSeq
<1> DEFINE m == IF 1 >= Len(s) - n + 1 THEN 1 ELSE Len(s) - n + 1
<1>3. m \in 1..Len(s) /\ m \in Int /\ Len(s) \in Int
  BY <1>1
<1>4. Max({1, Len(s) - n + 1}) = m
  <2>1. Len(s) - n + 1 \in Int
    BY <1>1
  <2> QED
    BY <2>1, OfTwo
<1>5. LastOf(s, n) = SubSeq(s, m, Len(s))
  BY <1>4 DEF LastOf
<1>6. \A i \in m..Len(s) : s[i] \in 1..MaxLines
  BY <1>1, <1>2, <1>3
<1>7. Len(s) - m + 1 <= n
  BY <1>1
<1> HIDE DEF m
<1>8. /\ LastOf(s, n) \in Seq(1..MaxLines)
      /\ Len(LastOf(s, n)) = IF m <= Len(s) THEN Len(s) - m + 1 ELSE 0
      /\ \A i \in 1..(Len(s) - m + 1) : LastOf(s, n)[i] = s[m + i - 1]
  BY <1>3, <1>5, <1>6, SubSeqProperties
<1>9. Len(LastOf(s, n)) = Len(s) - m + 1
  BY <1>3, <1>8
<1>10. \A i \in 1..Len(LastOf(s, n)) : m + i - 1 = Len(s) - Len(LastOf(s, n)) + i
  BY <1>1, <1>3, <1>9
<1>11. /\ Len(LastOf(s, n)) \in 1..n /\ Len(LastOf(s, n)) <= Len(s)
  BY <1>1, <1>3, <1>7, <1>9
<1> QED
  BY <1>8, <1>9, <1>10, <1>11

\* A run is the lines up to its last one.
LEMMA RunEnds ==
    ASSUME NEW s \in Seq(1..MaxLines), s # <<>>, Run(s)
    PROVE  Ends(s, s[Len(s)]) /\ s[Len(s)] \in Nat /\ s[1] = s[Len(s)] - Len(s) + 1
<1>1. PICK n \in Nat \ {0} : n = Len(s)
  BY EmptySeq
<1>2. \A i \in 1..n : s[i] \in Nat
  <2>1. \A i \in 1..n : s[i] \in 1..MaxLines
    BY <1>1, ElementOfSeq
  <2> QED
    BY <2>1, ViewAssumption
<1>3. \A i \in 1..n : s[i] = s[1] + i - 1
  BY <1>1 DEF Run
<1>4. s[n] = s[1] + n - 1 /\ s[1] \in Nat /\ s[n] \in Nat
  BY <1>2, <1>3
<1>5. \A i \in 1..n : s[i] = s[n] - n + i
  BY <1>3, <1>4
<1> QED
  BY <1>1, <1>4, <1>5 DEF Ends

\* Lines up to some one are a run.
LEMMA EndsRun ==
    ASSUME NEW s \in Seq(1..MaxLines), NEW z \in Int, Ends(s, z)
    PROVE  Run(s) /\ (s # <<>> => s[Len(s)] = z)
<1>1. PICK n \in Nat : n = Len(s)
  BY LenProperties
<1>2. \A i \in 1..n : s[i] = z - n + i
  BY <1>1 DEF Ends
<1>3. \A i \in 1..n : s[i] = s[1] + i - 1
  BY <1>2
<1>4. s # <<>> => n > 0
  BY <1>1, EmptySeq
<1>5. n > 0 => s[n] = z
  BY <1>2
<1> QED
  BY <1>1, <1>3, <1>4, <1>5 DEF Run

\* Lines that follow others.
LEMMA EndsJoined ==
    ASSUME NEW s \in Seq(1..MaxLines), NEW t \in Seq(1..MaxLines), NEW z \in Int,
           Ends(s, z - Len(t)), Ends(t, z)
    PROVE  /\ s \o t \in Seq(1..MaxLines) /\ Ends(s \o t, z)
           /\ Len(s \o t) = Len(s) + Len(t) /\ (s # <<>> \/ t # <<>> => s \o t # <<>>)
<1>1. PICK n \in Nat, m \in Nat : n = Len(s) /\ m = Len(t)
  BY LenProperties
<1>2. /\ s \o t \in Seq(1..MaxLines) /\ Len(s \o t) = n + m
      /\ \A i \in 1..(n + m) : (s \o t)[i] = IF i <= n THEN s[i] ELSE t[i - n]
  BY <1>1, ConcatProperties
<1>3. PICK u : u = s \o t
  OBVIOUS
<1>4. \A i \in 1..n : s[i] = z - m - n + i
  BY <1>1 DEF Ends
<1>5. \A i \in 1..m : t[i] = z - m + i
  BY <1>1 DEF Ends
<1>6. \A i \in 1..(n + m) : u[i] = z - (n + m) + i
  <2>1. \A i \in 1..(n + m) : u[i] = IF i <= n THEN s[i] ELSE t[i - n]
    BY <1>2, <1>3
  <2>2. \A i \in 1..(n + m) : i \in 1..n \/ (i > n /\ i - n \in 1..m)
    OBVIOUS
  <2> QED
    BY <1>4, <1>5, <2>1, <2>2
<1>7. s # <<>> \/ t # <<>> => s \o t # <<>>
  <2>1. s # <<>> \/ t # <<>> => n + m > 0
    BY <1>1, EmptySeq
  <2>2. Len(<<>>) = 0
    OBVIOUS
  <2> QED
    BY <1>2, <2>1, <2>2
<1> QED
  BY <1>1, <1>2, <1>3, <1>6, <1>7 DEF Ends

\* Lines are lost at the far end ...
LEMMA EndsLast ==
    ASSUME NEW s \in Seq(1..MaxLines), NEW z \in Int, Ends(s, z), s # <<>>,
           NEW n \in Nat \ {0}
    PROVE  Ends(LastOf(s, n), z)
<1>1. PICK u : u = LastOf(s, n)
  OBVIOUS
<1>2. PICK k \in Nat : k = Len(s)
  BY LenProperties
<1>3. PICK m \in 1..n : m = Len(u) /\ m <= k
  BY <1>1, <1>2, LastLines
<1>4. \A i \in 1..m : u[i] = s[k - m + i]
  BY <1>1, <1>2, <1>3, LastLines
<1>5. \A i \in 1..k : s[i] = z - k + i
  BY <1>2 DEF Ends
<1>6. \A i \in 1..m : u[i] = z - m + i
  BY <1>3, <1>4, <1>5
<1> QED
  BY <1>1, <1>3, <1>6 DEF Ends

\* ... or at the near one.
LEMMA EndsFirst ==
    ASSUME NEW s \in Seq(1..MaxLines), NEW z \in Int, Ends(s, z), s # <<>>,
           NEW n \in Nat \ {0}
    PROVE  Run(FirstOf(s, n)) /\ (Len(s) <= n => Ends(FirstOf(s, n), z))
<1>1. PICK u : u = FirstOf(s, n)
  OBVIOUS
<1>2. PICK k \in Nat : k = Len(s)
  BY LenProperties
<1>3. PICK m \in Nat : m = Len(u) /\ (k <= n => m = k)
  BY <1>1, <1>2, FirstLines, LenProperties
<1>4. \A i \in 1..m : i \in 1..k /\ u[i] = s[i]
  BY <1>1, <1>2, <1>3, FirstLines
<1>5. \A i \in 1..k : s[i] = z - k + i
  BY <1>2 DEF Ends
<1>6. \A i \in 1..m : u[i] = z - k + i
  BY <1>4, <1>5
<1>7. Run(u)
  BY <1>3, <1>6 DEF Run
<1>8. k <= n => Ends(u, z)
  BY <1>3, <1>6 DEF Ends
<1> QED
  BY <1>1, <1>2, <1>7, <1>8

\* The view opens with nothing in it.
LEMMA ViewStart == ViewInit => ViewInv
<1> SUFFICES ASSUME ViewInit PROVE ViewInv
  OBVIOUS
<1>1. shown \in Seq(1..MaxLines) /\ Len(shown) = 0 /\ shown = <<>>
  BY EmptySeq DEF ViewInit
<1>2. /\ source.pc = "closed" /\ source.batch = <<>> /\ source.since = 0 /\ source.last = 0
      /\ Len(source.batch) = 0
  BY DEF ViewInit, NoStream
<1>3. source \in Stream
  BY EmptySeq, ViewAssumption DEF ViewInit, NoStream, Stream
<1>4. ViewTyped
  BY <1>1, <1>2, <1>3, ViewAssumption DEF ViewInit, ViewTyped
<1>5. Quiet /\ Run(shown) /\ Batched /\ Joined
  BY <1>1, <1>2 DEF ViewInit, Quiet, Run, Ends, Batched, Joined
<1> QED
  BY <1>4, <1>5 DEF ViewInv

\* A page of the newest lines and the stream after it: whatever was shown before, it is a
\* run that the stream goes on from.
LEMMA LatestShown ==
    ASSUME ViewTyped, written' = written, NEW at \in 0..MaxLines,
           NEW page \in NewestPages(at), showLatest(page)
    PROVE  /\ shown' \in Seq(1..MaxLines) /\ Len(shown') <= bufferSize
           /\ source' \in Stream /\ source'.pc = "connecting" /\ source'.batch = <<>>
           /\ ~detached'
           /\ written = 0 => shown' = <<>>
           /\ at # 0 => shown' # <<>>
           /\ Run(shown') /\ Batched' /\ Joined'
<1>1. PICK n \in at..written : page \in PagesUpTo(n)
  BY DEF NewestPages
<1>2. n \in 0..MaxLines /\ (written = 0 => n = 0) /\ (at # 0 => n # 0)
  BY <1>1, ViewAssumption DEF ViewTyped
<1>3. /\ page \in Seq(1..MaxLines) /\ Len(page) <= bufferSize /\ Run(page)
      /\ n = 0 => page = <<>>
      /\ n # 0 => page # <<>> /\ page[Len(page)] = n
  BY <1>1, <1>2, PageIsRun
<1>4. /\ shown' = page /\ detached' = FALSE
      /\ source' = [pc |-> "connecting", since |-> n, next |-> 0, last |-> 0, batch |-> <<>>]
  BY <1>2, <1>3 DEF showLatest, openSSE, NoStream, Last
<1>5. /\ source'.pc = "connecting" /\ source'.batch = <<>> /\ Len(source'.batch) = 0
      /\ source'.since = n /\ source'.last = 0
  BY <1>4
<1>6. source' \in Stream
  BY <1>2, <1>4, EmptySeq, ViewAssumption DEF Stream
<1>7. Run(shown')
  BY <1>3, <1>4
<1>8. Batched'
  BY <1>5 DEF Batched, Ends
<1>9. Joined'
  BY <1>3, <1>4, <1>5 DEF Joined
<1> QED
  BY <1>2, <1>3, <1>4, <1>5, <1>6, <1>7, <1>8, <1>9

\* The stream opened again: at the same place unless it is marked.
LEMMA Connected ==
    ASSUME ViewInv, Connect
    PROVE  ViewInv'
<1>1. PICK next : /\ next = IF source.since > 0 THEN source.since + 1
                            ELSE Max({1, written - tailLines + 1})
                  /\ source' = [source EXCEPT !.pc = "open", !.next = next]
                  /\ crossed' = (crossed \/ (source.last > 0 /\ next # source.last + 1))
  BY DEF Connect
<1>2. next \in Nat /\ next > 0
  <2>1. 1 \in Int /\ written - tailLines + 1 \in Int /\ source.since \in Nat
    BY ViewAssumption DEF ViewInv, ViewTyped, Stream
  <2> QED
    BY <1>1, <2>1, OfTwo
<1>3. /\ source'.pc = "open" /\ source'.next = next /\ source'.since = source.since
      /\ source'.last = source.last /\ source'.batch = source.batch
      /\ source' \in Stream
  BY <1>1, <1>2 DEF ViewInv, ViewTyped, Stream
<1>4. source.pc = "connecting" /\ UNCHANGED <<written, shown, detached, resetting, first, more, newer>>
  BY DEF Connect
<1>5. ViewTyped' /\ Quiet'
  BY <1>2, <1>3, <1>4 DEF ViewInv, ViewTyped, Quiet
<1>6. ASSUME ~crossed' PROVE Run(shown') /\ Batched' /\ Joined'
  BY <1>1, <1>3, <1>4, <1>6 DEF ViewInv, Batched, Joined
<1> QED
  BY <1>5, <1>6 DEF ViewInv

\* The next line is one after those that wait.
LEMMA Delivered ==
    ASSUME ViewInv, OnMessage
    PROVE  ViewInv'
<1> DEFINE b == Append(source.batch, source.next)
           n == Len(source.batch)
<1>0. source.batch \in Seq(1..MaxLines) /\ source.next \in Nat /\ source.last \in 0..MaxLines
  BY DEF ViewInv, ViewTyped, Stream
<1>1. /\ source.pc = "open" /\ source.next <= written /\ source.next > 0 /\ source.next \in Nat
      /\ source.batch \in Seq(1..MaxLines) /\ source.next \in 1..MaxLines /\ n \in Nat
      /\ source.last \in Nat
  <2>1. n \in Nat
    BY <1>0, LenProperties
  <2>2. source.pc = "open" /\ source.next <= written /\ source.next > 0
    BY DEF OnMessage, ViewInv, ViewTyped
  <2>3. written \in Nat /\ written <= MaxLines
    BY ViewAssumption DEF ViewInv, ViewTyped
  <2> QED
    BY <1>0, <2>1, <2>2, <2>3, ViewAssumption
<1>2. /\ b \in Seq(1..MaxLines) /\ Len(b) = n + 1 /\ b[n + 1] = source.next
      /\ \A i \in 1..n : b[i] = source.batch[i]
  BY <1>1, AppendProperties
<1>3. /\ source'.pc = "open" /\ source'.since = source.since /\ source'.next = source.next + 1
      /\ source'.last = source.next /\ source'.batch = b
      /\ source' \in Stream
  <2>1. source' = [source EXCEPT !.batch = b, !.last = source.next, !.next = source.next + 1]
    BY DEF OnMessage, ViewInv, ViewTyped, Stream
  <2>2. b \in Seq(1..MaxLines) /\ source.next \in 0..MaxLines /\ source.next + 1 \in Nat
    BY <1>1, <1>2
  <2> HIDE DEF b
  <2> QED
    BY <1>1, <2>1, <2>2 DEF ViewInv, ViewTyped, Stream
<1>4. UNCHANGED <<written, shown, detached, resetting, first, more, newer, crossed>>
  BY DEF OnMessage
<1>5. ViewTyped' /\ Quiet'
  BY <1>1, <1>3, <1>4 DEF ViewInv, ViewTyped, Quiet
<1>6. ASSUME ~crossed PROVE Batched' /\ Joined'
  <2>1. Batched /\ Joined
    BY <1>6 DEF ViewInv
  <2>2. source.last = 0 => n = 0
    BY <2>1 DEF Batched
  <2>3. source.last > 0 => source.next = source.last + 1
    BY <1>1, <2>1 DEF Batched
  <2> HIDE DEF b
  <2>4. \A i \in 1..(n + 1) : b[i] = source.next - (n + 1) + i
    <3> SUFFICES ASSUME NEW i \in 1..(n + 1)
                 PROVE  b[i] = source.next - (n + 1) + i
      OBVIOUS
    <3>1. CASE i = n + 1
      BY <1>1, <1>2, <3>1
    <3>2. CASE i # n + 1
      <4>1. i \in 1..n /\ n # 0
        BY <1>1, <3>2
      <4>2. b[i] = source.last - n + i
        BY <1>2, <2>1, <4>1 DEF Batched, Ends
      <4>3. source.last \in Nat /\ source.next = source.last + 1
        BY <2>2, <2>3, <4>1 DEF ViewInv, ViewTyped, Stream
      <4> HIDE DEF n
      <4> QED
        BY <1>1, <4>1, <4>2, <4>3
    <3> QED
      BY <3>1, <3>2
  <2>5. Batched'
    BY <1>1, <1>2, <1>3, <2>4 DEF Batched, Ends
  <2>6. Joined'
    <3>1. CASE source.last > 0
      <4>1. shown # <<>> /\ ~detached => shown[Len(shown)] = source.last - n
        BY <2>1, <3>1 DEF Joined
      <4>2. source'.last > 0 /\ source'.last - Len(source'.batch) = source.last - n
        <5>1. Len(source'.batch) = n + 1 /\ source'.last = source.next
          BY <1>2, <1>3
        <5>2. source.next = source.last + 1
          BY <2>3, <3>1
        <5> HIDE DEF n
        <5> QED
          BY <1>1, <3>1, <5>1, <5>2
      <4> QED
        BY <1>4, <4>1, <4>2 DEF Joined
    <3>2. CASE source.last = 0 /\ shown # <<>> /\ ~detached
      <4>1. shown[Len(shown)] = source.since /\ source.since > 0
        <5>1. Len(shown) \in 1..Len(shown)
          BY <3>2, EmptySeq DEF ViewInv, ViewTyped
        <5>2. shown[Len(shown)] \in 1..MaxLines
          BY <5>1, ElementOfSeq DEF ViewInv, ViewTyped
        <5> QED
          BY <2>1, <3>2, <5>2 DEF Joined
      <4>2. source.next = source.since + 1 /\ source.since \in Nat
        BY <1>1, <2>1, <3>2, <4>1 DEF Batched, ViewInv, ViewTyped, Stream
      <4> QED
        BY <1>1, <1>2, <1>3, <1>4, <2>2, <3>2, <4>1, <4>2 DEF Joined
    <3> QED
      BY <1>1, <1>4, <3>1, <3>2 DEF Joined
  <2> QED
    BY <2>5, <2>6
<1> QED
  BY <1>4, <1>5, <1>6 DEF ViewInv

\* The waiting lines are put behind the buffer they follow, or dropped once it is detached.
LEMMA Flushed ==
    ASSUME ViewInv, Flush
    PROVE  ViewInv'
<1>0. /\ source.batch \in Seq(1..MaxLines) /\ shown \in Seq(1..MaxLines) /\ source.batch # <<>>
      /\ source.last \in Nat /\ source.since \in Nat /\ Len(shown) <= bufferSize
      /\ bufferSize \in Nat \ {0}
  BY ViewAssumption DEF Flush, ViewInv, ViewTyped, Stream
<1>1. Len(source.batch) \in Nat \ {0} /\ Len(shown) \in Nat /\ (shown = <<>> <=> Len(shown) = 0)
  BY <1>0, EmptySeq, LenProperties
<1>2. /\ source'.pc = source.pc /\ source'.since = source.since /\ source'.next = source.next
      /\ source'.last = source.last /\ source'.batch = <<>> /\ Len(source'.batch) = 0
      /\ source' \in Stream
  BY EmptySeq DEF Flush, ViewInv, ViewTyped, Stream
<1>3. /\ UNCHANGED <<written, resetting, first, more, newer, crossed>>
      /\ source.pc # "closed" /\ written # 0
  BY <1>0 DEF Flush, ViewInv, Quiet
<1>4. Batched => Batched'
  BY <1>2 DEF Batched, Ends
<1>5. CASE detached
  <2>1. shown' = shown /\ detached'
    BY <1>5 DEF Flush
  <2>2. ViewTyped' /\ Quiet' /\ Joined'
    BY <1>2, <1>3, <2>1 DEF ViewInv, ViewTyped, Quiet, Joined
  <2> QED
    BY <1>3, <1>4, <2>1, <2>2 DEF ViewInv
<1>6. CASE ~detached /\ detached'
  <2>1. shown' = shown
    BY <1>6 DEF Flush
  <2>2. ViewTyped' /\ Quiet' /\ Joined'
    BY <1>2, <1>3, <1>6, <2>1 DEF ViewInv, ViewTyped, Quiet, Joined
  <2> QED
    BY <1>3, <1>4, <2>1, <2>2 DEF ViewInv
<1>7. CASE ~detached /\ ~detached'
  <2> DEFINE all == shown \o source.batch
             kept == LastOf(all, bufferSize)
  <2>1. shown' = kept
    BY <1>7 DEF Flush
  <2>2. all \in Seq(1..MaxLines) /\ all # <<>>
    BY <1>0, ConcatProperties, ConcatEqualIffEmpty
  <2> HIDE DEF all
  <2>3. kept \in Seq(1..MaxLines) /\ Len(kept) \in 1..bufferSize
    BY <1>0, <2>2, LastLines
  <2>4. kept # <<>>
    BY <2>3
  <2> HIDE DEF kept
  <2>5. ViewTyped' /\ Quiet'
    BY <1>2, <1>3, <1>7, <2>1, <2>3, <2>4 DEF ViewInv, ViewTyped, Quiet
  <2>6. ASSUME ~crossed PROVE Run(shown') /\ Joined'
    <3>1. Run(shown) /\ Batched /\ Joined
      BY <2>6 DEF ViewInv
    <3>2. source.last > 0 /\ Ends(source.batch, source.last)
      BY <1>0, <3>1 DEF Batched
    <3>3. Ends(shown, source.last - Len(source.batch))
      <4>1. CASE shown = <<>>
        BY <1>1, <4>1 DEF Ends
      <4>2. CASE shown # <<>>
        BY <1>0, <1>7, <3>1, <3>2, <4>2, RunEnds DEF Joined
      <4> QED
        BY <4>1, <4>2
    <3>4. Ends(all, source.last)
      BY <1>0, <3>2, <3>3, EndsJoined DEF all
    <3>5. Ends(kept, source.last)
      BY <1>0, <2>2, <3>4, EndsLast DEF kept
    <3>6. Run(kept) /\ kept[Len(kept)] = source.last
      BY <1>0, <2>3, <2>4, <3>5, EndsRun
    <3> QED
      BY <1>0, <1>2, <2>1, <3>2, <3>6 DEF Joined
  <2> QED
    BY <1>3, <1>4, <2>5, <2>6 DEF ViewInv
<1> QED
  BY <1>5, <1>6, <1>7

\* A page of older lines is put in front of the buffer it was asked for; where the newest
\* give way, the buffer is detached.
LEMMA OlderShown ==
    ASSUME ViewInv, ApplyMore
    PROVE  ViewInv'
<1>1. /\ more # NotAsked /\ more' = NotAsked /\ more \in 1..MaxLines /\ shown # <<>>
      /\ UNCHANGED <<written, resetting, first, newer, source>>
      /\ source.pc # "closed" /\ written # 0 /\ shown \in Seq(1..MaxLines)
  BY DEF ApplyMore, ViewInv, ViewTyped, Quiet
<1>2. bufferSize \in Nat \ {0} /\ Len(shown) \in Nat \ {0} /\ more - 1 \in 0..MaxLines
      /\ Len(shown) <= bufferSize
  BY <1>1, EmptySeq, ViewAssumption DEF ViewInv, ViewTyped
<1>3. PICK older \in PagesUpTo(more - 1) :
         IF older = <<>> THEN UNCHANGED <<shown, detached, crossed>>
         ELSE Prepend(older) /\ crossed' = (crossed \/ shown[1] # more)
  BY DEF ApplyMore
<1>4. CASE older = <<>>
  <2>1. UNCHANGED <<shown, detached, crossed>>
    BY <1>3, <1>4
  <2> QED
    BY <1>1, <2>1 DEF ViewInv, ViewTyped, Quiet, Batched, Joined
<1>5. CASE older # <<>>
  <2>1. /\ older \in Seq(1..MaxLines) /\ Run(older) /\ older[Len(older)] = more - 1
        /\ Len(older) \in Nat \ {0}
    BY <1>2, <1>5, PageIsRun, EmptySeq
  <2> DEFINE all == older \o shown
             kept == FirstOf(all, bufferSize)
  <2>2. /\ shown' = kept /\ detached' = (detached \/ Len(older) + Len(shown) > bufferSize)
        /\ crossed' = (crossed \/ shown[1] # more)
    BY <1>3, <1>5 DEF Prepend
  <2>3. /\ all \in Seq(1..MaxLines) /\ all # <<>>
        /\ Len(all) = Len(older) + Len(shown)
    BY <1>1, <2>1, ConcatProperties, ConcatEqualIffEmpty
  <2> HIDE DEF all
  <2>4. kept \in Seq(1..MaxLines) /\ Len(kept) <= bufferSize /\ Len(kept) > 0
    BY <1>2, <2>3, FirstLines
  <2>5. kept # <<>>
    BY <2>4
  <2> HIDE DEF kept
  <2>6. ViewTyped' /\ Quiet'
    BY <1>1, <2>2, <2>4, <2>5 DEF ViewInv, ViewTyped, Quiet
  <2>7. ASSUME ~crossed' PROVE Run(shown') /\ Batched' /\ Joined'
    <3>1. ~crossed /\ shown[1] = more /\ Run(shown) /\ Batched /\ Joined
      BY <2>2, <2>7 DEF ViewInv
    <3>2. PICK z \in Nat : z = shown[Len(shown)]
      BY <1>1, <3>1, RunEnds
    <3>3. Ends(shown, z) /\ more = z - Len(shown) + 1
      BY <1>1, <3>1, <3>2, RunEnds
    <3>4. Ends(older, more - 1)
      BY <2>1, RunEnds
    <3>5. more - 1 = z - Len(shown)
      BY <1>2, <3>2, <3>3
    <3>6. Ends(all, z)
      BY <1>1, <2>1, <3>2, <3>3, <3>4, <3>5, EndsJoined DEF all
    <3>7. Run(kept) /\ (Len(all) <= bufferSize => Ends(kept, z))
      BY <1>2, <2>3, <3>2, <3>6, EndsFirst DEF kept
    <3>8. ~detached' => ~detached /\ Len(all) <= bufferSize
      <4>1. ~detached' => ~detached /\ ~(Len(older) + Len(shown) > bufferSize)
        BY <2>2
      <4> QED
        BY <1>2, <2>1, <2>3, <4>1
    <3>9. ~detached' => kept[Len(kept)] = z
      BY <2>4, <2>5, <3>2, <3>7, <3>8, EndsRun
    <3>10. Joined'
      BY <1>1, <2>2, <3>1, <3>2, <3>8, <3>9 DEF Joined
    <3>11. Batched'
      BY <1>1, <3>1 DEF Batched
    <3> QED
      BY <2>2, <3>7, <3>10, <3>11
  <2> QED
    BY <2>6, <2>7 DEF ViewInv
<1> QED
  BY <1>4, <1>5

\* What neither writes nor shows a line leaves the run as it is.
LEMMA NothingShown ==
    ASSUME ViewInv, UNCHANGED <<written, shown, detached, resetting, first, source, crossed>>,
           more' \in {more, NotAsked}, newer' \in {newer, NotAsked}
    PROVE  ViewInv'
<1>1. ViewTyped' /\ Quiet'
  BY DEF ViewInv, ViewTyped, Quiet
<1>2. ~crossed => Run(shown') /\ Batched' /\ Joined'
  BY DEF ViewInv, Batched, Joined
<1> QED
  BY <1>1, <1>2 DEF ViewInv

\* Every step keeps the buffer a run the stream goes on from, until a step marks it.
LEMMA ViewStep == ViewInv /\ [ViewNext]_viewVars => ViewInv'
<1> SUFFICES ASSUME ViewInv, [ViewNext]_viewVars PROVE ViewInv'
  OBVIOUS
<1>1. ViewTyped /\ Quiet
  BY DEF ViewInv
<1>2. CASE UNCHANGED viewVars \/ OnFollowChange \/ MoreFails \/ NewerFails
  <2>1. /\ UNCHANGED <<written, shown, detached, resetting, first, source, crossed>>
        /\ more' \in {more, NotAsked} /\ newer' \in {newer, NotAsked}
    BY <1>2 DEF viewVars, OnFollowChange, MoreFails, NewerFails
  <2> QED
    BY <2>1, NothingShown
<1>3. ASSUME NEW open \in BOOLEAN, Reopen(open) PROVE ViewInv'
  <2>1. /\ shown' = <<>> /\ detached' = FALSE /\ first' = NotAsked /\ more' = NotAsked
        /\ newer' = NotAsked /\ written' = written /\ shown' \in Seq(1..MaxLines)
        /\ Len(shown') = 0
    BY <1>3, EmptySeq DEF Reopen
  <2>2. /\ source'.pc = "closed" /\ source'.batch = <<>> /\ Len(source'.batch) = 0
        /\ source'.since = 0 /\ source'.last = 0
    BY <1>3 DEF Reopen, NoStream
  <2>3. source' \in Stream
    BY <1>3, EmptySeq, ViewAssumption DEF Reopen, NoStream, Stream
  <2>4. ViewTyped' /\ Quiet'
    BY <1>1, <2>1, <2>2, <2>3, ViewAssumption DEF ViewTyped, Quiet
  <2>5. Run(shown') /\ Batched' /\ Joined'
    BY <2>1, <2>2 DEF Run, Ends, Batched, Joined
  <2> QED
    BY <2>4, <2>5 DEF ViewInv
<1>4. CASE Reset
  <2>1. /\ resetting /\ ~resetting' /\ first' \in {written, NotAsked}
        /\ UNCHANGED <<written, shown, detached, more, newer, source, crossed>>
    BY <1>4 DEF Reset
  <2>2. ViewTyped' /\ Quiet'
    BY <1>1, <2>1 DEF ViewTyped, Quiet
  <2> QED
    BY <2>1, <2>2 DEF ViewInv, Batched, Joined
<1>5. CASE ShowFirst
  <2>1. /\ first # NotAsked /\ first' = NotAsked
        /\ UNCHANGED <<written, resetting, more, newer, crossed>>
    BY <1>5 DEF ShowFirst
  <2>2. first \in 0..MaxLines /\ ~resetting /\ more = NotAsked /\ newer = NotAsked
    BY <1>1, <2>1 DEF ViewTyped, Quiet
  <2>3. PICK page \in NewestPages(first) : showLatest(page)
    BY <1>5 DEF ShowFirst
  <2>4. /\ shown' \in Seq(1..MaxLines) /\ Len(shown') <= bufferSize
        /\ source' \in Stream /\ source'.pc = "connecting" /\ source'.batch = <<>>
        /\ ~detached' /\ (written = 0 => shown' = <<>>)
        /\ Run(shown') /\ Batched' /\ Joined'
    BY <1>1, <2>1, <2>2, <2>3, LatestShown
  <2>5. ViewTyped' /\ Quiet'
    BY <1>1, <2>1, <2>2, <2>4 DEF ViewTyped, Quiet
  <2> QED
    BY <2>4, <2>5 DEF ViewInv
<1>6. CASE FirstFails
  <2>1. /\ first # NotAsked /\ first' = NotAsked /\ source' = openSSE(0)
        /\ UNCHANGED <<written, shown, detached, resetting, more, newer, crossed>>
    BY <1>6 DEF FirstFails
  <2>2. /\ source'.pc = "connecting" /\ source'.batch = <<>> /\ Len(source'.batch) = 0
        /\ source'.since = 0 /\ source'.last = 0
    BY <2>1 DEF openSSE, NoStream
  <2>3. source' \in Stream
    <3>1. source' = [pc |-> "connecting", since |-> 0, next |-> 0, last |-> 0,
                     batch |-> <<>>]
      BY <2>1 DEF openSSE, NoStream
    <3>2. <<>> \in Seq(1..MaxLines) /\ 0 \in 0..MaxLines /\ 0 \in Nat
      BY EmptySeq, ViewAssumption
    <3> QED
      BY <3>1, <3>2 DEF Stream
  <2>4. shown = <<>> /\ ~resetting /\ more = NotAsked /\ newer = NotAsked /\ ~detached
    BY <1>1, <2>1 DEF Quiet
  <2>5. ViewTyped' /\ Quiet'
    BY <1>1, <2>1, <2>2, <2>3, <2>4 DEF ViewTyped, Quiet
  <2>6. Batched' /\ Joined'
    BY <2>1, <2>2, <2>4 DEF Ends, Batched, Joined
  <2> QED
    BY <2>1, <2>5, <2>6 DEF ViewInv
<1>7. CASE Break \/ Refuse
  <2>1. /\ source'.pc \in {"connecting", "refused"} /\ source.pc # "closed"
        /\ source' = [source EXCEPT !.pc = source'.pc]
        /\ UNCHANGED <<written, shown, detached, resetting, first, more, newer, crossed>>
    BY <1>1, <1>7 DEF Break, Refuse, ViewTyped, Stream
  <2>2. /\ source'.since = source.since /\ source'.last = source.last
        /\ source'.batch = source.batch /\ source' \in Stream
    BY <1>1, <2>1 DEF ViewTyped, Stream
  <2>3. ViewTyped' /\ Quiet'
    BY <1>1, <2>1, <2>2 DEF ViewTyped, Quiet
  <2>4. ~crossed => Batched' /\ Joined'
    BY <2>1, <2>2 DEF ViewInv, Batched, Joined
  <2> QED
    BY <2>1, <2>3, <2>4 DEF ViewInv
<1>8. CASE LoadMore
  <2>1. UNCHANGED <<written, shown, detached, resetting, first, newer, source, crossed>>
    BY <1>8 DEF LoadMore
  <2>2. CASE shown = <<>>
    <3>1. more' = more /\ newer' = newer
      BY <1>8, <2>1, <2>2 DEF LoadMore
    <3> QED
      BY <2>1, <3>1, NothingShown
  <2>3. CASE shown # <<>>
    <3>1. more' = shown[1] /\ 1 \in 1..Len(shown)
      BY <1>1, <1>8, <2>3, EmptySeq DEF LoadMore, ViewTyped
    <3>2. more' \in 1..MaxLines
      BY <1>1, <3>1, ElementOfSeq DEF ViewTyped
    <3>3. ViewTyped' /\ Quiet'
      BY <1>1, <2>1, <2>3, <3>2 DEF ViewTyped, Quiet
    <3> QED
      BY <2>1, <3>3 DEF ViewInv, Batched, Joined
  <2> QED
    BY <2>2, <2>3
<1>9. CASE LoadNewer
  <2>1. /\ detached /\ newer' = written
        /\ UNCHANGED <<written, shown, detached, resetting, first, more, source, crossed>>
    BY <1>9 DEF LoadNewer
  <2>2. newer' \in 1..MaxLines /\ source.pc # "closed"
    BY <1>1, <2>1, ViewAssumption DEF ViewTyped, Quiet
  <2>3. ViewTyped' /\ Quiet'
    BY <1>1, <2>1, <2>2 DEF ViewTyped, Quiet
  <2> QED
    BY <2>1, <2>3 DEF ViewInv, Batched, Joined
<1>10. CASE ApplyNewer
  <2>1. /\ newer # NotAsked /\ newer' = NotAsked
        /\ UNCHANGED <<written, resetting, first, more>>
    BY <1>10 DEF ApplyNewer
  <2>2. newer \in 1..MaxLines /\ newer \in 0..MaxLines /\ newer # 0 /\ source.pc # "closed"
    <3>1. newer \in 1..MaxLines
      BY <1>1, <2>1 DEF ViewTyped
    <3>2. source.pc # "closed"
      BY <1>1, <2>1 DEF Quiet
    <3> QED
      BY <3>1, <3>2, ViewAssumption
  <2>3. PICK page \in NewestPages(newer) : showLatest(page)
    BY <1>10 DEF ApplyNewer
  <2>4. /\ shown' \in Seq(1..MaxLines) /\ Len(shown') <= bufferSize /\ shown' # <<>>
        /\ source' \in Stream /\ source'.pc = "connecting" /\ source'.batch = <<>>
        /\ ~detached' /\ (written = 0 => shown' = <<>>)
        /\ Run(shown') /\ Batched' /\ Joined'
    BY <1>1, <2>1, <2>2, <2>3, LatestShown
  <2>5. ViewTyped' /\ Quiet'
    BY <1>1, <2>1, <2>2, <2>4 DEF ViewTyped, Quiet
  <2> QED
    BY <2>4, <2>5 DEF ViewInv
<1>11. CASE WriteLine
  <2>1. /\ written' = written + 1 /\ written < MaxLines
        /\ UNCHANGED <<shown, detached, resetting, first, more, newer, source, crossed>>
    BY <1>11 DEF WriteLine
  <2>2. written' \in 1..MaxLines /\ written' \in 0..MaxLines
    BY <1>1, <2>1, ViewAssumption DEF ViewTyped
  <2>3. ViewTyped' /\ Quiet'
    BY <1>1, <2>1, <2>2 DEF ViewTyped, Quiet
  <2> QED
    BY <2>1, <2>3 DEF ViewInv, Batched, Joined
<1> QED
  BY <1>2, <1>3, <1>4, <1>5, <1>6, <1>7, <1>8, <1>9, <1>10, <1>11,
     Connected, Delivered, Flushed, OlderShown DEF ViewNext

\* A run is contiguous.
LEMMA RunContiguous ==
    ASSUME NEW s \in Seq(Int), Run(s)
    PROVE  Contiguous(s)
<1>1. PICK n \in Nat : n = Len(s)
  BY LenProperties
<1>2. \A i \in 1..n : s[i] = s[1] + i - 1
  BY <1>1 DEF Run
<1>3. n > 0 => s[1] \in Int
  BY <1>1, ElementOfSeq
<1>4. \A i \in 1..(n - 1) : s[i + 1] = s[i] + 1
  <2> SUFFICES ASSUME NEW i \in 1..(n - 1) PROVE s[i + 1] = s[i] + 1
    OBVIOUS
  <2>1. i \in 1..n /\ i + 1 \in 1..n /\ n > 0
    OBVIOUS
  <2>2. s[i] = s[1] + i - 1 /\ s[i + 1] = s[1] + (i + 1) - 1 /\ s[1] \in Int
    BY <1>2, <1>3, <2>1
  <2> QED
    BY <2>2
<1> QED
  BY <1>1, <1>4 DEF Contiguous

\* What the view shows, what waits and what the server sends next are one run as long as
\* the buffer is attached: the lines up to the next one, each a part that the following
\* part goes on from.
LEMMA ViewInvSuffices == ViewInv => ViewSound
<1> SUFFICES ASSUME ViewInv PROVE ViewSound
  OBVIOUS
<1>1. /\ shown \in Seq(1..MaxLines) /\ source.batch \in Seq(1..MaxLines)
      /\ source.next \in Nat /\ source.last \in Nat /\ source.since \in Nat
  BY ViewAssumption DEF ViewInv, ViewTyped, Stream
<1>2. PICK n \in Nat, m \in Nat : n = Len(shown) /\ m = Len(source.batch)
  BY <1>1, LenProperties
<1>3. OneRunUnlessCrossed
  <2> SUFFICES ASSUME ~crossed PROVE Contiguous(shown)
    BY DEF OneRunUnlessCrossed, OneRun
  <2>1. shown \in Seq(Int)
    <3>1. \A i \in 1..n : shown[i] \in 1..MaxLines
      BY <1>1, <1>2, ElementOfSeq
    <3>2. \A i \in 1..n : shown[i] \in Int
      BY <3>1
    <3> QED
      BY <1>1, <1>2, <3>2, SeqDef
  <2> QED
    BY <2>1, RunContiguous DEF ViewInv
<1>4. AttachedFollows
  <2> SUFFICES ASSUME ~crossed, ~detached, source.pc = "open"
               PROVE  Contiguous(shown \o source.batch \o <<source.next>>)
    BY DEF AttachedFollows
  <2>1. Run(shown) /\ Batched /\ Joined
    BY DEF ViewInv
  <2>2. PICK z \in Int : z = source.next - 1
    BY <1>1
  <2>3. Ends(source.batch, z)
    <3>1. CASE source.last > 0
      <4>1. source.last = z
        BY <1>1, <2>1, <2>2, <3>1 DEF Batched
      <4> QED
        BY <2>1, <4>1 DEF Batched
    <3>2. CASE source.last = 0
      <4>1. Len(source.batch) = 0
        BY <2>1, <3>2, EmptySeq DEF Batched
      <4> QED
        BY <4>1 DEF Ends
    <3> QED
      BY <1>1, <3>1, <3>2
  <2>4. Ends(shown, z - m)
    <3>1. CASE shown = <<>>
      <4>1. Len(shown) = 0
        BY <3>1, EmptySeq
      <4> QED
        BY <4>1 DEF Ends
    <3>2. CASE shown # <<>>
      <4>1. PICK y \in Nat : y = shown[n] /\ Ends(shown, y)
        BY <1>1, <1>2, <2>1, <3>2, RunEnds
      <4>2. n \in 1..n
        BY <1>1, <1>2, <3>2, EmptySeq
      <4>3. y > 0
        <5>1. shown[n] \in 1..MaxLines
          BY <1>1, <1>2, <4>2, ElementOfSeq
        <5> QED
          BY <4>1, <5>1
      <4>4. y = IF source.last > 0 THEN source.last - m ELSE source.since
        BY <1>2, <2>1, <3>2, <4>1 DEF Joined
      <4>5. y = z - m
        <5>1. CASE source.last > 0
          <6>1. source.next = source.last + 1
            BY <2>1, <5>1 DEF Batched
          <6> QED
            BY <1>1, <1>2, <2>2, <4>4, <5>1, <6>1
        <5>2. CASE source.last = 0
          <6>1. m = 0
            BY <1>2, <2>1, <5>2, EmptySeq DEF Batched
          <6>2. y = source.since
            BY <4>4, <5>2
          <6>3. source.next = source.since + 1
            BY <2>1, <4>3, <5>2, <6>2 DEF Batched
          <6> QED
            BY <1>1, <2>2, <6>1, <6>2, <6>3
        <5> QED
          BY <1>1, <5>1, <5>2
      <4> QED
        BY <4>1, <4>5
    <3> QED
      BY <3>1, <3>2
  <2> DEFINE s == shown \o source.batch
             t == s \o <<source.next>>
  <2>5. s \in Seq(1..MaxLines) /\ Ends(s, z) /\ Len(s) = n + m
    BY <1>1, <1>2, <2>2, <2>3, <2>4, EndsJoined
  <2> HIDE DEF s
  <2>6. PICK k \in Nat : k = Len(s)
    BY <1>2, <2>5
  <2>7. \A i \in 1..k : s[i] = z - k + i
    BY <2>5, <2>6 DEF Ends
  <2>8. t = Append(s, source.next)
    BY <2>5
  <2>9. Len(t) = k + 1 /\ t[k + 1] = z + 1 /\ \A i \in 1..k : t[i] = s[i]
    <3>1. s \in Seq(Int) /\ source.next \in Int
      <4>1. \A i \in 1..k : s[i] \in Int
        BY <2>7
      <4> QED
        BY <1>1, <2>5, <2>6, <4>1, SeqDef
    <3>2. /\ Len(Append(s, source.next)) = k + 1
          /\ Append(s, source.next)[k + 1] = source.next
          /\ \A i \in 1..k : Append(s, source.next)[i] = s[i]
      BY <2>6, <3>1, AppendProperties
    <3>3. source.next = z + 1
      BY <1>1, <2>2
    <3> QED
      BY <2>8, <3>2, <3>3
  <2> HIDE DEF t
  <2>10. \A i \in 1..(k + 1) : t[i] = z - k + i
    BY <2>7, <2>9
  <2>11. \A i \in 1..k : t[i + 1] = t[i] + 1
    BY <2>10
  <2>12. Len(t) - 1 = k
    BY <2>9
  <2>13. Contiguous(t)
    BY <2>11, <2>12 DEF Contiguous
  <2> QED
    BY <2>13 DEF s, t
<1> QED
  BY <1>3, <1>4 DEF ViewSound

\* For a log of any length, any page and buffer size: through any order of pages, live
\* lines, scrolling, detaching, breaks and reopenings the buffer is one contiguous run, and
\* an attached one goes on with the lines that wait and the one the server sends next,
\* until a stream is opened again elsewhere than it broke off or a page of older lines
\* meets another buffer than it was asked for (useLogs.ts:74, showLatest, flush, loadMore).
THEOREM LogIsOneRun == ViewSpec => []ViewSound
<1>1. ViewSpec => []ViewInv
  BY ViewStart, ViewStep, PTL DEF ViewSpec
<1> QED
  BY <1>1, ViewInvSuffices, PTL

-----------------------------------------------------------------------------
(* The log windows.                                                        *)

Tab == [container : Workload, search : Texts]
WindowType == [id : Nat \ {0}, tabs : Seq(Tab), active : Nat, minimized : BOOLEAN]
Frame == [x : Int, y : Int, w : Int, h : Int, vw : Int, vh : Int]
GestureType == [kind : {"none", "move", "resize", "tab"}, id : Nat, tab : Nat,
                edge : SUBSET {"n", "s", "e", "w"}, from : Frame, dragged : BOOLEAN]

WindowsTyped ==
  /\ windows \in Seq(WindowType) /\ depth \in Seq(Nat) /\ nextId \in Nat \ {0}
  /\ gesture \in GestureType /\ frame \in Frame /\ typed \in [Workload -> Texts]

\* The windows ws have ids of their own, each shows one of its tabs, no container is in
\* two, and each tab has the search ty its container has.
OneEach(ws, ty) ==
  /\ \A i \in DOMAIN ws : ws[i].active \in DOMAIN ws[i].tabs
  /\ \A i, j \in DOMAIN ws : ws[i].id = ws[j].id => i = j
  /\ \A i, j \in DOMAIN ws : \A k \in DOMAIN ws[i].tabs, l \in DOMAIN ws[j].tabs :
        ws[i].tabs[k].container = ws[j].tabs[l].container => i = j /\ k = l
  /\ \A i \in DOMAIN ws : \A k \in DOMAIN ws[i].tabs :
        ws[i].tabs[k].search = ty[ws[i].tabs[k].container]

\* No window of ws has a tab of container c.
Absent(ws, c) == \A i \in DOMAIN ws : \A k \in DOMAIN ws[i].tabs : ws[i].tabs[k].container # c

Elements(s) == {s[i] : i \in DOMAIN s}
IdsOf(ws) == {ws[i].id : i \in DOMAIN ws}
NoTwice(s) == \A i, j \in DOMAIN s : s[i] = s[j] => i = j

\* The ids of windows ws, each once.
Stacked(d, ws) == NoTwice(d) /\ Len(d) = Len(ws) /\ Elements(d) = IdsOf(ws)

\* A gesture is made on a window that is shown, and a tab pressed on one of several.
Grabbed ==
  /\ gesture.kind \in {"move", "resize"} =>
       \E i \in DOMAIN windows : windows[i].id = gesture.id /\ ~windows[i].minimized
  /\ gesture.kind = "tab" /\ ~gesture.dragged =>
       \E i \in DOMAIN windows :
          /\ windows[i].id = gesture.id
          /\ Len(windows[i].tabs) > 1 /\ gesture.tab \in DOMAIN windows[i].tabs

Reachable ==
  gesture.kind = "move" /\ gesture.dragged =>
     /\ frame.x >= 0 /\ frame.x + frame.w <= Max({frame.w, frame.vw})
     /\ frame.y >= HEADER_HEIGHT /\ frame.y <= Max({HEADER_HEIGHT, frame.vh - DockMargin})

WindowsInv ==
  /\ WindowsTyped
  /\ OneEach(windows, typed)
  /\ Stacked(depth, windows)
  /\ \A id \in IdsOf(windows) : id < nextId
  /\ Grabbed
  /\ Reachable

\* A sequence without one of its elements.
LEMMA RemovedAt ==
    ASSUME NEW S, NEW s \in Seq(S), NEW p \in 1..Len(s)
    PROVE  /\ RemoveAt(s, p) \in Seq(S) /\ Len(RemoveAt(s, p)) = Len(s) - 1
           /\ \A k \in 1..(Len(s) - 1) :
                 RemoveAt(s, p)[k] = IF k < p THEN s[k] ELSE s[k + 1]
<1> DEFINE a == SubSeq(s, 1, p - 1)
           b == SubSeq(s, p + 1, Len(s))
<1>1. Len(s) \in Nat /\ \A i \in 1..Len(s) : s[i] \in S
  BY LenProperties
<1>2. /\ a \in Seq(S) /\ Len(a) = p - 1
      /\ \A k \in 1..(p - 1) : a[k] = s[k]
  <2>1. \A i \in 1..(p - 1) : s[i] \in S
    BY <1>1
  <2>2. 1 \in Int /\ p - 1 \in Int
    BY <1>1
  <2> QED
    BY <1>1, <2>1, <2>2, SubSeqProperties
<1>3. /\ b \in Seq(S) /\ Len(b) = Len(s) - p
      /\ \A k \in 1..(Len(s) - p) : b[k] = s[p + k]
  <2>1. \A i \in (p + 1)..Len(s) : s[i] \in S
    BY <1>1
  <2> QED
    BY <1>1, <2>1, SubSeqProperties
<1>4. RemoveAt(s, p) = a \o b
  BY DEF RemoveAt
<1> HIDE DEF a, b
<1>5. /\ a \o b \in Seq(S) /\ Len(a \o b) = Len(a) + Len(b)
      /\ \A k \in 1..(Len(a) + Len(b)) : (a \o b)[k] = IF k <= Len(a) THEN a[k] ELSE b[k - Len(a)]
  BY <1>2, <1>3, ConcatProperties
<1>6. Len(a) + Len(b) = Len(s) - 1
  BY <1>1, <1>2, <1>3
<1>7. ASSUME NEW k \in 1..(Len(s) - 1)
      PROVE  (a \o b)[k] = IF k < p THEN s[k] ELSE s[k + 1]
  <2>1. CASE k < p
    BY <1>1, <1>2, <1>5, <1>6, <2>1
  <2>2. CASE ~(k < p)
    <3>1. (a \o b)[k] = b[k - Len(a)] /\ k - Len(a) = k - p + 1 /\ k - p + 1 \in 1..(Len(s) - p)
      BY <1>1, <1>2, <1>5, <1>6, <2>2
    <3>2. b[k - p + 1] = s[p + (k - p + 1)]
      BY <1>3, <3>1
    <3>3. p + (k - p + 1) = k + 1
      BY <1>1
    <3>4. (a \o b)[k] = s[k + 1]
      BY <3>1, <3>2, <3>3
    <3> QED
      BY <2>2, <3>4
  <2> QED
    BY <2>1, <2>2
<1> QED
  BY <1>4, <1>5, <1>6, <1>7

\* What leaving out place p does to the places after it.
Skip(k, p) == IF k < p THEN k ELSE k + 1

\* Skip leaves out p and nothing else, and takes each place once.
LEMMA SkipIs ==
    ASSUME NEW n \in Nat, NEW p \in 1..n
    PROVE  /\ \A k \in 1..(n - 1) : Skip(k, p) \in 1..n /\ Skip(k, p) # p
           /\ \A k, l \in 1..(n - 1) : Skip(k, p) = Skip(l, p) => k = l
           /\ \A i \in 1..n : i # p => \E k \in 1..(n - 1) : Skip(k, p) = i
<1>1. ASSUME NEW i \in 1..n, i # p
      PROVE  \E k \in 1..(n - 1) : Skip(k, p) = i
  <2>1. CASE i < p
    BY <2>1 DEF Skip
  <2>2. CASE i > p
    <3>1. i - 1 \in 1..(n - 1) /\ Skip(i - 1, p) = i
      BY <2>2 DEF Skip
    <3> QED
      BY <3>1
  <2> QED
    BY <1>1, <2>1, <2>2
<1> QED
  BY <1>1 DEF Skip

\* A sequence without one element has those at the places Skip leaves.
LEMMA RemovedSkips ==
    ASSUME NEW S, NEW s \in Seq(S), NEW p \in DOMAIN s
    PROVE  LET r == RemoveAt(s, p)
           IN /\ r \in Seq(S) /\ Len(r) = Len(s) - 1
              /\ \A k \in DOMAIN r : Skip(k, p) \in DOMAIN s /\ Skip(k, p) # p
                                     /\ r[k] = s[Skip(k, p)]
              /\ \A k, l \in DOMAIN r : Skip(k, p) = Skip(l, p) => k = l
              /\ \A i \in DOMAIN s : i # p => \E k \in DOMAIN r : Skip(k, p) = i
<1> DEFINE r == RemoveAt(s, p)
<1>1. PICK n \in Nat : n = Len(s)
  BY LenProperties
<1>2. DOMAIN s = 1..n
  BY <1>1, LenProperties
<1>3. r \in Seq(S) /\ Len(r) = n - 1
  BY <1>1, <1>2, RemovedAt
<1>4. DOMAIN r = 1..(n - 1)
  BY <1>3, LenProperties
<1>5. \A k \in 1..(n - 1) : r[k] = s[Skip(k, p)]
  BY <1>1, <1>2, RemovedAt DEF Skip
<1> HIDE DEF r
<1>6. /\ \A k \in DOMAIN r : Skip(k, p) \in DOMAIN s /\ Skip(k, p) # p
      /\ \A k, l \in DOMAIN r : Skip(k, p) = Skip(l, p) => k = l
      /\ \A i \in DOMAIN s : i # p => \E k \in DOMAIN r : Skip(k, p) = i
  <2>1. p \in 1..n
    BY <1>2
  <2>2. /\ \A k \in 1..(n - 1) : Skip(k, p) \in 1..n /\ Skip(k, p) # p
        /\ \A k, l \in 1..(n - 1) : Skip(k, p) = Skip(l, p) => k = l
        /\ \A i \in 1..n : i # p => \E k \in 1..(n - 1) : Skip(k, p) = i
    BY <2>1, SkipIs
  <2> QED
    BY <1>2, <1>4, <2>2, Zenon
<1> QED
  BY <1>1, <1>3, <1>4, <1>5, <1>6 DEF r

\* What has each element once, without one of them.
LEMMA RemovedOnce ==
    ASSUME NEW S, NEW s \in Seq(S), NoTwice(s), NEW e
    PROVE  /\ RemoveFirst(s, e) \in Seq(S) /\ NoTwice(RemoveFirst(s, e))
           /\ Elements(RemoveFirst(s, e)) = Elements(s) \ {e}
           /\ Len(RemoveFirst(s, e)) = IF e \in Elements(s) THEN Len(s) - 1 ELSE Len(s)
<1>1. CASE e \notin Elements(s)
  <2>1. RemoveFirst(s, e) = s
    <3>1. DOMAIN s = 1..Len(s)
      BY LenProperties
    <3> QED
      BY <1>1, <3>1 DEF Elements, RemoveFirst
  <2> QED
    BY <1>1, <2>1
<1>2. CASE e \in Elements(s)
  <2>1. PICK p \in DOMAIN s : s[p] = e
    BY <1>2 DEF Elements
  <2> DEFINE r == RemoveAt(s, p)
  <2>2. {i \in 1..Len(s) : s[i] = e} = {p} /\ \E i \in 1..Len(s) : s[i] = e
    <3>1. DOMAIN s = 1..Len(s)
      BY LenProperties
    <3> QED
      BY <2>1, <3>1 DEF NoTwice
  <2>3. Min({p}) = p
    <3>1. p \in Int /\ {p, p} = {p}
      BY LenProperties
    <3>2. Min({p, p}) = p
      BY <3>1, OfTwo
    <3> QED
      BY <3>1, <3>2
  <2>4. RemoveFirst(s, e) = r
    BY <2>2, <2>3 DEF RemoveFirst, SelectInSeq
  <2>5. /\ r \in Seq(S) /\ Len(r) = Len(s) - 1
        /\ \A k \in DOMAIN r : Skip(k, p) \in DOMAIN s /\ Skip(k, p) # p /\ r[k] = s[Skip(k, p)]
        /\ \A k, l \in DOMAIN r : Skip(k, p) = Skip(l, p) => k = l
        /\ \A i \in DOMAIN s : i # p => \E k \in DOMAIN r : Skip(k, p) = i
    BY RemovedSkips
  <2> HIDE DEF r
  <2>6. NoTwice(r)
    BY <2>5 DEF NoTwice
  <2>7. Elements(r) \subseteq Elements(s) \ {e}
    BY <2>1, <2>5 DEF Elements, NoTwice
  <2>8. ASSUME NEW x \in Elements(s) \ {e}
        PROVE  x \in Elements(r)
    <3>1. PICK i \in DOMAIN s : s[i] = x /\ i # p
      BY <2>1, <2>8 DEF Elements
    <3> QED
      BY <2>5, <3>1 DEF Elements
  <2> QED
    BY <1>2, <2>4, <2>5, <2>6, <2>7, <2>8
<1> QED
  BY <1>1, <1>2

\* One more element goes behind the others.
LEMMA Appended ==
    ASSUME NEW S, NEW s \in Seq(S), NEW e \in S
    PROVE  LET r == Append(s, e)
               z == Len(s) + 1
           IN /\ r \in Seq(S) /\ Len(r) = z /\ r[z] = e
              /\ DOMAIN r = DOMAIN s \union {z} /\ z \notin DOMAIN s
              /\ \A k \in DOMAIN s : r[k] = s[k]
<1> DEFINE r == Append(s, e)
<1>1. PICK n \in Nat : n = Len(s)
  BY LenProperties
<1>2. DOMAIN s = 1..n
  BY <1>1, LenProperties
<1>3. r \in Seq(S) /\ Len(r) = n + 1 /\ r[n + 1] = e /\ \A k \in 1..n : r[k] = s[k]
  BY <1>1, AppendProperties
<1>4. DOMAIN r = 1..(n + 1)
  BY <1>3, LenProperties
<1> HIDE DEF r
<1>5. 1..(n + 1) = (1..n) \union {n + 1} /\ n + 1 \notin 1..n
  OBVIOUS
<1> QED
  BY <1>1, <1>2, <1>3, <1>4, <1>5 DEF r

\* Raising a window puts its id in front, once.
LEMMA RaisedOnce ==
    ASSUME NEW id \in Nat, depth \in Seq(Nat), NoTwice(depth)
    PROVE  /\ Raised(id) \in Seq(Nat) /\ NoTwice(Raised(id))
           /\ Elements(Raised(id)) = Elements(depth) \union {id}
           /\ Len(Raised(id)) = IF id \in Elements(depth) THEN Len(depth) ELSE Len(depth) + 1
<1> DEFINE b == Behind(id)
<1>1. /\ b \in Seq(Nat) /\ NoTwice(b) /\ Elements(b) = Elements(depth) \ {id}
      /\ Len(b) = IF id \in Elements(depth) THEN Len(depth) - 1 ELSE Len(depth)
  BY RemovedOnce DEF Behind
<1>2. Len(depth) \in Nat /\ Len(b) \in Nat
  BY <1>1, LenProperties
<1> HIDE DEF b
<1> DEFINE r == Append(b, id)
           z == Len(b) + 1
<1>3. /\ r \in Seq(Nat) /\ Len(r) = z /\ r[z] = id
      /\ DOMAIN r = DOMAIN b \union {z} /\ z \notin DOMAIN b
      /\ \A k \in DOMAIN b : r[k] = b[k]
  BY <1>1, Appended
<1>4. Raised(id) = r
  BY DEF Raised, b
<1>5. \A k \in DOMAIN b : b[k] # id
  BY <1>1 DEF Elements
<1> HIDE DEF r
<1>6. Len(r) = IF id \in Elements(depth) THEN Len(depth) ELSE Len(depth) + 1
  BY <1>1, <1>2, <1>3
<1> HIDE DEF z
<1>7. Elements(r) = Elements(b) \union {id}
  BY <1>3 DEF Elements
<1>8. NoTwice(r)
  BY <1>1, <1>3, <1>5 DEF NoTwice
<1> QED
  BY <1>1, <1>3, <1>4, <1>6, <1>7, <1>8

-----------------------------------------------------------------------------
(* What a change of the windows leaves true.                               *)

\* Two windows of one id are the same one, and Window finds it.
LEMMA WindowIs ==
    ASSUME OneEach(windows, typed), NEW p \in DOMAIN windows
    PROVE  Window(windows[p].id) = windows[p]
<1>1. windows[p] \in ToSet(windows)
  BY DEF ToSet
<1>2. \A w \in ToSet(windows) : w.id = windows[p].id => w = windows[p]
  BY DEF ToSet, OneEach
<1> QED
  BY <1>1, <1>2 DEF Window

\* Leaving out the window with an id is leaving out the one.
LEMMA WithoutIs ==
    ASSUME NEW ws \in Seq(WindowType), NEW p \in DOMAIN ws,
           \A i \in DOMAIN ws : ws[i].id = ws[p].id => i = p
    PROVE  Without(ws, ws[p].id) = RemoveAt(ws, p)
<1>1. /\ {i \in 1..Len(ws) : ws[i].id = ws[p].id} = {p}
      /\ \E i \in 1..Len(ws) : ws[i].id = ws[p].id
  <2>1. DOMAIN ws = 1..Len(ws)
    BY LenProperties
  <2> QED
    BY <2>1
<1>2. Min({p}) = p
  <2>1. p \in Int /\ {p, p} = {p}
    BY LenProperties
  <2>2. Min({p, p}) = p
    BY <2>1, OfTwo
  <2> QED
    BY <2>1, <2>2
<1> QED
  BY <1>1, <1>2 DEF Without, RemoveFirstMatch, SelectInSeq

\* The same ids in the same places.
LEMMA SameIds ==
    ASSUME NEW ws, NEW vs, DOMAIN vs = DOMAIN ws, \A i \in DOMAIN ws : vs[i].id = ws[i].id
    PROVE  IdsOf(vs) = IdsOf(ws)
BY DEF IdsOf

\* Window i of vs is window home[i] of ws, and its tab k is tab col[i][k] of window
\* row[i][k] of ws.
Comes(vs, ws, home) ==
  /\ \A i \in DOMAIN vs : \E a \in DOMAIN ws : a = home[i] /\ vs[i].id = ws[a].id
  /\ \A i, j \in DOMAIN vs : home[i] = home[j] => i = j
ComesTab(vs, ws, row, col) ==
  /\ \A i \in DOMAIN vs : \A k \in DOMAIN vs[i].tabs :
        \E a \in DOMAIN ws : \E b \in DOMAIN ws[a].tabs :
           a = row[i][k] /\ b = col[i][k] /\ vs[i].tabs[k] = ws[a].tabs[b]
  /\ \A i, j \in DOMAIN vs : \A k \in DOMAIN vs[i].tabs, l \in DOMAIN vs[j].tabs :
        row[i][k] = row[j][l] /\ col[i][k] = col[j][l] => i = j /\ k = l

\* Then nothing is in vs twice that is in ws once.
LEMMA MovedSound ==
    ASSUME NEW ws, NEW vs, NEW ty, OneEach(ws, ty), NEW home, NEW row, NEW col,
           Comes(vs, ws, home), ComesTab(vs, ws, row, col),
           \A i \in DOMAIN vs : vs[i].active \in DOMAIN vs[i].tabs
    PROVE  OneEach(vs, ty)
<1>1. ASSUME NEW i \in DOMAIN vs, NEW j \in DOMAIN vs, vs[i].id = vs[j].id
      PROVE  i = j
  <2>1. PICK a \in DOMAIN ws : a = home[i] /\ vs[i].id = ws[a].id
    BY DEF Comes
  <2>2. PICK b \in DOMAIN ws : b = home[j] /\ vs[j].id = ws[b].id
    BY DEF Comes
  <2>3. ws[a].id = ws[b].id
    BY <1>1, <2>1, <2>2
  <2>4. \A x, y \in DOMAIN ws : ws[x].id = ws[y].id => x = y
    BY DEF OneEach
  <2>5. a = b
    BY <2>3, <2>4
  <2> QED
    BY <2>1, <2>2, <2>5 DEF Comes
<1>2. ASSUME NEW i \in DOMAIN vs, NEW j \in DOMAIN vs, NEW k \in DOMAIN vs[i].tabs,
             NEW l \in DOMAIN vs[j].tabs, vs[i].tabs[k].container = vs[j].tabs[l].container
      PROVE  i = j /\ k = l
  <2>1. PICK a \in DOMAIN ws : \E b \in DOMAIN ws[a].tabs :
                a = row[i][k] /\ b = col[i][k] /\ vs[i].tabs[k] = ws[a].tabs[b]
    BY DEF ComesTab
  <2>2. PICK b \in DOMAIN ws[a].tabs :
                a = row[i][k] /\ b = col[i][k] /\ vs[i].tabs[k] = ws[a].tabs[b]
    BY <2>1
  <2>3. PICK c \in DOMAIN ws : \E d \in DOMAIN ws[c].tabs :
                c = row[j][l] /\ d = col[j][l] /\ vs[j].tabs[l] = ws[c].tabs[d]
    BY DEF ComesTab
  <2>4. PICK d \in DOMAIN ws[c].tabs :
                c = row[j][l] /\ d = col[j][l] /\ vs[j].tabs[l] = ws[c].tabs[d]
    BY <2>3
  <2>5. ws[a].tabs[b].container = ws[c].tabs[d].container
    BY <1>2, <2>2, <2>4
  <2>6. a = c /\ b = d
    BY <2>5 DEF OneEach
  <2>7. row[i][k] = row[j][l] /\ col[i][k] = col[j][l]
    BY <2>2, <2>4, <2>6
  <2> QED
    BY <2>7 DEF ComesTab
<1>3. ASSUME NEW i \in DOMAIN vs, NEW k \in DOMAIN vs[i].tabs
      PROVE  vs[i].tabs[k].search = ty[vs[i].tabs[k].container]
  <2>1. PICK a \in DOMAIN ws : \E b \in DOMAIN ws[a].tabs : vs[i].tabs[k] = ws[a].tabs[b]
    BY DEF ComesTab
  <2>2. PICK b \in DOMAIN ws[a].tabs : vs[i].tabs[k] = ws[a].tabs[b]
    BY <2>1
  <2>3. ws[a].tabs[b].search = ty[ws[a].tabs[b].container]
    BY DEF OneEach
  <2> QED
    BY <2>2, <2>3
<1> QED
  BY <1>1, <1>2, <1>3 DEF OneEach

\* Tabs that stay where they are.
LEMMA ChangedSound ==
    ASSUME NEW ws, NEW vs, NEW ty, OneEach(ws, ty),
           DOMAIN vs = DOMAIN ws,
           \A i \in DOMAIN ws : /\ vs[i].id = ws[i].id /\ vs[i].tabs = ws[i].tabs
                                /\ vs[i].active \in DOMAIN ws[i].tabs
    PROVE  OneEach(vs, ty) /\ IdsOf(vs) = IdsOf(ws)
<1>1. OneEach(vs, ty)
  BY DEF OneEach
<1> QED
  BY <1>1, SameIds

\* A window that goes.
LEMMA RemovedSound ==
    ASSUME NEW ws \in Seq(WindowType), NEW ty, OneEach(ws, ty), NEW p \in DOMAIN ws
    PROVE  /\ RemoveAt(ws, p) \in Seq(WindowType) /\ Len(RemoveAt(ws, p)) = Len(ws) - 1
           /\ OneEach(RemoveAt(ws, p), ty)
           /\ IdsOf(RemoveAt(ws, p)) = IdsOf(ws) \ {ws[p].id}
           /\ \A k \in DOMAIN ws[p].tabs : Absent(RemoveAt(ws, p), ws[p].tabs[k].container)
           /\ \A i \in DOMAIN RemoveAt(ws, p) : \E j \in DOMAIN ws : RemoveAt(ws, p)[i] = ws[j]
<1> DEFINE vs == RemoveAt(ws, p)
           from == [k \in DOMAIN vs |-> Skip(k, p)]
<1>1. vs \in Seq(WindowType) /\ Len(vs) = Len(ws) - 1
  BY RemovedSkips
<1>2. \A k \in DOMAIN vs : from[k] \in DOMAIN ws /\ from[k] # p /\ vs[k] = ws[from[k]]
  BY RemovedSkips
<1>3. \A k, l \in DOMAIN vs : from[k] = from[l] => k = l
  BY RemovedSkips
<1>4. \A i \in DOMAIN ws : i # p => \E k \in DOMAIN vs : from[k] = i
  BY RemovedSkips
<1> HIDE DEF vs, from
<1> DEFINE row == [i \in DOMAIN vs |-> [k \in DOMAIN vs[i].tabs |-> from[i]]]
           col == [i \in DOMAIN vs |-> [k \in DOMAIN vs[i].tabs |-> k]]
<1>5. Comes(vs, ws, from)
  BY <1>2, <1>3 DEF Comes
<1>6. ComesTab(vs, ws, row, col)
  BY <1>2, <1>3 DEF ComesTab
<1>7. \A i \in DOMAIN vs : vs[i].active \in DOMAIN vs[i].tabs
  BY <1>2 DEF OneEach
<1> HIDE DEF row, col
<1>8. OneEach(vs, ty)
  BY <1>5, <1>6, <1>7, MovedSound
<1>9. IdsOf(vs) = IdsOf(ws) \ {ws[p].id}
  <2>1. \A i \in DOMAIN ws : ws[i].id = ws[p].id => i = p
    BY DEF OneEach
  <2>2. IdsOf(vs) \subseteq IdsOf(ws) \ {ws[p].id}
    BY <1>2, <2>1 DEF IdsOf
  <2>3. IdsOf(ws) \ {ws[p].id} \subseteq IdsOf(vs)
    BY <1>2, <1>4 DEF IdsOf
  <2> QED
    BY <2>2, <2>3
<1>10. ASSUME NEW k \in DOMAIN ws[p].tabs
       PROVE  Absent(vs, ws[p].tabs[k].container)
  BY <1>2 DEF OneEach, Absent
<1> QED
  BY <1>1, <1>2, <1>8, <1>9, <1>10 DEF vs

\* A tab that goes.
LEMMA TabRemovedSound ==
    ASSUME NEW ws \in Seq(WindowType), NEW vs, NEW ty, OneEach(ws, ty),
           NEW p \in DOMAIN ws, Len(ws[p].tabs) > 1, NEW t \in DOMAIN ws[p].tabs,
           DOMAIN vs = DOMAIN ws,
           \A i \in DOMAIN ws : vs[i] = IF i = p THEN WithoutTab(ws[p], t) ELSE ws[i]
    PROVE  /\ OneEach(vs, ty) /\ IdsOf(vs) = IdsOf(ws)
           /\ Absent(vs, ws[p].tabs[t].container) /\ vs[p] \in WindowType
<1> DEFINE tabs == ws[p].tabs
           left == RemoveAt(tabs, t)
           col == [i \in DOMAIN vs |-> [k \in DOMAIN vs[i].tabs |->
                      IF i = p THEN Skip(k, t) ELSE k]]
           row == [i \in DOMAIN vs |-> [k \in DOMAIN vs[i].tabs |-> i]]
           home == [i \in DOMAIN vs |-> i]
<1>1. ws[p] \in WindowType /\ tabs \in Seq(Tab)
  <2>1. ws[p] \in WindowType
    BY ElementOfSeq, LenProperties
  <2> QED
    BY <2>1 DEF WindowType
<1>2. PICK n \in Nat : n = Len(tabs) /\ DOMAIN tabs = 1..n /\ n > 1
  BY <1>1, LenProperties
<1>3. /\ left \in Seq(Tab) /\ Len(left) = n - 1
      /\ \A k \in DOMAIN left : Skip(k, t) \in DOMAIN tabs /\ Skip(k, t) # t
                                /\ left[k] = tabs[Skip(k, t)]
      /\ \A k, l \in DOMAIN left : Skip(k, t) = Skip(l, t) => k = l
  <2>1. left \in Seq(Tab) /\ Len(left) = n - 1
    BY <1>1, <1>2, RemovedSkips
  <2>2. \A k \in DOMAIN left : Skip(k, t) \in DOMAIN tabs /\ Skip(k, t) # t
                                /\ left[k] = tabs[Skip(k, t)]
    BY <1>1, RemovedSkips
  <2>3. \A k, l \in DOMAIN left : Skip(k, t) = Skip(l, t) => k = l
    BY <1>1, RemovedSkips
  <2> QED
    BY <2>1, <2>2, <2>3
<1>4. DOMAIN left = 1..(n - 1)
  BY <1>3, LenProperties
<1> HIDE DEF left
<1>5. /\ vs[p].tabs = left /\ vs[p].id = ws[p].id /\ vs[p].active = Min({ws[p].active, n - 1})
      /\ vs[p].minimized = ws[p].minimized
      /\ vs[p] = [id |-> vs[p].id, tabs |-> vs[p].tabs, active |-> vs[p].active,
                  minimized |-> vs[p].minimized]
  BY <1>1, <1>2 DEF WithoutTab, WindowType, left
<1>6. vs[p].active \in 1..(n - 1)
  <2>1. ws[p].active \in 1..n
    BY <1>2 DEF OneEach
  <2>2. PICK m \in 1..n : m = ws[p].active
    BY <2>1
  <2>3. m \in Int /\ n - 1 \in Int
    BY <1>2
  <2>4. Min({m, n - 1}) = IF m <= n - 1 THEN m ELSE n - 1
    BY <2>3, OfTwo
  <2> QED
    BY <1>2, <1>5, <2>2, <2>4
<1>7. \A i \in DOMAIN ws : i # p => vs[i] = ws[i]
  OBVIOUS
<1>8. ASSUME NEW i \in DOMAIN vs, NEW k \in DOMAIN vs[i].tabs
      PROVE  /\ col[i][k] \in DOMAIN ws[i].tabs /\ vs[i].tabs[k] = ws[i].tabs[col[i][k]]
             /\ i = p => col[i][k] # t
             /\ \A l \in DOMAIN vs[i].tabs : col[i][k] = col[i][l] => k = l
  <2>1. CASE i = p
    BY <1>3, <1>5, <1>8, <2>1
  <2>2. CASE i # p
    BY <1>7, <1>8, <2>2
  <2> QED
    BY <2>1, <2>2
<1> HIDE DEF col
<1>9. \A i \in DOMAIN vs : vs[i].id = ws[i].id /\ vs[i].active \in DOMAIN vs[i].tabs
  BY <1>4, <1>5, <1>6, <1>7 DEF OneEach
<1>10. Comes(vs, ws, home)
  BY <1>9 DEF Comes
<1>11. ComesTab(vs, ws, row, col)
  BY <1>8 DEF ComesTab
<1> HIDE DEF row, home
<1>12. OneEach(vs, ty)
  BY <1>9, <1>10, <1>11, MovedSound
<1>13. IdsOf(vs) = IdsOf(ws)
  BY <1>9, SameIds
<1>14. Absent(vs, ws[p].tabs[t].container)
  <2> SUFFICES ASSUME NEW i \in DOMAIN vs, NEW k \in DOMAIN vs[i].tabs,
                      vs[i].tabs[k].container = ws[p].tabs[t].container
               PROVE  FALSE
    BY DEF Absent
  <2>1. PICK c \in DOMAIN ws[i].tabs : c = col[i][k] /\ vs[i].tabs[k] = ws[i].tabs[c]
    BY <1>8
  <2>2. i = p /\ c = t
    BY <2>1 DEF OneEach
  <2> QED
    BY <1>8, <2>1, <2>2
<1>15. vs[p] \in WindowType
  BY <1>1, <1>2, <1>3, <1>5, <1>6 DEF WindowType
<1> QED
  BY <1>12, <1>13, <1>14, <1>15

\* A window of a new tab.
LEMMA AddedSound ==
    ASSUME NEW ws \in Seq(WindowType), NEW ty, OneEach(ws, ty),
           NEW win \in WindowType, win.id \notin IdsOf(ws), NEW tab \in Tab,
           win.tabs = <<tab>>, win.active = 1, Absent(ws, tab.container),
           tab.search = ty[tab.container]
    PROVE  /\ Append(ws, win) \in Seq(WindowType) /\ Len(Append(ws, win)) = Len(ws) + 1
           /\ OneEach(Append(ws, win), ty)
           /\ IdsOf(Append(ws, win)) = IdsOf(ws) \union {win.id}
<1> DEFINE vs == Append(ws, win)
           z == Len(ws) + 1
<1>1. /\ vs \in Seq(WindowType) /\ Len(vs) = z /\ vs[z] = win
      /\ DOMAIN vs = DOMAIN ws \union {z} /\ z \notin DOMAIN ws
      /\ \A i \in DOMAIN ws : vs[i] = ws[i]
  BY Appended
<1>2. DOMAIN win.tabs = {1} /\ win.tabs[1] = tab
  OBVIOUS
<1>10. Len(vs) = Len(ws) + 1
  BY <1>1 DEF z
<1> HIDE DEF vs, z
<1>3. IdsOf(vs) = IdsOf(ws) \union {win.id}
  BY <1>1 DEF IdsOf
<1>4. \A i \in DOMAIN ws : ws[i].id # win.id
  BY DEF IdsOf
<1>5. \A i \in DOMAIN vs : vs[i].active \in DOMAIN vs[i].tabs
  BY <1>1, <1>2 DEF OneEach
<1>6. \A i, j \in DOMAIN vs : vs[i].id = vs[j].id => i = j
  BY <1>1, <1>4 DEF OneEach
<1>7. ASSUME NEW i \in DOMAIN vs, NEW j \in DOMAIN vs, NEW k \in DOMAIN vs[i].tabs,
             NEW l \in DOMAIN vs[j].tabs, vs[i].tabs[k].container = vs[j].tabs[l].container
      PROVE  i = j /\ k = l
  <2>1. CASE i \in DOMAIN ws /\ j \in DOMAIN ws
    BY <1>1, <1>7, <2>1 DEF OneEach
  <2>2. CASE i = z /\ j \in DOMAIN ws
    BY <1>1, <1>2, <1>7, <2>2 DEF Absent
  <2>3. CASE i \in DOMAIN ws /\ j = z
    BY <1>1, <1>2, <1>7, <2>3 DEF Absent
  <2>4. CASE i = z /\ j = z
    BY <1>1, <1>2, <2>4
  <2> QED
    BY <1>1, <2>1, <2>2, <2>3, <2>4
<1>8. \A i \in DOMAIN vs : \A k \in DOMAIN vs[i].tabs :
        vs[i].tabs[k].search = ty[vs[i].tabs[k].container]
  BY <1>1, <1>2 DEF OneEach
<1>9. OneEach(vs, ty)
  BY <1>5, <1>6, <1>7, <1>8 DEF OneEach
<1> QED
  BY <1>1, <1>3, <1>9, <1>10 DEF vs

\* Window p takes the tabs of window q, behind its own.
Takes(us, ws, p, q) ==
  /\ DOMAIN us = DOMAIN ws /\ \A i \in DOMAIN ws : i # p => us[i] = ws[i]
  /\ us[p].id = ws[p].id /\ us[p].tabs = ws[p].tabs \o ws[q].tabs
  /\ us[p].active = Len(ws[p].tabs) + 1

\* Then q goes.
LEMMA JoinedSound ==
    ASSUME NEW ws \in Seq(WindowType), NEW us \in Seq(WindowType), NEW ty, OneEach(ws, ty),
           NEW p \in DOMAIN ws, NEW q \in DOMAIN ws, p # q, Takes(us, ws, p, q)
    PROVE  /\ RemoveAt(us, q) \in Seq(WindowType) /\ Len(RemoveAt(us, q)) = Len(ws) - 1
           /\ OneEach(RemoveAt(us, q), ty)
           /\ IdsOf(RemoveAt(us, q)) = IdsOf(ws) \ {ws[q].id}
<1>0. /\ DOMAIN us = DOMAIN ws /\ \A i \in DOMAIN ws : i # p => us[i] = ws[i]
      /\ us[p].id = ws[p].id /\ us[p].tabs = ws[p].tabs \o ws[q].tabs
      /\ us[p].active = Len(ws[p].tabs) + 1
  BY DEF Takes
<1> USE <1>0
<1> DEFINE vs == RemoveAt(us, q)
           home == [k \in DOMAIN vs |-> Skip(k, q)]
<1>1. PICK n \in Nat, m \in Nat : n = Len(ws[p].tabs) /\ m = Len(ws[q].tabs)
      /\ DOMAIN ws[p].tabs = 1..n /\ DOMAIN ws[q].tabs = 1..m
      /\ ws[p].tabs \in Seq(Tab) /\ ws[q].tabs \in Seq(Tab)
  <2>1. ws[p] \in WindowType /\ ws[q] \in WindowType
    BY ElementOfSeq, LenProperties
  <2>2. ws[p].tabs \in Seq(Tab) /\ ws[q].tabs \in Seq(Tab)
    BY <2>1 DEF WindowType
  <2> QED
    BY <2>2, LenProperties
<1>2. m > 0
  BY <1>1 DEF OneEach
<1> DEFINE all == ws[p].tabs \o ws[q].tabs
<1>3. /\ all \in Seq(Tab) /\ Len(all) = n + m
      /\ \A k \in 1..(n + m) : all[k] = IF k <= n THEN ws[p].tabs[k] ELSE ws[q].tabs[k - n]
  <2> DEFINE a == ws[p].tabs
             b == ws[q].tabs
  <2>1. a \in Seq(Tab) /\ b \in Seq(Tab) /\ Len(a) = n /\ Len(b) = m
    BY <1>1
  <2> HIDE DEF a, b
  <2>2. /\ a \o b \in Seq(Tab) /\ Len(a \o b) = n + m
        /\ \A k \in 1..(n + m) : (a \o b)[k] = IF k <= n THEN a[k] ELSE b[k - n]
    BY <2>1, ConcatProperties
  <2> QED
    BY <2>2 DEF a, b
<1>4. DOMAIN all = 1..(n + m)
  BY <1>3, LenProperties
<1>5. us[p].tabs = all /\ us[p].active = n + 1
  BY <1>1
<1> HIDE DEF all
<1>6. vs \in Seq(WindowType) /\ Len(vs) = Len(ws) - 1
  <2>1. vs \in Seq(WindowType) /\ Len(vs) = Len(us) - 1
    BY RemovedSkips
  <2>2. Len(us) = Len(ws)
    BY LenProperties
  <2> QED
    BY <2>1, <2>2
<1>7. \A k \in DOMAIN vs : home[k] \in DOMAIN us /\ home[k] # q /\ vs[k] = us[home[k]]
  BY RemovedSkips
<1>8. \A k, l \in DOMAIN vs : home[k] = home[l] => k = l
  BY RemovedSkips
<1>9. \A i \in DOMAIN us : i # q => \E k \in DOMAIN vs : home[k] = i
  BY RemovedSkips
<1> HIDE DEF vs, home
\* A tab of p is one of its own or one of q's.
<1> DEFINE Own(i, k) == home[i] # p \/ k <= n
           row == [i \in DOMAIN vs |-> [k \in DOMAIN vs[i].tabs |-> IF Own(i, k) THEN home[i] ELSE q]]
           col == [i \in DOMAIN vs |-> [k \in DOMAIN vs[i].tabs |-> IF Own(i, k) THEN k ELSE k - n]]
<1>10. ASSUME NEW k \in DOMAIN all
       PROVE  \/ k \in 1..n /\ all[k] = ws[p].tabs[k]
              \/ ~(k <= n) /\ k - n \in 1..m /\ all[k] = ws[q].tabs[k - n]
  BY <1>3, <1>4, <1>10
<1>11. ASSUME NEW i \in DOMAIN vs, NEW k \in DOMAIN vs[i].tabs
       PROVE  /\ row[i][k] \in DOMAIN ws /\ col[i][k] \in DOMAIN ws[row[i][k]].tabs
              /\ vs[i].tabs[k] = ws[row[i][k]].tabs[col[i][k]]
  <2>1. CASE home[i] # p
    BY <1>7, <1>11, <2>1
  <2>2. CASE home[i] = p
    <3>1. k \in DOMAIN all /\ vs[i].tabs[k] = all[k]
      BY <1>5, <1>7, <1>11, <2>2
    <3> QED
      BY <1>1, <1>10, <1>11, <2>2, <3>1
  <2> QED
    BY <2>1, <2>2
<1>12. ASSUME NEW i \in DOMAIN vs, NEW j \in DOMAIN vs, NEW k \in DOMAIN vs[i].tabs,
              NEW l \in DOMAIN vs[j].tabs, row[i][k] = row[j][l], col[i][k] = col[j][l]
       PROVE  i = j /\ k = l
  <2>1. home[i] # q /\ home[j] # q
    BY <1>7
  <2>2. CASE Own(i, k) /\ Own(j, l)
    <3>1. home[i] = home[j] /\ k = l
      BY <1>12, <2>2
    <3> QED
      BY <1>8, <3>1
  <2>3. CASE ~Own(i, k) /\ ~Own(j, l)
    <3>1. home[i] = home[j] /\ k - n = l - n
      BY <1>12, <2>3
    <3>2. k \in DOMAIN all /\ l \in DOMAIN all
      BY <1>5, <1>7, <2>3
    <3>3. k = l
      BY <1>4, <3>1, <3>2
    <3> QED
      BY <1>8, <3>1, <3>3
  <2>4. CASE Own(i, k) /\ ~Own(j, l)
    BY <1>12, <2>1, <2>4
  <2>5. CASE ~Own(i, k) /\ Own(j, l)
    BY <1>12, <2>1, <2>5
  <2> QED
    BY <2>2, <2>3, <2>4, <2>5
<1> HIDE DEF row, col, Own
<1>13. ComesTab(vs, ws, row, col)
  BY <1>11, <1>12 DEF ComesTab
<1>14. Comes(vs, ws, home)
  BY <1>7, <1>8 DEF Comes
<1>15. \A i \in DOMAIN vs : vs[i].active \in DOMAIN vs[i].tabs
  <2>1. n + 1 \in DOMAIN all
    BY <1>2, <1>4
  <2> QED
    BY <1>5, <1>7, <2>1 DEF OneEach
<1>16. OneEach(vs, ty)
  BY <1>13, <1>14, <1>15, MovedSound
<1>17. IdsOf(vs) = IdsOf(ws) \ {ws[q].id}
  <2>1. \A i \in DOMAIN ws : ws[i].id = ws[q].id => i = q
    BY DEF OneEach
  <2>2. \A i \in DOMAIN ws : us[i].id = ws[i].id
    OBVIOUS
  <2>3. IdsOf(vs) \subseteq IdsOf(ws) \ {ws[q].id}
    BY <1>7, <2>1, <2>2 DEF IdsOf
  <2>4. IdsOf(ws) \ {ws[q].id} \subseteq IdsOf(vs)
    BY <1>7, <1>9, <2>2 DEF IdsOf
  <2> QED
    BY <2>3, <2>4
<1> QED
  BY <1>6, <1>16, <1>17 DEF vs

-----------------------------------------------------------------------------
(* What a change of depth leaves true.                                     *)

\* A raised window: the ids are as before.
LEMMA RaisedStacked ==
    ASSUME NEW ws, depth \in Seq(Nat), Stacked(depth, ws), NEW id \in Nat, id \in IdsOf(ws)
    PROVE  Raised(id) \in Seq(Nat) /\ Stacked(Raised(id), ws)
<1>1. NoTwice(depth) /\ Len(depth) = Len(ws) /\ Elements(depth) = IdsOf(ws)
  BY DEF Stacked
<1>2. /\ Raised(id) \in Seq(Nat) /\ NoTwice(Raised(id))
      /\ Elements(Raised(id)) = Elements(depth) \union {id}
      /\ Len(Raised(id)) = IF id \in Elements(depth) THEN Len(depth) ELSE Len(depth) + 1
  BY <1>1, RaisedOnce
<1> QED
  BY <1>1, <1>2 DEF Stacked

\* A new window, in front.
LEMMA NewStacked ==
    ASSUME NEW ws, NEW vs, depth \in Seq(Nat), Stacked(depth, ws), NEW id \in Nat,
           id \notin IdsOf(ws), Len(vs) = Len(ws) + 1, IdsOf(vs) = IdsOf(ws) \union {id}
    PROVE  Raised(id) \in Seq(Nat) /\ Stacked(Raised(id), vs)
<1>1. NoTwice(depth) /\ Len(depth) = Len(ws) /\ Elements(depth) = IdsOf(ws)
  BY DEF Stacked
<1>2. /\ Raised(id) \in Seq(Nat) /\ NoTwice(Raised(id))
      /\ Elements(Raised(id)) = Elements(depth) \union {id}
      /\ Len(Raised(id)) = IF id \in Elements(depth) THEN Len(depth) ELSE Len(depth) + 1
  BY <1>1, RaisedOnce
<1> QED
  BY <1>1, <1>2 DEF Stacked

\* A window gone from both.
LEMMA GoneStacked ==
    ASSUME NEW d \in Seq(Nat), NEW ws, NEW vs, Stacked(d, ws), NEW id, id \in IdsOf(ws),
           Len(vs) = Len(ws) - 1, IdsOf(vs) = IdsOf(ws) \ {id}
    PROVE  RemoveFirst(d, id) \in Seq(Nat) /\ Stacked(RemoveFirst(d, id), vs)
<1>1. NoTwice(d) /\ Len(d) = Len(ws) /\ Elements(d) = IdsOf(ws)
  BY DEF Stacked
<1>2. /\ RemoveFirst(d, id) \in Seq(Nat) /\ NoTwice(RemoveFirst(d, id))
      /\ Elements(RemoveFirst(d, id)) = Elements(d) \ {id}
      /\ Len(RemoveFirst(d, id)) = IF id \in Elements(d) THEN Len(d) - 1 ELSE Len(d)
  BY <1>1, RemovedOnce
<1> QED
  BY <1>1, <1>2 DEF Stacked

\* A window that is shown is one of the windows.
LEMMA VisibleIs ==
    ASSUME NEW id \in Visible
    PROVE  \E p \in DOMAIN windows : windows[p].id = id /\ ~windows[p].minimized
BY DEF Visible, ToSet

-----------------------------------------------------------------------------
(* The steps of the windows.                                               *)

\* No gesture is made while nothing is grabbed.
LEMMA NothingGrabbed ==
    ASSUME gesture' = NoGesture
    PROVE  Grabbed' /\ Reachable'
BY DEF NoGesture, Grabbed, Reachable

\* A window that is changed and keeps its tabs.
LEMMA ChangedKeeps ==
    ASSUME WindowsInv, NEW p \in DOMAIN windows, NEW win \in WindowType,
           win.id = windows[p].id, win.tabs = windows[p].tabs,
           win.active \in DOMAIN win.tabs, windows' = [windows EXCEPT ![p] = win],
           depth' = depth \/ depth' = Raised(windows[p].id),
           UNCHANGED <<nextId, typed>>, gesture' = NoGesture, frame' \in Frame
    PROVE  WindowsInv'
<1>1. /\ WindowsTyped /\ OneEach(windows, typed) /\ Stacked(depth, windows)
      /\ \A id \in IdsOf(windows) : id < nextId
  BY DEF WindowsInv
<1>2. windows \in Seq(WindowType) /\ depth \in Seq(Nat) /\ p \in 1..Len(windows)
  <2>1. windows \in Seq(WindowType) /\ depth \in Seq(Nat)
    BY <1>1 DEF WindowsTyped
  <2> QED
    BY <2>1, LenProperties
<1>3. windows' \in Seq(WindowType) /\ Len(windows') = Len(windows)
  BY <1>2, ExceptSeq
<1>4. /\ DOMAIN windows' = DOMAIN windows
      /\ \A i \in DOMAIN windows : windows'[i] = IF i = p THEN win ELSE windows[i]
  OBVIOUS
<1>5. \A i \in DOMAIN windows : /\ windows'[i].id = windows[i].id
                                /\ windows'[i].tabs = windows[i].tabs
                                /\ windows'[i].active \in DOMAIN windows[i].tabs
  BY <1>1, <1>4 DEF OneEach
<1>6. OneEach(windows', typed) /\ IdsOf(windows') = IdsOf(windows)
  BY <1>1, <1>4, <1>5, ChangedSound
<1>7. Stacked(depth, windows')
  BY <1>1, <1>3, <1>6 DEF Stacked
<1>8. windows[p].id \in IdsOf(windows') /\ windows[p].id \in Nat
  <2>1. windows[p] \in WindowType
    BY <1>2, ElementOfSeq
  <2>2. windows[p].id \in IdsOf(windows)
    BY DEF IdsOf
  <2> QED
    BY <1>6, <2>1, <2>2 DEF WindowType
<1>9. depth' \in Seq(Nat) /\ Stacked(depth', windows')
  BY <1>2, <1>7, <1>8, RaisedStacked
<1>10. WindowsTyped'
  BY <1>1, <1>3, <1>9 DEF WindowsTyped, GestureType, NoGesture, NoFrame, Frame
<1> QED
  BY <1>1, <1>6, <1>9, <1>10, NothingGrabbed DEF WindowsInv

\* Windows that stay as they are, with one of them raised at most.
LEMMA StillKeeps ==
    ASSUME WindowsInv, UNCHANGED <<windows, nextId, typed>>,
           depth' = depth \/ \E id \in IdsOf(windows) : depth' = Raised(id),
           gesture' \in GestureType, frame' \in Frame, Grabbed', Reachable'
    PROVE  WindowsInv'
<1>1. /\ WindowsTyped /\ OneEach(windows, typed) /\ Stacked(depth, windows)
      /\ \A id \in IdsOf(windows) : id < nextId
  BY DEF WindowsInv
<1>2. windows \in Seq(WindowType) /\ depth \in Seq(Nat)
  BY <1>1 DEF WindowsTyped
<1>3. \A i \in DOMAIN windows : windows[i] \in WindowType
  BY <1>2, ElementOfSeq, LenProperties
<1>4. \A id \in IdsOf(windows) : id \in Nat
  BY <1>3 DEF IdsOf, WindowType
<1>5. depth' \in Seq(Nat) /\ Stacked(depth', windows)
  BY <1>1, <1>2, <1>4, RaisedStacked
<1>6. WindowsTyped'
  BY <1>1, <1>5 DEF WindowsTyped
<1> QED
  BY <1>1, <1>5, <1>6 DEF WindowsInv

LEMMA FocusKeeps ==
    ASSUME WindowsInv, NEW id, focusWindow(id)
    PROVE  WindowsInv'
<1>1. PICK p \in DOMAIN windows : windows[p].id = id
  BY VisibleIs DEF focusWindow
<1>2. id \in IdsOf(windows)
  BY <1>1 DEF IdsOf
<1>3. UNCHANGED <<windows, nextId, typed, gesture, frame>> /\ depth' = Raised(id)
  BY DEF focusWindow
<1>4. gesture \in GestureType /\ frame \in Frame
  BY DEF WindowsInv, WindowsTyped
<1>5. Grabbed' /\ Reachable'
  BY <1>3 DEF WindowsInv, Grabbed, Reachable
<1> QED
  BY <1>2, <1>3, <1>4, <1>5, StillKeeps

LEMMA FlashEndsKeeps ==
    ASSUME WindowsInv, FlashEnds
    PROVE  WindowsInv'
BY DEF FlashEnds, WindowsInv, WindowsTyped, Grabbed, Reachable

LEMMA MinimizeKeeps ==
    ASSUME WindowsInv, NEW id, minimizeWindow(id)
    PROVE  WindowsInv'
<1>1. PICK p \in DOMAIN windows : windows[p].id = id
  BY VisibleIs DEF minimizeWindow
<1>2. /\ windows \in Seq(WindowType) /\ frame \in Frame
      /\ OneEach(windows, typed)
  BY DEF WindowsInv, WindowsTyped
<1>3. /\ \A i \in DOMAIN windows : windows[i].id = id => i = p
      /\ windows[p].active \in DOMAIN windows[p].tabs
  BY <1>1, <1>2 DEF OneEach
<1>4. windows[p] \in WindowType
  BY <1>2, ElementOfSeq, LenProperties
<1> DEFINE win == [windows[p] EXCEPT !.minimized = TRUE]
<1>5. windows' = [windows EXCEPT ![p] = win]
  <2>1. windows' = [i \in DOMAIN windows |-> IF windows[i].id = id
                       THEN [windows[i] EXCEPT !.minimized = TRUE] ELSE windows[i]]
    BY DEF minimizeWindow, Updated
  <2>2. windows = [i \in DOMAIN windows |-> windows[i]]
    BY <1>2, LenProperties
  <2> QED
    BY <1>1, <1>3, <2>1, <2>2
<1>6. win \in WindowType /\ win.id = windows[p].id /\ win.tabs = windows[p].tabs
      /\ win.active = windows[p].active
  BY <1>4 DEF WindowType
<1> HIDE DEF win
<1>7. UNCHANGED <<nextId, typed, depth>> /\ gesture' = NoGesture /\ frame' \in Frame
  BY <1>2 DEF minimizeWindow
<1> QED
  BY <1>3, <1>5, <1>6, <1>7, ChangedKeeps

LEMMA RestoreKeeps ==
    ASSUME WindowsInv, NEW w \in ToSet(windows), restoreWindow(w)
    PROVE  WindowsInv'
<1>1. PICK p \in DOMAIN windows : windows[p] = w
  BY DEF ToSet
<1>2. /\ windows \in Seq(WindowType) /\ frame \in Frame
      /\ OneEach(windows, typed)
  BY DEF WindowsInv, WindowsTyped
<1>3. /\ \A i \in DOMAIN windows : windows[i].id = w.id => i = p
      /\ windows[p].active \in DOMAIN windows[p].tabs
  BY <1>1, <1>2 DEF OneEach
<1>4. windows[p] \in WindowType
  BY <1>2, ElementOfSeq, LenProperties
<1> DEFINE win == [windows[p] EXCEPT !.minimized = FALSE]
<1>5. windows' = [windows EXCEPT ![p] = win]
  <2>1. windows' = [i \in DOMAIN windows |-> IF windows[i].id = w.id
                       THEN [windows[i] EXCEPT !.minimized = FALSE] ELSE windows[i]]
    BY DEF restoreWindow, Updated
  <2>2. windows = [i \in DOMAIN windows |-> windows[i]]
    BY <1>2, LenProperties
  <2> QED
    BY <1>1, <1>3, <2>1, <2>2
<1>6. win \in WindowType /\ win.id = windows[p].id /\ win.tabs = windows[p].tabs
      /\ win.active = windows[p].active
  BY <1>4 DEF WindowType
<1> HIDE DEF win
<1>7. /\ UNCHANGED <<nextId, typed>> /\ depth' = Raised(windows[p].id)
      /\ gesture' = NoGesture /\ frame' \in Frame
  BY <1>1, <1>2 DEF restoreWindow
<1> QED
  BY <1>3, <1>5, <1>6, <1>7, ChangedKeeps

LEMMA OpenExistingKeeps ==
    ASSUME WindowsInv, NEW c \in Workload, gesture' = NoGesture, frame' = frame, OpenExisting(c)
    PROVE  WindowsInv'
<1>1. PICK w \in findContainerWindow(c) :
         /\ windows' = Updated(w.id, LAMBDA v : [v EXCEPT !.minimized = FALSE,
                                                          !.active = Min(TabOf(v, c))])
         /\ depth' = Raised(w.id) /\ UNCHANGED <<nextId, typed>>
  BY DEF OpenExisting
<1>2. PICK p \in DOMAIN windows : windows[p] = w /\ TabOf(windows[p], c) # {}
  BY DEF findContainerWindow, ToSet
<1>3. /\ windows \in Seq(WindowType) /\ frame \in Frame
      /\ OneEach(windows, typed)
  BY DEF WindowsInv, WindowsTyped
<1>4. windows[p] \in WindowType /\ windows[p].tabs \in Seq(Tab)
  <2>1. windows[p] \in WindowType
    BY <1>3, ElementOfSeq, LenProperties
  <2> QED
    BY <2>1 DEF WindowType
<1>5. PICK t \in DOMAIN windows[p].tabs : windows[p].tabs[t].container = c
  BY <1>2 DEF TabOf
<1>6. TabOf(windows[p], c) = {t}
  BY <1>3, <1>5 DEF TabOf, OneEach
<1>7. t \in Nat /\ Min({t}) = t
  <2>1. t \in Nat /\ {t, t} = {t}
    BY <1>4, LenProperties
  <2>2. Min({t, t}) = t
    BY <2>1, OfTwo
  <2> QED
    BY <2>1, <2>2
<1> DEFINE win == [windows[p] EXCEPT !.minimized = FALSE, !.active = t]
<1>8. windows' = [windows EXCEPT ![p] = win]
  <2> DEFINE FirstTabOf(v) == Min(TabOf(v, c))
  <2>1. windows' = [i \in DOMAIN windows |-> IF windows[i].id = w.id
                       THEN [windows[i] EXCEPT !.minimized = FALSE, !.active = FirstTabOf(windows[i])]
                       ELSE windows[i]]
    BY <1>1, Zenon DEF Updated
  <2>2. FirstTabOf(windows[p]) = t
    BY <1>6, <1>7
  <2> HIDE DEF FirstTabOf
  <2>3. windows = [i \in DOMAIN windows |-> windows[i]]
    BY <1>3, LenProperties
  <2>4. \A i \in DOMAIN windows : windows[i].id = w.id => i = p
    BY <1>2, <1>3 DEF OneEach
  <2>5. windows[p].id = w.id
    BY <1>2
  <2>6. windows' = [i \in DOMAIN windows |-> IF i = p THEN win ELSE windows[i]]
    BY <2>1, <2>2, <2>4, <2>5, Zenon
  <2> HIDE DEF win
  <2> QED
    BY <2>3, <2>6
<1>9. win \in WindowType /\ win.id = windows[p].id /\ win.tabs = windows[p].tabs
      /\ win.active = t
  BY <1>4, <1>7 DEF WindowType
<1> HIDE DEF win
<1>10. UNCHANGED <<nextId, typed>> /\ depth' = Raised(windows[p].id) /\ frame' \in Frame
  BY <1>1, <1>2, <1>3
<1> QED
  BY <1>8, <1>9, <1>10, ChangedKeeps

\* A window that is added, of a tab that is in no other.
LEMMA AddedKeeps ==
    ASSUME WindowsTyped, NEW ws \in Seq(WindowType), NEW ty \in [Workload -> Texts],
           OneEach(ws, ty), Stacked(depth, ws), \A id \in IdsOf(ws) : id < nextId,
           NEW tab \in Tab, Absent(ws, tab.container), tab.search = ty[tab.container],
           nextId' = nextId + 1, windows' = Append(ws, NewWindow(tab)),
           depth' = Raised(nextId), typed' = ty
    PROVE  /\ windows' \in Seq(WindowType) /\ depth' \in Seq(Nat)
           /\ OneEach(windows', typed') /\ Stacked(depth', windows')
           /\ \A id \in IdsOf(windows') : id < nextId'
<1> DEFINE win == NewWindow(tab)
<1>1. depth \in Seq(Nat) /\ nextId \in Nat \ {0}
  BY DEF WindowsTyped
<1>2. win \in WindowType /\ win.id = nextId /\ win.tabs = <<tab>> /\ win.active = 1
  BY <1>1 DEF NewWindow, WindowType
<1>3. \A id \in IdsOf(ws) : id \in Nat
  <2>1. \A i \in DOMAIN ws : ws[i] \in WindowType
    BY ElementOfSeq, LenProperties
  <2> QED
    BY <2>1 DEF IdsOf, WindowType
<1>4. nextId \notin IdsOf(ws)
  BY <1>1, <1>3
<1> HIDE DEF win
<1>5. /\ Append(ws, win) \in Seq(WindowType) /\ Len(Append(ws, win)) = Len(ws) + 1
      /\ OneEach(Append(ws, win), ty) /\ IdsOf(Append(ws, win)) = IdsOf(ws) \union {nextId}
  BY <1>2, <1>4, AddedSound
<1>6. windows' = Append(ws, win)
  BY DEF win
<1>7. depth' \in Seq(Nat) /\ Stacked(depth', windows')
  BY <1>1, <1>4, <1>5, <1>6, NewStacked
<1>8. \A id \in IdsOf(windows') : id < nextId'
  BY <1>1, <1>3, <1>5, <1>6
<1> QED
  BY <1>5, <1>6, <1>7, <1>8

LEMMA OpenNewKeeps ==
    ASSUME WindowsAssumption, WindowsInv, NEW c \in Workload, gesture' = NoGesture,
           frame' = frame, OpenNew(c)
    PROVE  WindowsInv'
<1>1. /\ findContainerWindow(c) = {} /\ nextId' = nextId + 1
      /\ windows' = Append(windows, NewWindow([container |-> c, search |-> NoText]))
      /\ depth' = Raised(nextId) /\ typed' = [typed EXCEPT ![c] = NoText]
  BY DEF OpenNew
<1>2. /\ WindowsTyped /\ OneEach(windows, typed) /\ Stacked(depth, windows)
      /\ \A id \in IdsOf(windows) : id < nextId
      /\ windows \in Seq(WindowType) /\ nextId \in Nat \ {0} /\ frame \in Frame
      /\ typed \in [Workload -> Texts]
  BY DEF WindowsInv, WindowsTyped
<1>3. Absent(windows, c)
  BY <1>1 DEF findContainerWindow, ToSet, TabOf, Absent
<1> DEFINE ty == [typed EXCEPT ![c] = NoText]
           tab == [container |-> c, search |-> NoText]
<1>4. ty \in [Workload -> Texts] /\ tab \in Tab /\ tab.container = c /\ tab.search = ty[c]
  BY <1>2 DEF WindowsAssumption, Tab
<1>5. OneEach(windows, ty)
  <2>1. \A i \in DOMAIN windows : \A k \in DOMAIN windows[i].tabs :
           ty[windows[i].tabs[k].container] = typed[windows[i].tabs[k].container]
    BY <1>3 DEF Absent
  <2> HIDE DEF ty
  <2> QED
    BY <1>2, <2>1 DEF OneEach
<1>6. typed' = ty /\ windows' = Append(windows, NewWindow(tab))
  BY <1>1
<1> HIDE DEF ty, tab
<1>7. /\ windows' \in Seq(WindowType) /\ depth' \in Seq(Nat)
      /\ OneEach(windows', typed') /\ Stacked(depth', windows')
      /\ \A id \in IdsOf(windows') : id < nextId'
  BY <1>1, <1>2, <1>3, <1>4, <1>5, <1>6, AddedKeeps
<1>8. NoGesture \in GestureType
  BY DEF GestureType, NoGesture, NoFrame, Frame
<1>9. WindowsTyped'
  <2>1. nextId' \in Nat \ {0}
    BY <1>1, <1>2
  <2> QED
    BY <1>2, <1>4, <1>6, <1>7, <1>8, <2>1 DEF WindowsTyped
<1> QED
  BY <1>7, <1>9, NothingGrabbed DEF WindowsInv

\* Window p of the windows, and what is known of them.
LEMMA Known ==
    ASSUME WindowsInv, NEW p \in DOMAIN windows
    PROVE  /\ windows \in Seq(WindowType) /\ depth \in Seq(Nat) /\ nextId \in Nat \ {0}
           /\ gesture \in GestureType /\ frame \in Frame /\ typed \in [Workload -> Texts]
           /\ OneEach(windows, typed) /\ Stacked(depth, windows)
           /\ \A id \in IdsOf(windows) : id < nextId
           /\ Window(windows[p].id) = windows[p] /\ windows[p].id \in IdsOf(windows)
           /\ windows[p].active \in DOMAIN windows[p].tabs
           /\ \A i \in DOMAIN windows : windows[i].id = windows[p].id => i = p
           /\ windows[p] \in WindowType /\ windows[p].tabs \in Seq(Tab)
           /\ \A t \in DOMAIN windows[p].tabs : t \in Nat /\ windows[p].tabs[t] \in Tab
           /\ windows = [i \in DOMAIN windows |-> windows[i]]
<1>1. /\ WindowsTyped /\ OneEach(windows, typed) /\ Stacked(depth, windows)
      /\ \A id \in IdsOf(windows) : id < nextId
  BY DEF WindowsInv
<1>2. /\ windows \in Seq(WindowType) /\ depth \in Seq(Nat) /\ nextId \in Nat \ {0}
      /\ gesture \in GestureType /\ frame \in Frame /\ typed \in [Workload -> Texts]
  BY <1>1 DEF WindowsTyped
<1>3. windows[p] \in WindowType /\ windows[p].tabs \in Seq(Tab)
  <2>1. windows[p] \in WindowType
    BY <1>2, ElementOfSeq, LenProperties
  <2> QED
    BY <2>1 DEF WindowType
<1>4. /\ windows[p].active \in DOMAIN windows[p].tabs
      /\ \A i \in DOMAIN windows : windows[i].id = windows[p].id => i = p
  BY <1>1 DEF OneEach
<1>5. \A t \in DOMAIN windows[p].tabs : t \in Nat /\ windows[p].tabs[t] \in Tab
  BY <1>3, ElementOfSeq, LenProperties
<1>6. windows = [i \in DOMAIN windows |-> windows[i]]
  BY <1>2, LenProperties
<1>7. windows[p].id \in IdsOf(windows)
  BY DEF IdsOf
<1> QED
  BY <1>1, <1>2, <1>3, <1>4, <1>5, <1>6, <1>7, WindowIs

\* What is typed into the box of the tab that is shown is what its container has now.
LEMMA SetSearchKeeps ==
    ASSUME WindowsInv, NEW id, NEW text \in Texts, setSearch(id, text)
    PROVE  WindowsInv'
<1>1. PICK p \in DOMAIN windows : windows[p].id = id
  BY VisibleIs DEF setSearch
<1>2. /\ windows \in Seq(WindowType) /\ depth \in Seq(Nat) /\ nextId \in Nat \ {0}
      /\ gesture \in GestureType /\ frame \in Frame /\ typed \in [Workload -> Texts]
      /\ OneEach(windows, typed) /\ Stacked(depth, windows)
      /\ \A x \in IdsOf(windows) : x < nextId
  BY Known
<1>3. /\ Window(id) = windows[p]
      /\ windows[p].active \in DOMAIN windows[p].tabs
      /\ \A i \in DOMAIN windows : windows[i].id = id => i = p
      /\ windows[p] \in WindowType /\ windows[p].tabs \in Seq(Tab)
      /\ windows = [i \in DOMAIN windows |-> windows[i]]
  BY <1>1, Known
<1> DEFINE a == windows[p].active
           tab == windows[p].tabs[a]
           tabs == [windows[p].tabs EXCEPT ![a] = [tab EXCEPT !.search = text]]
           win == [windows[p] EXCEPT !.tabs = tabs]
           ty == [typed EXCEPT ![tab.container] = text]
<1>4. tab \in Tab
  BY <1>1, <1>3, Known
<1>5. typed' = ty /\ UNCHANGED <<depth, nextId, frame>> /\ gesture' = NoGesture
  BY <1>3 DEF setSearch
<1>6. windows' = [windows EXCEPT ![p] = win]
  <2>1. windows' = [i \in DOMAIN windows |-> IF windows[i].id = id
                       THEN [windows[i] EXCEPT !.tabs[a].search = text] ELSE windows[i]]
    BY <1>3 DEF setSearch, Updated
  <2>2. [windows[p] EXCEPT !.tabs[a].search = text] = win
    OBVIOUS
  <2> QED
    BY <1>1, <1>3, <2>1, <2>2
<1>7. /\ tabs \in Seq(Tab) /\ DOMAIN tabs = DOMAIN windows[p].tabs
      /\ \A k \in DOMAIN tabs : tabs[k] = IF k = a THEN [tab EXCEPT !.search = text]
                                          ELSE windows[p].tabs[k]
  <2>1. [tab EXCEPT !.search = text] \in Tab
    BY <1>4 DEF Tab
  <2> QED
    BY <1>3, <2>1, ExceptSeq, LenProperties
<1>8. /\ [tab EXCEPT !.search = text].container = tab.container
      /\ [tab EXCEPT !.search = text].search = text /\ tab.container \in Workload
  BY <1>4 DEF Tab
<1> HIDE DEF tabs
<1>9. win \in WindowType /\ win.id = windows[p].id /\ win.tabs = tabs
      /\ win.active = a
  BY <1>3, <1>7 DEF WindowType
<1> HIDE DEF win
<1>10. windows' \in Seq(WindowType) /\ Len(windows') = Len(windows)
  BY <1>2, <1>6, <1>9, ExceptSeq, LenProperties
<1>11. /\ DOMAIN windows' = DOMAIN windows
       /\ \A i \in DOMAIN windows : windows'[i] = IF i = p THEN win ELSE windows[i]
  BY <1>6
<1>12. \A i \in DOMAIN windows :
         /\ windows'[i].id = windows[i].id /\ windows'[i].active = windows[i].active
         /\ DOMAIN windows'[i].tabs = DOMAIN windows[i].tabs
  BY <1>7, <1>9, <1>11
<1>13. \A i \in DOMAIN windows : \A k \in DOMAIN windows[i].tabs :
         /\ windows'[i].tabs[k].container = windows[i].tabs[k].container
         /\ i = p /\ k = a => windows'[i].tabs[k].search = text
         /\ ~(i = p /\ k = a) => windows'[i].tabs[k].search = windows[i].tabs[k].search
  BY <1>7, <1>8, <1>9, <1>11
<1>14. ASSUME NEW i \in DOMAIN windows, NEW k \in DOMAIN windows[i].tabs
       PROVE  windows'[i].tabs[k].search = ty[windows[i].tabs[k].container]
  <2>1. CASE i = p /\ k = a
    BY <1>2, <1>8, <1>13, <2>1
  <2>2. CASE ~(i = p /\ k = a)
    <3>1. windows[i].tabs[k].container # tab.container
      BY <1>2, <1>3, <2>2 DEF OneEach
    <3>2. windows[i].tabs[k].search = typed[windows[i].tabs[k].container]
      BY <1>2 DEF OneEach
    <3> QED
      BY <1>13, <2>2, <3>1, <3>2
  <2> QED
    BY <2>1, <2>2
<1> HIDE DEF ty, tab, a
<1>15. OneEach(windows', typed')
  BY <1>2, <1>5, <1>11, <1>12, <1>13, <1>14 DEF OneEach
<1>16. IdsOf(windows') = IdsOf(windows)
  BY <1>11, <1>12, SameIds
<1>17. ty \in [Workload -> Texts]
  BY <1>2 DEF ty
<1>18. WindowsTyped'
  BY <1>2, <1>5, <1>10, <1>17 DEF WindowsTyped, GestureType, NoGesture, NoFrame, Frame
<1>19. Stacked(depth', windows')
  BY <1>2, <1>5, <1>10, <1>16 DEF Stacked
<1> QED
  BY <1>2, <1>5, <1>15, <1>16, <1>18, <1>19, NothingGrabbed DEF WindowsInv

\* A window that is closed, and its id with it.
LEMMA CloseKeeps ==
    ASSUME WindowsInv, NEW id, closeWindow(id)
    PROVE  WindowsInv'
<1>1. PICK p \in DOMAIN windows : windows[p].id = id
  BY VisibleIs DEF closeWindow
<1>2. /\ windows \in Seq(WindowType) /\ depth \in Seq(Nat) /\ nextId \in Nat \ {0}
      /\ gesture \in GestureType /\ frame \in Frame /\ typed \in [Workload -> Texts]
      /\ OneEach(windows, typed) /\ Stacked(depth, windows)
      /\ \A x \in IdsOf(windows) : x < nextId
  BY Known
<1>3. id \in IdsOf(windows) /\ \A i \in DOMAIN windows : windows[i].id = id => i = p
  BY <1>1, Known
<1>4. Without(windows, id) = RemoveAt(windows, p)
  BY <1>1, <1>2, <1>3, WithoutIs
<1>5. /\ RemoveAt(windows, p) \in Seq(WindowType)
      /\ Len(RemoveAt(windows, p)) = Len(windows) - 1
      /\ OneEach(RemoveAt(windows, p), typed)
      /\ IdsOf(RemoveAt(windows, p)) = IdsOf(windows) \ {id}
  BY <1>1, <1>2, RemovedSound
<1>6. /\ windows' = RemoveAt(windows, p) /\ depth' = RemoveFirst(depth, id)
      /\ UNCHANGED <<nextId, frame, typed>> /\ gesture' = NoGesture
  BY <1>4 DEF closeWindow, Behind
<1>7. depth' \in Seq(Nat) /\ Stacked(depth', windows')
  BY <1>2, <1>3, <1>5, <1>6, GoneStacked
<1>8. WindowsTyped'
  BY <1>2, <1>5, <1>6, <1>7 DEF WindowsTyped, GestureType, NoGesture, NoFrame, Frame
<1> QED
  BY <1>2, <1>5, <1>6, <1>7, <1>8, NothingGrabbed DEF WindowsInv

\* The windows with tab t of window p taken out.
LEMMA WithoutTabIs ==
    ASSUME WindowsInv, NEW p \in DOMAIN windows, Len(windows[p].tabs) > 1,
           NEW t \in DOMAIN windows[p].tabs, NEW ws,
           ws = [i \in DOMAIN windows |-> IF windows[i].id = windows[p].id
                                          THEN WithoutTab(windows[i], t) ELSE windows[i]]
    PROVE  /\ ws \in Seq(WindowType) /\ Len(ws) = Len(windows)
           /\ OneEach(ws, typed) /\ IdsOf(ws) = IdsOf(windows)
           /\ Absent(ws, windows[p].tabs[t].container)
<1>1. windows \in Seq(WindowType) /\ OneEach(windows, typed)
  BY Known
<1>2. /\ \A i \in DOMAIN windows : windows[i].id = windows[p].id => i = p
      /\ windows = [i \in DOMAIN windows |-> windows[i]]
  BY Known
<1> DEFINE win == WithoutTab(windows[p], t)
<1>3. ws = [windows EXCEPT ![p] = win]
  <2>1. ws = [i \in DOMAIN windows |-> IF i = p THEN win ELSE windows[i]]
    BY <1>2, Zenon
  <2> HIDE DEF win
  <2> QED
    BY <1>2, <2>1
<1> HIDE DEF win
<1>4. /\ DOMAIN ws = DOMAIN windows
      /\ \A i \in DOMAIN windows : ws[i] = IF i = p THEN win ELSE windows[i]
  BY <1>3
<1>5. /\ OneEach(ws, typed) /\ IdsOf(ws) = IdsOf(windows)
      /\ Absent(ws, windows[p].tabs[t].container) /\ ws[p] \in WindowType
  BY <1>1, <1>4, TabRemovedSound DEF win
<1>6. ws \in Seq(WindowType) /\ Len(ws) = Len(windows)
  <2>1. win \in WindowType /\ p \in 1..Len(windows)
    BY <1>1, <1>4, <1>5, LenProperties
  <2> QED
    BY <1>1, <1>3, <2>1, ExceptSeq
<1> QED
  BY <1>5, <1>6

LEMMA CloseTabKeeps ==
    ASSUME WindowsInv, NEW id, NEW t, closeTab(id, t)
    PROVE  WindowsInv'
<1>1. PICK p \in DOMAIN windows : windows[p].id = id
  BY VisibleIs DEF closeTab
<1>2. /\ depth \in Seq(Nat) /\ nextId \in Nat \ {0} /\ frame \in Frame
      /\ typed \in [Workload -> Texts] /\ Stacked(depth, windows)
      /\ \A x \in IdsOf(windows) : x < nextId
  BY Known
<1>3. Len(windows[p].tabs) > 1 /\ t \in DOMAIN windows[p].tabs
  <2>1. Window(id) = windows[p]
    BY <1>1, Known
  <2> QED
    BY <2>1 DEF closeTab
<1>4. windows' = [i \in DOMAIN windows |-> IF windows[i].id = windows[p].id
                                           THEN WithoutTab(windows[i], t) ELSE windows[i]]
  BY <1>1, Zenon DEF closeTab, Updated
<1>5. /\ windows' \in Seq(WindowType) /\ Len(windows') = Len(windows)
      /\ OneEach(windows', typed) /\ IdsOf(windows') = IdsOf(windows)
  BY <1>3, <1>4, WithoutTabIs
<1>6. UNCHANGED <<depth, nextId, frame, typed>> /\ gesture' = NoGesture
  BY DEF closeTab
<1>7. Stacked(depth', windows')
  BY <1>2, <1>5, <1>6 DEF Stacked
<1>8. WindowsTyped'
  BY <1>2, <1>5, <1>6 DEF WindowsTyped, GestureType, NoGesture, NoFrame, Frame
<1> QED
  BY <1>2, <1>5, <1>6, <1>7, <1>8, NothingGrabbed DEF WindowsInv

\* A tab that was pressed is shown; one that was dragged is in a window of its own.
LEMMA SetActiveTabKeeps ==
    ASSUME WindowsInv, setActiveTab
    PROVE  WindowsInv'
<1>1. UNCHANGED <<depth, nextId, frame, typed>> /\ gesture' = NoGesture
  BY DEF setActiveTab
<1>2. frame' \in Frame
  BY <1>1 DEF WindowsInv, WindowsTyped
<1>3. CASE gesture.dragged
  <2>1. windows' = windows
    BY <1>3 DEF setActiveTab
  <2>2. NoGesture \in GestureType
    BY DEF GestureType, NoGesture, NoFrame, Frame
  <2> QED
    BY <1>1, <1>2, <2>1, <2>2, NothingGrabbed, StillKeeps
<1>4. CASE ~gesture.dragged
  <2>1. PICK p \in DOMAIN windows : /\ windows[p].id = gesture.id
                                    /\ gesture.tab \in DOMAIN windows[p].tabs
    BY <1>4 DEF setActiveTab, WindowsInv, Grabbed
  <2>2. /\ \A i \in DOMAIN windows : windows[i].id = windows[p].id => i = p
        /\ windows = [i \in DOMAIN windows |-> windows[i]] /\ windows[p] \in WindowType
        /\ gesture.tab \in Nat
    BY <2>1, Known
  <2> DEFINE win == [windows[p] EXCEPT !.active = gesture.tab]
  <2>3. windows' = [windows EXCEPT ![p] = win]
    <3>1. windows' = [i \in DOMAIN windows |-> IF windows[i].id = gesture.id
                         THEN [windows[i] EXCEPT !.active = gesture.tab] ELSE windows[i]]
      BY <1>4 DEF setActiveTab, Updated
    <3> QED
      BY <2>1, <2>2, <3>1
  <2>4. win \in WindowType /\ win.id = windows[p].id /\ win.tabs = windows[p].tabs
        /\ win.active \in DOMAIN win.tabs
    BY <2>1, <2>2 DEF WindowType
  <2> HIDE DEF win
  <2> QED
    BY <1>1, <1>2, <2>3, <2>4, ChangedKeeps
<1> QED
  BY <1>3, <1>4

LEMMA StartDragKeeps ==
    ASSUME WindowsAssumption, WindowsInv, NEW id, NEW kind \in {"move", "resize"},
           NEW edge \in SUBSET {"n", "s", "e", "w"}, NEW f \in Frames, StartDrag(id, kind, edge, f)
    PROVE  WindowsInv'
<1>1. PICK p \in DOMAIN windows : windows[p].id = id /\ ~windows[p].minimized
  BY VisibleIs DEF StartDrag
<1>2. id \in IdsOf(windows) /\ id \in Nat
  <2>1. windows[p] \in WindowType /\ windows[p].id \in IdsOf(windows)
    BY Known
  <2> QED
    BY <1>1, <2>1 DEF WindowType
<1>3. f \in Frame
  BY DEF WindowsAssumption, Frame
<1>4. /\ gesture' = [kind |-> kind, id |-> id, tab |-> 0, edge |-> edge, from |-> f,
                     dragged |-> FALSE]
      /\ frame' = f /\ UNCHANGED <<windows, nextId, typed>>
      /\ depth' = depth \/ depth' = Raised(id)
  BY DEF StartDrag, NoGesture
<1>5. gesture' \in GestureType
  BY <1>2, <1>3, <1>4 DEF GestureType
<1>6. Grabbed' /\ Reachable'
  BY <1>1, <1>4 DEF Grabbed, Reachable
<1> QED
  BY <1>2, <1>3, <1>4, <1>5, <1>6, StillKeeps

LEMMA StartTabDragKeeps ==
    ASSUME WindowsInv, NEW id, NEW t, startTabDrag(id, t)
    PROVE  WindowsInv'
<1>1. PICK p \in DOMAIN windows : windows[p].id = id
  BY VisibleIs DEF startTabDrag
<1>2. /\ Window(id) = windows[p] /\ windows[p] \in WindowType /\ frame \in Frame
      /\ \A k \in DOMAIN windows[p].tabs : k \in Nat
  BY <1>1, Known
<1>3. /\ Len(windows[p].tabs) > 1 /\ t \in DOMAIN windows[p].tabs
      /\ gesture' = [kind |-> "tab", id |-> id, tab |-> t, edge |-> {}, from |-> NoFrame,
                     dragged |-> FALSE]
      /\ UNCHANGED <<windows, depth, nextId, frame, typed>>
  BY <1>2 DEF startTabDrag, NoGesture
<1>4. gesture' \in GestureType
  BY <1>1, <1>2, <1>3 DEF GestureType, NoFrame, Frame, WindowType
<1>5. Grabbed' /\ Reachable'
  BY <1>1, <1>3 DEF Grabbed, Reachable
<1> QED
  BY <1>2, <1>3, <1>4, <1>5, StillKeeps

\* A number is clamped to one that is low at least, and high at most if that is possible.
LEMMA ClampIs ==
    ASSUME NEW n \in Int, NEW low \in Int, NEW high \in Int
    PROVE  /\ Clamp(n, low, high) \in Int /\ Clamp(n, low, high) >= low
           /\ Clamp(n, low, high) <= IF low >= high THEN low ELSE high
<1> DEFINE a == IF low >= n THEN low ELSE n
           b == IF low >= high THEN low ELSE high
<1>1. Max({low, n}) = a /\ Max({low, high}) = b
  BY OfTwo
<1>2. a \in Int /\ b \in Int /\ a >= low /\ b >= low
  OBVIOUS
<1> HIDE DEF a
<1>3. Clamp(n, low, high) = IF a <= b THEN a ELSE b
  <2> HIDE DEF b
  <2>1. Min({a, b}) = IF a <= b THEN a ELSE b
    BY <1>2, OfTwo
  <2> QED
    BY <1>1, <2>1 DEF Clamp
<1> QED
  BY <1>2, <1>3

LEMMA ClampedPosition ==
    ASSUME WindowsAssumption, NEW f \in Frame, NEW x \in Int, NEW y \in Int
    PROVE  LET g == clampPosition(f, x, y)
           IN /\ g \in Frame
              /\ g.x >= 0 /\ g.x + g.w <= Max({g.w, g.vw})
              /\ g.y >= HEADER_HEIGHT /\ g.y <= Max({HEADER_HEIGHT, g.vh - DockMargin})
<1> DEFINE g == clampPosition(f, x, y)
           gx == Clamp(x, 0, f.vw - f.w)
           gy == Clamp(y, HEADER_HEIGHT, f.vh - DockMargin)
<1>1. /\ HEADER_HEIGHT \in Int /\ DockMargin \in Int
      /\ f.w \in Int /\ f.vw \in Int /\ f.vh \in Int /\ f.h \in Int
  BY DEF WindowsAssumption, Frame
<1>2. /\ gx \in Int /\ gx >= 0 /\ gx <= IF 0 >= f.vw - f.w THEN 0 ELSE f.vw - f.w
      /\ gy \in Int /\ gy >= HEADER_HEIGHT
      /\ gy <= IF HEADER_HEIGHT >= f.vh - DockMargin THEN HEADER_HEIGHT ELSE f.vh - DockMargin
  <2> DEFINE hx == f.vw - f.w
             hy == f.vh - DockMargin
  <2>1. hx \in Int /\ hy \in Int /\ 0 \in Int
    BY <1>1
  <2> HIDE DEF hx, hy
  <2>2. LET c == Clamp(x, 0, hx)
        IN c \in Int /\ c >= 0 /\ c <= IF 0 >= hx THEN 0 ELSE hx
    BY <2>1, ClampIs
  <2>3. LET c == Clamp(y, HEADER_HEIGHT, hy)
        IN c \in Int /\ c >= HEADER_HEIGHT
           /\ c <= IF HEADER_HEIGHT >= hy THEN HEADER_HEIGHT ELSE hy
    BY <1>1, <2>1, ClampIs
  <2> QED
    BY <2>2, <2>3 DEF hx, hy
<1>3. g = [f EXCEPT !.x = gx, !.y = gy]
  BY DEF clampPosition
<1> HIDE DEF gx, gy, g
<1>4. /\ g \in Frame /\ g.x = gx /\ g.y = gy
      /\ g.w = f.w /\ g.vw = f.vw /\ g.vh = f.vh
  BY <1>2, <1>3 DEF Frame
<1>5. /\ Max({f.w, f.vw}) = IF f.w >= f.vw THEN f.w ELSE f.vw
      /\ Max({HEADER_HEIGHT, f.vh - DockMargin}) =
            IF HEADER_HEIGHT >= f.vh - DockMargin THEN HEADER_HEIGHT ELSE f.vh - DockMargin
  <2>1. f.vh - DockMargin \in Int
    BY <1>1
  <2> QED
    BY <1>1, <2>1, OfTwo
<1>6. gx + f.w <= Max({f.w, f.vw})
  BY <1>1, <1>2, <1>5
<1>7. gy <= Max({HEADER_HEIGHT, f.vh - DockMargin})
  BY <1>1, <1>2, <1>5
<1> QED
  BY <1>2, <1>4, <1>6, <1>7 DEF g

LEMMA MoveKeeps ==
    ASSUME WindowsAssumption, WindowsInv, NEW d \in Shifts, moveWindow(d)
    PROVE  WindowsInv'
<1>1. /\ gesture.kind = "move" /\ gesture' = [gesture EXCEPT !.dragged = TRUE]
      /\ frame' = clampPosition(frame, gesture.from.x + d.x, gesture.from.y + d.y)
      /\ UNCHANGED <<windows, depth, nextId, typed>>
  BY DEF moveWindow
<1>2. gesture \in GestureType /\ frame \in Frame /\ Grabbed
  BY DEF WindowsInv, WindowsTyped
<1>3. gesture' \in GestureType /\ gesture'.kind = "move" /\ gesture'.id = gesture.id
  BY <1>1, <1>2 DEF GestureType
<1>4. gesture.from.x + d.x \in Int /\ gesture.from.y + d.y \in Int
  <2>1. d.x \in Int /\ d.y \in Int
    BY DEF WindowsAssumption
  <2>2. gesture.from.x \in Int /\ gesture.from.y \in Int
    BY <1>2 DEF GestureType, Frame
  <2> QED
    BY <2>1, <2>2
<1>5. /\ frame' \in Frame
      /\ frame'.x >= 0 /\ frame'.x + frame'.w <= Max({frame'.w, frame'.vw})
      /\ frame'.y >= HEADER_HEIGHT
      /\ frame'.y <= Max({HEADER_HEIGHT, frame'.vh - DockMargin})
  BY <1>1, <1>2, <1>4, ClampedPosition
<1>6. Reachable'
  BY <1>5 DEF Reachable
<1>7. Grabbed'
  BY <1>1, <1>2, <1>3 DEF Grabbed
<1> QED
  BY <1>1, <1>3, <1>5, <1>6, <1>7, StillKeeps

LEMMA StretchedTyped ==
    ASSUME WindowsAssumption, NEW at \in Int, NEW length \in Int, NEW near, NEW far,
           NEW d \in Int
    PROVE  LET s == Stretched(at, length, near, far, d) IN s.at \in Int /\ s.length \in Int
<1> DEFINE n == length + IF far THEN d ELSE IF near THEN -d ELSE 0
           m == Max({WINDOW_MIN, n})
<1>1. WINDOW_MIN \in Int /\ n \in Int
  BY DEF WindowsAssumption
<1> HIDE DEF n
<1>2. m \in Int
  <2>1. m = IF WINDOW_MIN >= n THEN WINDOW_MIN ELSE n
    BY <1>1, OfTwo
  <2> QED
    BY <1>1, <2>1
<1>3. Stretched(at, length, near, far, d) =
        [at |-> IF near THEN at + length - m ELSE at, length |-> m]
  BY Zenon DEF Stretched, m, n
<1> HIDE DEF m
<1> QED
  BY <1>2, <1>3

LEMMA ResizeKeeps ==
    ASSUME WindowsAssumption, WindowsInv, NEW d \in Shifts, resizeWindow(d)
    PROVE  WindowsInv'
<1> DEFINE r == applyResize(gesture.from, gesture.edge, d)
<1>1. /\ gesture.kind = "resize" /\ UNCHANGED <<windows, depth, nextId, gesture, typed>>
      /\ frame' = [clampPosition(frame, r.x, r.y) EXCEPT !.w = r.w, !.h = r.h]
  BY DEF resizeWindow
<1>2. gesture \in GestureType /\ frame \in Frame /\ Grabbed
  BY DEF WindowsInv, WindowsTyped
<1>3. r.x \in Int /\ r.y \in Int /\ r.w \in Int /\ r.h \in Int
  <2>1. d.x \in Int /\ d.y \in Int
    BY DEF WindowsAssumption
  <2>2. /\ gesture.from.x \in Int /\ gesture.from.y \in Int
        /\ gesture.from.w \in Int /\ gesture.from.h \in Int
    BY <1>2 DEF GestureType, Frame
  <2> DEFINE across == Stretched(gesture.from.x, gesture.from.w, "w" \in gesture.edge,
                                 "e" \in gesture.edge, d.x)
             down == Stretched(gesture.from.y, gesture.from.h, "n" \in gesture.edge,
                               "s" \in gesture.edge, d.y)
  <2>3. across.at \in Int /\ across.length \in Int
    BY <2>1, <2>2, StretchedTyped
  <2>4. down.at \in Int /\ down.length \in Int
    BY <2>1, <2>2, StretchedTyped
  <2>5. r = [x |-> across.at, y |-> down.at, w |-> across.length, h |-> down.length]
    BY DEF applyResize
  <2> HIDE DEF across, down, r
  <2> QED
    BY <2>3, <2>4, <2>5
<1> HIDE DEF r
<1>4. clampPosition(frame, r.x, r.y) \in Frame
  BY <1>2, <1>3, ClampedPosition
<1>5. frame' \in Frame
  BY <1>1, <1>3, <1>4 DEF Frame
<1>6. Grabbed' /\ Reachable'
  BY <1>1, <1>2 DEF Grabbed, Reachable
<1> QED
  BY <1>1, <1>2, <1>5, <1>6, StillKeeps

\* The tab that is dragged out leaves its window and gets one of its own.
LEMMA DragTabKeeps ==
    ASSUME WindowsInv, DragTab
    PROVE  WindowsInv'
<1>1. /\ gesture.kind = "tab" /\ ~gesture.dragged /\ nextId' = nextId + 1
      /\ windows' = detachTab(Window(gesture.id), gesture.tab)
      /\ depth' = Raised(nextId) /\ gesture' = [gesture EXCEPT !.dragged = TRUE]
      /\ UNCHANGED <<frame, typed>>
  BY DEF DragTab
<1>2. PICK p \in DOMAIN windows :
        /\ windows[p].id = gesture.id
        /\ Len(windows[p].tabs) > 1 /\ gesture.tab \in DOMAIN windows[p].tabs
  BY <1>1 DEF WindowsInv, Grabbed
<1>3. /\ WindowsTyped /\ nextId \in Nat \ {0} /\ gesture \in GestureType /\ frame \in Frame
      /\ typed \in [Workload -> Texts] /\ OneEach(windows, typed) /\ Stacked(depth, windows)
      /\ \A id \in IdsOf(windows) : id < nextId
  BY Known DEF WindowsInv
<1> DEFINE tab == windows[p].tabs[gesture.tab]
           ws == [i \in DOMAIN windows |-> IF windows[i].id = windows[p].id
                    THEN WithoutTab(windows[i], gesture.tab) ELSE windows[i]]
<1>4. tab \in Tab /\ Window(gesture.id) = windows[p]
  BY <1>2, Known
<1>5. tab.search = typed[tab.container]
  BY <1>2, <1>3 DEF OneEach
<1>6. /\ ws \in Seq(WindowType) /\ Len(ws) = Len(windows)
      /\ OneEach(ws, typed) /\ IdsOf(ws) = IdsOf(windows) /\ Absent(ws, tab.container)
  BY <1>2, WithoutTabIs
<1>7. windows' = Append(ws, NewWindow(tab))
  <2>1. Updated(windows[p].id, LAMBDA v : WithoutTab(v, gesture.tab)) = ws
    BY Zenon DEF Updated
  <2> HIDE DEF ws
  <2> QED
    BY <1>1, <1>4, <2>1, Zenon DEF detachTab
<1> HIDE DEF ws, tab
<1>8. Stacked(depth, ws)
  BY <1>3, <1>6 DEF Stacked
<1>9. /\ windows' \in Seq(WindowType) /\ depth' \in Seq(Nat)
      /\ OneEach(windows', typed') /\ Stacked(depth', windows')
      /\ \A id \in IdsOf(windows') : id < nextId'
  BY <1>1, <1>3, <1>4, <1>5, <1>6, <1>7, <1>8, AddedKeeps
<1>10. /\ gesture' \in GestureType /\ gesture'.kind = "tab" /\ gesture'.dragged
  BY <1>1, <1>3 DEF GestureType
<1>11. WindowsTyped'
  <2>1. nextId' \in Nat \ {0}
    BY <1>1, <1>3
  <2> QED
    BY <1>1, <1>3, <1>9, <1>10, <2>1 DEF WindowsTyped
<1>12. Grabbed' /\ Reachable'
  BY <1>10 DEF Grabbed, Reachable
<1> QED
  BY <1>9, <1>11, <1>12 DEF WindowsInv

\* Dropped on another window, a window's tabs go there and the window is gone.
LEMMA MergeKeeps ==
    ASSUME WindowsInv, NEW target \in Visible, target # gesture.id,
           gesture.kind \in {"move", "resize"},
           windows' = mergeWindows(gesture.id, target),
           depth' = RemoveFirst(Raised(target), gesture.id),
           gesture' = NoGesture, frame' = NoFrame, UNCHANGED <<nextId, typed>>
    PROVE  WindowsInv'
<1>1. PICK p \in DOMAIN windows : windows[p].id = target
  BY VisibleIs
<1>2. PICK q \in DOMAIN windows : windows[q].id = gesture.id
  BY DEF WindowsInv, Grabbed
<1>3. /\ windows \in Seq(WindowType) /\ depth \in Seq(Nat) /\ nextId \in Nat \ {0}
      /\ typed \in [Workload -> Texts] /\ OneEach(windows, typed) /\ Stacked(depth, windows)
      /\ \A id \in IdsOf(windows) : id < nextId
  BY <1>1, Known
<1>4. /\ windows[p] \in WindowType /\ windows[p].tabs \in Seq(Tab)
      /\ target \in IdsOf(windows) /\ windows = [i \in DOMAIN windows |-> windows[i]]
      /\ \A i \in DOMAIN windows : windows[i].id = target => i = p
  BY <1>1, Known
<1>5. /\ windows[q].tabs \in Seq(Tab) /\ Window(gesture.id) = windows[q]
      /\ gesture.id \in IdsOf(windows)
      /\ \A i \in DOMAIN windows : windows[i].id = gesture.id => i = q
  BY <1>2, Known
<1>6. p # q
  BY <1>1, <1>2
<1> DEFINE all == windows[p].tabs \o windows[q].tabs
           win == [windows[p] EXCEPT !.tabs = all, !.active = Len(windows[p].tabs) + 1,
                                     !.minimized = FALSE]
           us == [windows EXCEPT ![p] = win]
<1>7. all \in Seq(Tab) /\ Len(windows[p].tabs) + 1 \in Nat
  BY <1>4, <1>5, ConcatProperties, LenProperties
<1>8. Updated(target, LAMBDA v : [v EXCEPT !.tabs = @ \o Window(gesture.id).tabs,
                                           !.active = Len(v.tabs) + 1,
                                           !.minimized = FALSE]) = us
  <2> DEFINE To(v) == [v EXCEPT !.tabs = @ \o windows[q].tabs, !.active = Len(v.tabs) + 1,
                                !.minimized = FALSE]
             fs == [i \in DOMAIN windows |-> IF windows[i].id = target THEN To(windows[i])
                                             ELSE windows[i]]
  <2>1. Updated(target, LAMBDA v : [v EXCEPT !.tabs = @ \o Window(gesture.id).tabs,
                                             !.active = Len(v.tabs) + 1,
                                             !.minimized = FALSE]) = fs
    BY <1>5, Zenon DEF Updated
  <2>2. To(windows[p]) = win
    OBVIOUS
  <2> HIDE DEF To, win
  <2>3. fs = [i \in DOMAIN windows |-> IF i = p THEN win ELSE windows[i]]
    BY <1>1, <1>4, <2>2, Zenon
  <2> HIDE DEF fs
  <2>4. fs = us
    BY <1>4, <2>3
  <2> QED
    BY <2>1, <2>4, Zenon
<1>9. windows' = Without(us, gesture.id)
  <2> HIDE DEF us
  <2> QED
    BY <1>8, Zenon DEF mergeWindows
<1> HIDE DEF all
<1>10. win \in WindowType /\ win.id = target /\ win.tabs = all
       /\ win.active = Len(windows[p].tabs) + 1
  BY <1>1, <1>4, <1>7 DEF WindowType
<1> HIDE DEF win
<1>11. us \in Seq(WindowType)
  BY <1>3, <1>10, ExceptSeq, LenProperties
<1>12. /\ DOMAIN us = DOMAIN windows
       /\ \A i \in DOMAIN windows : us[i] = IF i = p THEN win ELSE windows[i]
  OBVIOUS
<1> HIDE DEF us
<1>13. Without(us, gesture.id) = RemoveAt(us, q)
  <2>1. us[q].id = gesture.id
    BY <1>2, <1>6, <1>12
  <2>2. \A i \in DOMAIN us : us[i].id = us[q].id => i = q
    BY <1>1, <1>5, <1>6, <1>10, <1>12, <2>1
  <2> QED
    BY <1>11, <1>12, <2>1, <2>2, WithoutIs
<1>14. /\ RemoveAt(us, q) \in Seq(WindowType) /\ Len(RemoveAt(us, q)) = Len(windows) - 1
       /\ OneEach(RemoveAt(us, q), typed)
       /\ IdsOf(RemoveAt(us, q)) = IdsOf(windows) \ {windows[q].id}
  <2>1. Takes(us, windows, p, q)
    BY <1>1, <1>10, <1>12 DEF all, Takes
  <2> QED
    BY <1>1, <1>2, <1>3, <1>6, <1>11, <2>1, JoinedSound
<1>15. Raised(target) \in Seq(Nat) /\ Stacked(Raised(target), windows)
  <2>1. target \in Nat
    BY <1>1, <1>4 DEF WindowType
  <2> QED
    BY <1>3, <1>4, <2>1, RaisedStacked
<1>16. depth' \in Seq(Nat) /\ Stacked(depth', windows')
  BY <1>2, <1>5, <1>9, <1>13, <1>14, <1>15, GoneStacked
<1>17. WindowsTyped'
  BY <1>3, <1>9, <1>13, <1>14, <1>16
     DEF WindowsTyped, GestureType, NoGesture, NoFrame, Frame
<1> QED
  BY <1>3, <1>9, <1>13, <1>14, <1>16, <1>17, NothingGrabbed DEF WindowsInv

LEMMA DragEndKeeps ==
    ASSUME WindowsInv, NEW target, handleDragEnd(target)
    PROVE  WindowsInv'
<1>1. /\ gesture.kind \in {"move", "resize"} /\ target \in (Visible \ {gesture.id}) \union {0}
      /\ gesture' = NoGesture /\ frame' = NoFrame /\ UNCHANGED <<nextId, typed>>
  BY DEF handleDragEnd
<1>2. CASE ~gesture.dragged \/ target = 0
  <2>1. UNCHANGED <<windows, depth>>
    BY <1>2 DEF handleDragEnd
  <2>2. NoGesture \in GestureType /\ NoFrame \in Frame
    BY DEF GestureType, NoGesture, NoFrame, Frame
  <2> QED
    BY <1>1, <2>1, <2>2, NothingGrabbed, StillKeeps
<1>3. CASE ~(~gesture.dragged \/ target = 0)
  <2>1. /\ windows' = mergeWindows(gesture.id, target)
        /\ depth' = RemoveFirst(Raised(target), gesture.id)
        /\ target \in Visible /\ target # gesture.id
    BY <1>3 DEF handleDragEnd
  <2> QED
    BY <1>1, <2>1, MergeKeeps
<1> QED
  BY <1>2, <1>3

LEMMA WindowsStart ==
    WindowsAssumption /\ WindowsInit => WindowsInv
<1> SUFFICES ASSUME WindowsAssumption, WindowsInit PROVE WindowsInv
  OBVIOUS
<1>1. /\ windows = <<>> /\ depth = <<>> /\ nextId = 1 /\ gesture = NoGesture
      /\ frame = NoFrame /\ typed = [c \in Workload |-> NoText]
  BY DEF WindowsInit
<1>2. /\ windows \in Seq(WindowType) /\ depth \in Seq(Nat)
      /\ DOMAIN windows = {} /\ DOMAIN depth = {} /\ Len(windows) = 0 /\ Len(depth) = 0
  BY <1>1, EmptySeq
<1>3. WindowsTyped
  <2>1. typed \in [Workload -> Texts]
    BY <1>1 DEF WindowsAssumption
  <2> QED
    BY <1>1, <1>2, <2>1 DEF WindowsTyped, GestureType, NoGesture, NoFrame, Frame
<1>4. OneEach(windows, typed) /\ Stacked(depth, windows) /\ IdsOf(windows) = {}
  BY <1>2 DEF OneEach, Stacked, NoTwice, Elements, IdsOf
<1>5. Grabbed /\ Reachable
  BY <1>1 DEF NoGesture, Grabbed, Reachable
<1> QED
  BY <1>3, <1>4, <1>5 DEF WindowsInv

LEMMA WindowsStep ==
    WindowsAssumption /\ WindowsInv /\ [WindowsNext]_windowsVars => WindowsInv'
<1> SUFFICES ASSUME WindowsAssumption, WindowsInv, [WindowsNext]_windowsVars
             PROVE  WindowsInv'
  OBVIOUS
<1>1. ASSUME NEW c \in Workload, openLogs(c)
      PROVE  WindowsInv'
  <2>1. gesture' = NoGesture /\ frame' = frame /\ (OpenExisting(c) \/ OpenNew(c))
    BY <1>1 DEF openLogs
  <2> QED
    BY <2>1, OpenExistingKeeps, OpenNewKeeps
<1>2. ASSUME NEW id \in Visible, focusWindow(id)
      PROVE  WindowsInv'
  BY <1>2, FocusKeeps
<1>3. ASSUME NEW id \in Visible, closeWindow(id)
      PROVE  WindowsInv'
  BY <1>3, CloseKeeps
<1>4. ASSUME NEW id \in Visible, minimizeWindow(id)
      PROVE  WindowsInv'
  BY <1>4, MinimizeKeeps
<1>5. ASSUME NEW id \in Visible, NEW text \in Texts, setSearch(id, text)
      PROVE  WindowsInv'
  BY <1>5, SetSearchKeeps
<1>6. ASSUME NEW id \in Visible, NEW i, closeTab(id, i)
      PROVE  WindowsInv'
  BY <1>6, CloseTabKeeps
<1>7. ASSUME NEW id \in Visible, NEW i, startTabDrag(id, i)
      PROVE  WindowsInv'
  BY <1>7, StartTabDragKeeps
<1>8. ASSUME NEW id \in Visible, NEW f \in Frames, startMove(id, f)
      PROVE  WindowsInv'
  BY <1>8, StartDragKeeps DEF startMove
<1>9. ASSUME NEW id \in Visible, NEW f \in Frames, NEW edge \in Handles, startResize(id, edge, f)
      PROVE  WindowsInv'
  <2>1. edge \in SUBSET {"n", "s", "e", "w"}
    BY DEF WindowsAssumption
  <2> QED
    BY <1>9, <2>1, StartDragKeeps DEF startResize
<1>10. ASSUME NEW w \in ToSet(windows), restoreWindow(w)
       PROVE  WindowsInv'
  BY <1>10, RestoreKeeps
<1>11. ASSUME NEW d \in Shifts, moveWindow(d)
       PROVE  WindowsInv'
  BY <1>11, MoveKeeps
<1>12. ASSUME NEW d \in Shifts, resizeWindow(d)
       PROVE  WindowsInv'
  BY <1>12, ResizeKeeps
<1>13. ASSUME NEW target, handleDragEnd(target)
       PROVE  WindowsInv'
  BY <1>13, DragEndKeeps
<1>14. CASE DragTab
  BY <1>14, DragTabKeeps
<1>15. CASE setActiveTab
  BY <1>15, SetActiveTabKeeps
<1>16. CASE FlashEnds
  BY <1>16, FlashEndsKeeps
<1>17. CASE UNCHANGED windowsVars
  BY <1>17 DEF windowsVars, WindowsInv, WindowsTyped, Grabbed, Reachable
<1> QED
  BY <1>1, <1>2, <1>3, <1>4, <1>5, <1>6, <1>7, <1>8, <1>9, <1>10, <1>11, <1>12, <1>13,
     <1>14, <1>15, <1>16, <1>17 DEF WindowsNext

LEMMA WindowsOneEach ==
    WindowsInv => OneStreamEach
<1> SUFFICES ASSUME WindowsInv PROVE OneStreamEach
  OBVIOUS
<1>1. OneEach(windows, typed) /\ Stacked(depth, windows) /\ Reachable
  BY DEF WindowsInv
<1>2. Len(depth) = Len(windows) /\ ToSet(depth) = {win.id : win \in ToSet(windows)}
  <2>1. Len(depth) = Len(windows) /\ Elements(depth) = IdsOf(windows)
    BY <1>1 DEF Stacked
  <2>2. ToSet(depth) = Elements(depth)
    BY DEF ToSet, Elements
  <2>3. {win.id : win \in ToSet(windows)} = IdsOf(windows)
    BY DEF ToSet, IdsOf
  <2> QED
    BY <2>1, <2>2, <2>3
<1>3. \A i, j \in DOMAIN windows :
        /\ windows[i].active \in DOMAIN windows[i].tabs
        /\ i # j => windows[i].id # windows[j].id
        /\ \A k \in DOMAIN windows[i].tabs, l \in DOMAIN windows[j].tabs :
             windows[i].tabs[k].container = windows[j].tabs[l].container => i = j /\ k = l
        /\ \A k \in DOMAIN windows[i].tabs :
             windows[i].tabs[k].search = typed[windows[i].tabs[k].container]
  BY <1>1 DEF OneEach
<1> QED
  BY <1>1, <1>2, <1>3 DEF Reachable, OneStreamEach

\* In every reachable state, however windows are opened, merged, taken apart, searched,
\* moved and closed, each container is in one tab at most, each window shows one of its
\* tabs and has one place in depth, each tab has the search its container was given, and
\* the title bar of a dragged window is within reach (logWindowsState.ts, useLogWindows.ts,
\* useDragResize.ts).
THEOREM OneTabEach == WindowsSpec => []OneStreamEach
<1>1. WindowsInit => WindowsInv
  BY WindowsAssumption, WindowsStart
<1>2. WindowsInv /\ [WindowsNext]_windowsVars => WindowsInv'
  BY WindowsAssumption, WindowsStep
<1>3. WindowsInv => OneStreamEach
  BY WindowsOneEach
<1> QED
  BY <1>1, <1>2, <1>3, PTL DEF WindowsSpec

-----------------------------------------------------------------------------
(* The panel.                                                              *)

\* What a hook was asked for last and what it holds: nothing; or it waits for its resource,
\* whose request counts; or it has an answer about that very resource.
Fits(kind) ==
  \/ asked[kind] = Undefined /\ fetched[kind] = EMPTY
  \/ /\ asked[kind] # Undefined /\ TypeOfId[asked[kind]] = kind
     /\ fetched[kind].loading /\ ~fetched[kind].error
     /\ [id |-> asked[kind], live |-> TRUE] \in requests
  \/ /\ asked[kind] # Undefined /\ TypeOfId[asked[kind]] = kind
     /\ \E ok \in BOOLEAN : fetched[kind] = Result([id |-> asked[kind], live |-> TRUE], ok)

\* Requests that count are those the hooks wait for; the others were aborted.
Waited(r) ==
  /\ r = [id |-> r.id, live |-> r.live] /\ r.live \in BOOLEAN
  /\ r.live => /\ r.id # Undefined /\ TypeOfId[r.id] \in Inspected
               /\ asked[TypeOfId[r.id]] = r.id /\ fetched[TypeOfId[r.id]].loading

\* The hooks agree with their requests, whatever the panel has become since they ran.
FetchInv ==
  /\ asked = [kind \in Inspected |-> asked[kind]]
  /\ fetched = [kind \in Inspected |-> fetched[kind]]
  /\ \A kind \in Inspected : Fits(kind)
  /\ \A r \in requests : Waited(r)

-----------------------------------------------------------------------------
\* A panel of one of the four kinds tells about a resource of that kind.
LEMMA UrlIs ==
  ASSUME NEW kind \in Inspected, Url(kind) # Undefined
  PROVE  /\ variant = kind /\ Url(kind) = detailNodeId
         /\ TypeOfId[Url(kind)] = kind
<1>1. variant = kind /\ Url(kind) = detailNodeId
  BY DEF Url
<1>2. kind \notin {"none", "ghost"}
  BY DEF Inspected
<1> QED
  BY <1>1, <1>2 DEF variant

\* And what it tells about is not nothing.
LEMMA VariantIs ==
  ASSUME variant \in Inspected
  PROVE  detailNodeId # Undefined /\ TypeOfId[detailNodeId] = variant
<1>1. variant \notin {"none", "ghost"}
  BY DEF Inspected
<1> QED
  BY <1>1 DEF variant

\* Nothing is asked for when the page opens or is loaded again.
LEMMA FetchFresh ==
  ASSUME asked' = [kind \in Inspected |-> Undefined],
         fetched' = [kind \in Inspected |-> EMPTY], requests' = {}
  PROVE  FetchInv'
BY DEF FetchInv, Fits

\* The hooks run after a render: what is no longer asked for is aborted.
LEMMA FetchRuns == FetchInv /\ RunFetches => FetchInv'
<1> SUFFICES ASSUME FetchInv, RunFetches PROVE FetchInv'
  OBVIOUS
<1> DEFINE changed == {kind \in Inspected : asked[kind] # Url(kind)}
           Still(r) == [r EXCEPT !.live = r.live /\ TypeOfId[r.id] \notin changed]
           new == {[id |-> Url(kind), live |-> TRUE] : kind \in {k \in changed : Url(k) # Undefined}}
<1>1. /\ asked' = [kind \in Inspected |-> Url(kind)]
      /\ requests' = {Still(r) : r \in requests} \union new
      /\ fetched' = [kind \in Inspected |->
                       IF kind \notin changed THEN fetched[kind]
                       ELSE IF Url(kind) = Undefined THEN EMPTY
                       ELSE [data |-> fetched[kind].data, loading |-> TRUE, error |-> FALSE]]
  BY DEF RunFetches
<1>2. ASSUME NEW kind \in Inspected PROVE Fits(kind)'
  <2>1. CASE kind \notin changed
    <3>1. asked'[kind] = asked[kind] /\ fetched'[kind] = fetched[kind]
      BY <1>1, <2>1
    <3>2. ASSUME [id |-> asked[kind], live |-> TRUE] \in requests, TypeOfId[asked[kind]] = kind
          PROVE  [id |-> asked[kind], live |-> TRUE] \in requests'
      <4>1. Still([id |-> asked[kind], live |-> TRUE]) = [id |-> asked[kind], live |-> TRUE]
        BY <2>1, <3>2
      <4> QED
        BY <1>1, <3>2, <4>1
    <3>3. Fits(kind)
      BY DEF FetchInv
    <3> QED
      BY <3>1, <3>2, <3>3 DEF Fits, Result
  <2>2. CASE kind \in changed /\ Url(kind) = Undefined
    BY <1>1, <2>2 DEF Fits
  <2>3. CASE kind \in changed /\ Url(kind) # Undefined
    <3>1. [id |-> Url(kind), live |-> TRUE] \in requests'
      BY <1>1, <2>3
    <3>2. /\ asked'[kind] = Url(kind)
          /\ fetched'[kind] = [data |-> fetched[kind].data, loading |-> TRUE, error |-> FALSE]
      BY <1>1, <2>3
    <3> QED
      BY <2>3, <3>1, <3>2, UrlIs DEF Fits
  <2> QED
    BY <2>1, <2>2, <2>3
<1>3. ASSUME NEW r \in requests' PROVE Waited(r)'
  <2>1. CASE r \in new
    <3>1. PICK kind \in changed : Url(kind) # Undefined /\ r = [id |-> Url(kind), live |-> TRUE]
      BY <2>1
    <3>2. /\ asked'[kind] = Url(kind)
          /\ fetched'[kind].loading
      BY <1>1, <3>1
    <3> QED
      BY <3>1, <3>2, UrlIs DEF Waited
  <2>2. CASE r \in {Still(q) : q \in requests}
    <3>1. PICK q \in requests : r = Still(q)
      BY <2>2
    <3>2. Waited(q)
      BY DEF FetchInv
    <3>3. r = [id |-> q.id, live |-> q.live /\ TypeOfId[q.id] \notin changed]
      BY <3>1, <3>2 DEF Waited
    <3>4. CASE q.live /\ TypeOfId[q.id] \notin changed
      <4>1. r = [id |-> q.id, live |-> TRUE]
        BY <3>3, <3>4
      <4>2. /\ TypeOfId[q.id] \in Inspected
            /\ asked'[TypeOfId[q.id]] = asked[TypeOfId[q.id]]
            /\ fetched'[TypeOfId[q.id]] = fetched[TypeOfId[q.id]]
        BY <1>1, <3>2, <3>4 DEF Waited
      <4> QED
        BY <3>2, <3>4, <4>1, <4>2 DEF Waited
    <3>5. CASE ~(q.live /\ TypeOfId[q.id] \notin changed)
      <4>1. r = [id |-> q.id, live |-> FALSE]
        BY <3>2, <3>3, <3>5 DEF Waited
      <4> QED
        BY <4>1 DEF Waited
    <3> QED
      BY <3>4, <3>5
  <2> QED
    BY <1>1, <2>1, <2>2
<1> QED
  BY <1>1, <1>2, <1>3 DEF FetchInv

\* An answer is taken by the hook that waits for it, and by none when it was aborted.
LEMMA FetchAnswers ==
  ASSUME FetchInv, NEW r \in requests, NEW ok \in BOOLEAN, Answer(r, ok)
  PROVE  FetchInv'
<1>1. asked' = asked /\ requests' = requests \ {r} /\ Waited(r)
  BY DEF Answer, FetchInv
<1>2. CASE ~r.live
  <2>1. fetched' = fetched
    BY <1>2 DEF Answer, Counts
  <2>2. ASSUME NEW kind \in Inspected PROVE Fits(kind)'
    <3>1. Fits(kind)
      BY DEF FetchInv
    <3>2. [id |-> asked[kind], live |-> TRUE] # r
      BY <1>2
    <3> QED
      BY <1>1, <2>1, <3>1, <3>2 DEF Fits, Result
  <2>3. ASSUME NEW q \in requests' PROVE Waited(q)'
    BY <1>1, <2>1 DEF FetchInv, Waited
  <2> QED
    BY <1>1, <2>1, <2>2, <2>3 DEF FetchInv
<1>3. CASE r.live
  <2> DEFINE own == TypeOfId[r.id]
  <2>1. own \in Inspected /\ asked[own] = r.id /\ r.id # Undefined /\ r = [id |-> r.id, live |-> TRUE]
    BY <1>1, <1>3 DEF Waited
  <2>2. fetched' = [fetched EXCEPT ![own] = Result(r, ok)]
    BY <1>3 DEF Answer, Counts
  <2>3. /\ fetched'[own] = Result(r, ok)
        /\ \A kind \in Inspected \ {own} : fetched'[kind] = fetched[kind]
        /\ fetched' = [kind \in Inspected |-> fetched'[kind]]
    BY <2>1, <2>2 DEF FetchInv
  <2>4. ASSUME NEW kind \in Inspected PROVE Fits(kind)'
    <3>1. CASE kind = own
      <4>1. fetched'[kind] = Result([id |-> asked'[kind], live |-> TRUE], ok)
        BY <1>1, <2>1, <2>3, <3>1
      <4> QED
        BY <1>1, <2>1, <3>1, <4>1 DEF Fits, Result
    <3>2. CASE kind # own
      <4>1. Fits(kind) /\ fetched'[kind] = fetched[kind]
        BY <2>3, <3>2 DEF FetchInv
      <4>2. TypeOfId[asked[kind]] = kind => [id |-> asked[kind], live |-> TRUE] # r
        BY <2>1, <3>2
      <4> QED
        BY <1>1, <4>1, <4>2 DEF Fits, Result
    <3> QED
      BY <3>1, <3>2
  <2>5. ASSUME NEW q \in requests' PROVE Waited(q)'
    <3>1. Waited(q) /\ q # r
      BY <1>1 DEF FetchInv
    <3>2. CASE ~q.live
      BY <3>1, <3>2 DEF Waited
    <3>3. CASE q.live
      <4>1. q = [id |-> q.id, live |-> TRUE] /\ q.id # r.id
        BY <2>1, <3>1, <3>3 DEF Waited
      <4>2. TypeOfId[q.id] # own
        BY <2>1, <3>1, <3>3, <4>1 DEF Waited
      <4> QED
        BY <1>1, <2>3, <3>1, <3>3, <4>2 DEF Waited
    <3> QED
      BY <3>1, <3>2, <3>3 DEF Waited
  <2> QED
    BY <1>1, <2>3, <2>4, <2>5 DEF FetchInv
<1> QED
  BY <1>1, <1>2, <1>3 DEF Waited

\* No other step touches what the hooks keep.
LEMMA FetchRests ==
  ASSUME [FlowNext]_pageVars
  PROVE  \/ UNCHANGED fetchVars
         \/ Reload \/ RunFetches
         \/ \E r \in requests, ok \in BOOLEAN : Answer(r, ok)
<1>1. CASE CanvasNext
  BY <1>1 DEF CanvasNext, GraphArrives, CanvasCatchesUp, Click, onPaneClick, setGroupBy
<1>2. CASE PanelNext
  BY <1>2 DEF PanelNext, GraphArrives, CanvasCatchesUp, Opens, CloseClicked, Fetching
<1>3. CASE ScreenNext
  <2>1. CASE \/ \E view \in Views : setActiveView(view)
             \/ \E stack \in Scopes :
                  \/ changeStack(stack, activeView)
                  \/ activeView = "dashboard" /\ stack # Undefined /\ changeStack(stack, "graph")
    BY <2>1 DEF setActiveView, changeStack
  <2>2. CASE \/ \E text \in Queries : setQuery(text)
             \/ Debounced
             \/ \E chip \in STATUS_OPTIONS \union TYPE_OPTIONS : toggleChip(chip)
             \/ ClearSearch
    BY <2>2 DEF setQuery, Debounced, toggleChip, ClearSearch
  <2>3. CASE \/ FollowSelection
             \/ \E tab \in Tabs : setTableTab(tab) \/ ClickTotal(tab)
             \/ \E status \in WorkloadStatuses : ClickStatus(status)
    BY <2>3 DEF FollowSelection, setTableTab, ClickTotal, ClickStatus, handleDrill
  <2>4. CASE Opens \/ \E inSearch \in BOOLEAN : Escape(inSearch)
    BY <2>4 DEF Opens, Escape
  <2> QED
    BY <1>3, <2>1, <2>2, <2>3, <2>4 DEF ScreenNext
<1>4. CASE UNCHANGED pageVars
  BY <1>4 DEF pageVars
<1> QED
  BY <1>1, <1>2, <1>3, <1>4 DEF FlowNext

\* Every step of the page keeps it.
LEMMA FetchStep == FetchInv /\ [FlowNext]_pageVars => FetchInv'
<1> SUFFICES ASSUME FetchInv, [FlowNext]_pageVars PROVE FetchInv'
  OBVIOUS
<1>1. CASE UNCHANGED fetchVars
  BY <1>1 DEF fetchVars, FetchInv, Fits, Waited, Result
<1>2. CASE Reload
  BY <1>2, FetchFresh DEF Reload
<1> QED
  BY <1>1, <1>2, FetchRuns, FetchAnswers, FetchRests

\* Once the effects have run, the panel tells about its own resource.
LEMMA FetchTells == FetchInv => PanelTellsItsOwn
<1> SUFFICES ASSUME FetchInv, ~FetchesDue
             PROVE  /\ {r.id : r \in {q \in requests : q.live}} = IF loading THEN {detailNodeId} ELSE {}
                    /\ PanelBody \in {Undefined, detailNodeId}
                    /\ PanelBody = Undefined => loading \/ error \/ variant = "none"
                    /\ \A kind \in Inspected \ {variant} : fetched[kind] = EMPTY
  BY DEF PanelTellsItsOwn
<1>1. \A kind \in Inspected : asked[kind] = Url(kind)
  BY DEF FetchesDue
<1>2. ASSUME NEW kind \in Inspected \ {variant} PROVE asked[kind] = Undefined /\ fetched[kind] = EMPTY
  <2>1. asked[kind] = Undefined
    BY <1>1 DEF Url
  <2> QED
    BY <2>1 DEF FetchInv, Fits
<1>3. ASSUME NEW r \in requests, r.live
      PROVE  loading /\ r.id = detailNodeId
  <2> DEFINE own == TypeOfId[r.id]
  <2>1. own \in Inspected /\ asked[own] = r.id /\ r.id # Undefined /\ fetched[own].loading
    BY <1>3 DEF FetchInv, Waited
  <2>2. own = variant
    BY <1>2, <2>1
  <2>3. Url(own) = detailNodeId
    BY <2>2 DEF Url
  <2> QED
    BY <1>1, <2>1, <2>2, <2>3 DEF loading
<1>4. ASSUME variant \in Inspected
      PROVE  /\ asked[variant] = detailNodeId /\ detailNodeId # Undefined
             /\ \/ loading /\ [id |-> detailNodeId, live |-> TRUE] \in requests
                \/ /\ ~loading
                   /\ \E ok \in BOOLEAN : fetched[variant] = Result([id |-> detailNodeId, live |-> TRUE], ok)
  <2>1. asked[variant] = detailNodeId /\ detailNodeId # Undefined
    BY <1>1, <1>4, VariantIs DEF Url
  <2>2. Fits(variant)
    BY <1>4 DEF FetchInv
  <2> QED
    <3>1. CASE fetched[variant].loading /\ [id |-> asked[variant], live |-> TRUE] \in requests
      BY <1>4, <2>1, <3>1 DEF loading
    <3>2. CASE \E ok \in BOOLEAN : fetched[variant] = Result([id |-> asked[variant], live |-> TRUE], ok)
      <4>1. PICK ok \in BOOLEAN : fetched[variant] = Result([id |-> asked[variant], live |-> TRUE], ok)
        BY <3>2
      <4>2. fetched[variant].loading = FALSE
        BY <4>1 DEF Result
      <4>3. ~loading
        BY <4>2 DEF loading
      <4> QED
        BY <2>1, <4>1, <4>3
    <3> QED
      BY <2>1, <2>2, <3>1, <3>2 DEF Fits
<1>5. {r.id : r \in {q \in requests : q.live}} = IF loading THEN {detailNodeId} ELSE {}
  <2>1. CASE loading
    <3>1. [id |-> detailNodeId, live |-> TRUE] \in requests
      BY <1>4, <2>1 DEF loading
    <3> QED
      BY <1>3, <2>1, <3>1
  <2>2. CASE ~loading
    BY <1>3, <2>2
  <2> QED
    BY <2>1, <2>2
<1>6. /\ PanelBody \in {Undefined, detailNodeId}
      /\ PanelBody = Undefined => loading \/ error \/ variant = "none"
  <2>1. CASE loading \/ error \/ variant = "none"
    BY <2>1 DEF PanelBody
  <2>2. CASE ~(loading \/ error \/ variant = "none") /\ variant \notin Inspected
    <3>1. detailNodeId # Undefined
      BY <2>2 DEF variant
    <3> QED
      BY <2>2, <3>1 DEF PanelBody
  <2>3. CASE ~(loading \/ error \/ variant = "none") /\ variant \in Inspected
    <3>1. PICK ok \in BOOLEAN : fetched[variant] = Result([id |-> detailNodeId, live |-> TRUE], ok)
      BY <1>4, <2>3
    <3>2. ok
      <4>1. fetched[variant].error = ~ok
        BY <3>1 DEF Result
      <4> QED
        BY <2>3, <4>1 DEF error
    <3>3. fetched[variant].data = detailNodeId
      BY <3>1, <3>2 DEF Result
    <3> QED
      BY <1>4, <2>3, <3>3 DEF PanelBody
  <2> QED
    BY <2>1, <2>2, <2>3
<1> QED
  BY <1>2, <1>5, <1>6

\* Once the effects of a render have run, at most one request counts, the one the panel
\* waits for, and what it shows is about the resource it was opened for, through any graphs,
\* scopes, clicks and late answers (useDetailPanel.ts:158, useResourceDetail.ts:14).
THEOREM PanelTells == FlowSpec => []PanelTellsItsOwn
<1>1. FlowInit => FetchInv
  BY DEF FlowInit, PanelInit, FetchInv, Fits
<1> QED
  BY <1>1, FetchStep, FetchTells, PTL DEF FlowSpec

-----------------------------------------------------------------------------
(* The paths of the edges.                                                 *)

\* What holds for no least number holds for none (the induction the paths need).
LEMMA NoLeast ==
  ASSUME NEW Bad \in SUBSET Nat,
         \A n \in Bad : \E m \in Bad : m < n
  PROVE  Bad = {}
<1> SUFFICES ASSUME Bad # {} PROVE FALSE
  OBVIOUS
<1>1. PICK n \in Bad : \A m \in Bad : ~(<<m, n>> \in OpToRel(<, Nat))
  BY NatLessThanWellFounded, WFMin
<1>2. PICK m \in Bad : m < n
  OBVIOUS
<1>3. <<m, n>> \in OpToRel(<, Nat)
  <2>1. m \in Nat /\ n \in Nat
    OBVIOUS
  <2> QED
    BY <1>2, <2>1 DEF OpToRel
<1> QED
  BY <1>1, <1>3

\* The least of some numbers is one of them.
LEMMA MinIs ==
  ASSUME NEW S \in SUBSET Nat, S # {}
  PROVE  Min(S) \in S /\ \A k \in S : Min(S) <= k
<1>1. \E n \in S : \A m \in S : ~(m < n)
  BY NoLeast
<1>2. \E n \in S : \A m \in S : n <= m
  BY <1>1
<1> QED
  BY <1>2 DEF Min

\* Lengths can be added up from the first to the last.
LEMMA SumsExist ==
  ASSUME NEW n \in Nat, NEW len
  PROVE  \E u : u = [i \in 0..n |-> IF i <= 1 THEN 0 ELSE u[i - 1] + len[i - 1]]
<1> DEFINE Sums(k, u) == u = [i \in 0..k |-> IF i <= 1 THEN 0 ELSE u[i - 1] + len[i - 1]]
           Bad == {k \in Nat : ~\E u : Sums(k, u)}
<1>1. ASSUME NEW k \in Bad PROVE \E m \in Bad : m < k
  <2> SUFFICES ASSUME \A m \in Nat : m < k => m \notin Bad PROVE FALSE
    OBVIOUS
  <2>1. CASE k = 0
    <3>1. Sums(0, [i \in 0..0 |-> 0])
      OBVIOUS
    <3> QED
      BY <2>1, <3>1
  <2>2. CASE k # 0
    <3>1. k - 1 \in Nat /\ k - 1 < k
      BY <2>2
    <3>2. PICK u : Sums(k - 1, u)
      BY <3>1
    <3> DEFINE v == [i \in 0..k |-> IF i <= 1 THEN 0 ELSE u[i - 1] + len[i - 1]]
    <3>3. ASSUME NEW i \in 0..(k - 1) PROVE v[i] = u[i]
      BY <3>1, <3>2
    <3>4. ASSUME NEW i \in 0..k
          PROVE  v[i] = IF i <= 1 THEN 0 ELSE v[i - 1] + len[i - 1]
      <4>1. CASE i <= 1
        BY <4>1
      <4>2. CASE ~(i <= 1)
        <5>1. i - 1 \in 0..(k - 1)
          BY <4>2
        <5>2. v[i - 1] = u[i - 1]
          BY <3>3, <5>1
        <5> QED
          BY <4>2, <5>2
      <4> QED
        BY <4>1, <4>2
    <3>5. v = [i \in 0..k |-> v[i]]
      OBVIOUS
    <3>6. Sums(k, v)
      <4> HIDE DEF v
      <4> QED
        BY <3>4, <3>5
    <3> QED
      BY <3>6
  <2> QED
    BY <2>1, <2>2
<1>2. Bad = {}
  <2> HIDE DEF Bad
  <2>1. Bad \in SUBSET Nat
    BY DEF Bad
  <2> QED
    BY <1>1, <2>1, NoLeast
<1> QED
  BY <1>2

LEMMA AbsIs ==
  ASSUME NEW n \in Int
  PROVE  Abs(n) \in Nat
BY DEF Abs

\* How far along a path its points are.
LEMMA UptoIs ==
  ASSUME NEW points \in Seq(Point)
  PROVE  /\ \A i \in 0..Len(points) : i <= 1 => Upto(points)[i] = 0
         /\ \A i \in 2..Len(points) : Upto(points)[i] = Upto(points)[i - 1] + StrokeLength(points, i - 1)
         /\ \A i \in 0..Len(points) : Upto(points)[i] \in Nat
         /\ \A i \in 1..(Len(points) - 1) : StrokeLength(points, i) \in Nat
<1> DEFINE u == Upto(points)
           len == [i \in 1..Len(points) |-> StrokeLength(points, i)]
<1>0. Len(points) \in Nat
  OBVIOUS
<1>1. u = [i \in 0..Len(points) |-> IF i <= 1 THEN 0 ELSE u[i - 1] + StrokeLength(points, i - 1)]
  <2>1. PICK w : w = [i \in 0..Len(points) |-> IF i <= 1 THEN 0 ELSE w[i - 1] + len[i - 1]]
    <3> HIDE DEF len
    <3> QED
      BY <1>0, SumsExist
  <2>2. ASSUME NEW i \in 0..Len(points), ~(i <= 1)
        PROVE  len[i - 1] = StrokeLength(points, i - 1)
    BY <1>0, <2>2
  <2>3. w = [i \in 0..Len(points) |-> IF i <= 1 THEN 0 ELSE w[i - 1] + StrokeLength(points, i - 1)]
    <3> HIDE DEF len
    <3> QED
      BY <2>1, <2>2
  <2> QED
    BY <2>3 DEF Upto
<1>2. \A i \in 1..(Len(points) - 1) : StrokeLength(points, i) \in Nat
  <2> TAKE i \in 1..(Len(points) - 1)
  <2>1. i \in 1..Len(points) /\ i + 1 \in 1..Len(points)
    BY <1>0
  <2>2. points[i] \in Point /\ points[i + 1] \in Point
    BY <2>1
  <2> DEFINE p == points[i]
             r == points[i + 1]
  <2>3. p.x \in Int /\ p.y \in Int /\ r.x \in Int /\ r.y \in Int
    BY <2>2 DEF Point
  <2>4. StrokeLength(points, i) = Abs(r.x - p.x) + Abs(r.y - p.y)
    BY DEF StrokeLength
  <2> HIDE DEF p, r
  <2>5. r.x - p.x \in Int /\ r.y - p.y \in Int
    BY <2>3
  <2>6. Abs(r.x - p.x) \in Nat /\ Abs(r.y - p.y) \in Nat
    BY <2>5, AbsIs
  <2> QED
    BY <2>4, <2>6
<1> HIDE DEF u
<1>3. /\ \A i \in 0..Len(points) : i <= 1 => u[i] = 0
      /\ \A i \in 2..Len(points) : u[i] = u[i - 1] + StrokeLength(points, i - 1)
  BY <1>0, <1>1
<1> DEFINE Bad == {k \in 0..Len(points) : u[k] \notin Nat}
<1>4. ASSUME NEW k \in Bad PROVE \E m \in Bad : m < k
  <2>1. ~(k <= 1)
    BY <1>3
  <2>2. k \in 2..Len(points) /\ k - 1 \in 1..(Len(points) - 1) /\ k - 1 \in 0..Len(points)
    BY <1>0, <2>1
  <2>3. u[k - 1] \notin Nat
    BY <1>2, <1>3, <2>2
  <2> QED
    BY <2>2, <2>3
<1>5. Bad = {}
  <2> HIDE DEF Bad
  <2>1. Bad \in SUBSET Nat
    BY <1>0 DEF Bad
  <2> QED
    BY <1>4, <2>1, NoLeast
<1> QED
  BY <1>2, <1>3, <1>5 DEF u

\* One of finitely many numbers is the least, and one is the greatest.
LEMMA LeastOf ==
  ASSUME NEW n \in Nat \ {0}, NEW f \in [1..n -> Int]
  PROVE  \E m \in 1..n : \A k \in 1..n : f[m] <= f[k]
<1> DEFINE Bad == {k \in 1..n : ~\E m \in 1..k : \A j \in 1..k : f[m] <= f[j]}
<1>1. ASSUME NEW k \in Bad PROVE \E m \in Bad : m < k
  <2> SUFFICES ASSUME \A m \in 1..n : m < k => m \notin Bad PROVE FALSE
    OBVIOUS
  <2>1. k \in 1..n /\ ~\E m \in 1..k : \A j \in 1..k : f[m] <= f[j]
    OBVIOUS
  <2>2. k # 1
    BY <2>1
  <2>3. k - 1 \in 1..n /\ k - 1 < k
    BY <2>1, <2>2
  <2>4. PICK m \in 1..(k - 1) : \A j \in 1..(k - 1) : f[m] <= f[j]
    BY <2>3
  <2> HIDE DEF Bad
  <2>5. m \in 1..k /\ m \in 1..n /\ f[m] \in Int /\ f[k] \in Int /\ k \in 1..k
    BY <2>1, <2>3
  <2>6. CASE f[m] <= f[k]
    <3>1. \A j \in 1..k : f[m] <= f[j]
      <4> TAKE j \in 1..k
      <4>1. j = k \/ j \in 1..(k - 1)
        BY <2>1
      <4> QED
        BY <2>4, <2>6, <4>1
    <3> QED
      BY <2>1, <2>5, <3>1
  <2>7. CASE f[k] < f[m]
    <3>1. \A j \in 1..k : f[k] <= f[j]
      <4> TAKE j \in 1..k
      <4>1. j = k \/ j \in 1..(k - 1)
        BY <2>1
      <4>2. f[j] \in Int
        BY <2>1
      <4> QED
        BY <2>4, <2>5, <2>7, <4>1, <4>2
    <3> QED
      BY <2>1, <2>5, <3>1
  <2> QED
    BY <2>5, <2>6, <2>7
<1>2. Bad = {}
  <2> HIDE DEF Bad
  <2>1. Bad \in SUBSET Nat
    BY DEF Bad
  <2> QED
    BY <1>1, <2>1, NoLeast
<1>3. n \in 1..n
  OBVIOUS
<1> QED
  BY <1>2, <1>3

LEMMA BoundsOf ==
  ASSUME NEW n \in Nat \ {0}, NEW f \in [1..n -> Int]
  PROVE  LET S == {f[i] : i \in 1..n}
         IN /\ Min(S) \in Int /\ Max(S) \in Int
            /\ \A k \in 1..n : Min(S) <= f[k] /\ f[k] <= Max(S)
<1> DEFINE S == {f[i] : i \in 1..n}
           g == [i \in 1..n |-> 0 - f[i]]
<1>1. \E x \in S : \A y \in S : x <= y
  <2>1. PICK m \in 1..n : \A k \in 1..n : f[m] <= f[k]
    BY LeastOf
  <2> QED
    BY <2>1
<1>2. \E x \in S : \A y \in S : x >= y
  <2>1. g \in [1..n -> Int]
    OBVIOUS
  <2>2. PICK m \in 1..n : \A k \in 1..n : g[m] <= g[k]
    <3> HIDE DEF g
    <3> QED
      BY <2>1, LeastOf
  <2>3. \A k \in 1..n : f[m] >= f[k]
    <3> TAKE k \in 1..n
    <3>1. g[m] = 0 - f[m] /\ g[k] = 0 - f[k] /\ g[m] <= g[k]
      BY <2>2
    <3>2. f[m] \in Int /\ f[k] \in Int
      OBVIOUS
    <3> HIDE DEF g
    <3> QED
      BY <3>1, <3>2
  <2> QED
    BY <2>3
<1>3. Min(S) \in S /\ \A y \in S : Min(S) <= y
  <2> HIDE DEF S
  <2> QED
    BY <1>1 DEF Min
<1>4. Max(S) \in S /\ \A y \in S : Max(S) >= y
  <2> HIDE DEF S
  <2> QED
    BY <1>2 DEF Max
<1>5. ASSUME NEW k \in 1..n PROVE Min(S) <= f[k] /\ f[k] <= Max(S)
  <2>1. f[k] \in S
    OBVIOUS
  <2>2. S \subseteq Int
    OBVIOUS
  <2> HIDE DEF S
  <2> QED
    BY <1>3, <1>4, <2>1, <2>2
<1>6. S \subseteq Int
  OBVIOUS
<1> QED
  BY <1>3, <1>4, <1>5, <1>6

\* The box of a path is around its points.
LEMMA BoxAround ==
  ASSUME NEW points \in Seq(Point), Len(points) # 0
  PROVE  LET box == polylineBBox(points)
         IN /\ box.minX \in Int /\ box.maxX \in Int /\ box.minY \in Int /\ box.maxY \in Int
            /\ \A i \in 1..Len(points) :
                 /\ box.minX <= points[i].x /\ points[i].x <= box.maxX
                 /\ box.minY <= points[i].y /\ points[i].y <= box.maxY
<1> DEFINE n == Len(points)
           xOf == [i \in 1..n |-> points[i].x]
           yOf == [i \in 1..n |-> points[i].y]
           xs == {q.x : q \in ToSet(points)}
           ys == {q.y : q \in ToSet(points)}
<1>1. n \in Nat \ {0} /\ DOMAIN points = 1..n /\ \A i \in 1..n : points[i] \in Point
  OBVIOUS
<1>2. xOf \in [1..n -> Int] /\ yOf \in [1..n -> Int]
  BY <1>1 DEF Point
<1>3. xs = {xOf[i] : i \in 1..n} /\ ys = {yOf[i] : i \in 1..n}
  BY <1>1 DEF ToSet
<1>4. /\ Min(xs) \in Int /\ Max(xs) \in Int
      /\ \A k \in 1..n : Min(xs) <= xOf[k] /\ xOf[k] <= Max(xs)
  <2> HIDE DEF xs, n, xOf
  <2> QED
    BY <1>1, <1>2, <1>3, BoundsOf
<1>5. /\ Min(ys) \in Int /\ Max(ys) \in Int
      /\ \A k \in 1..n : Min(ys) <= yOf[k] /\ yOf[k] <= Max(ys)
  <2> HIDE DEF ys, n, yOf
  <2> QED
    BY <1>1, <1>2, <1>3, BoundsOf
<1>6. polylineBBox(points) = [minX |-> Min(xs), maxX |-> Max(xs), minY |-> Min(ys), maxY |-> Max(ys)]
  BY DEF polylineBBox
<1>7. ASSUME NEW i \in 1..Len(points)
      PROVE  /\ Min(xs) <= points[i].x /\ points[i].x <= Max(xs)
             /\ Min(ys) <= points[i].y /\ points[i].y <= Max(ys)
  <2>1. xOf[i] = points[i].x /\ yOf[i] = points[i].y
    OBVIOUS
  <2> HIDE DEF xs, ys, xOf, yOf
  <2> QED
    BY <1>4, <1>5, <2>1
<1> HIDE DEF xs, ys, xOf, yOf, n
<1> QED
  BY <1>4, <1>5, <1>6, <1>7

\* A number between two, or those two.
Between(a, c, b) == (a <= c /\ c <= b) \/ (b <= c /\ c <= a)

\* On a stroke something is never further than its ends.
LEMMA OnStroke ==
  ASSUME NEW a \in Int, NEW b \in Int, NEW rest \in Nat, rest <= Abs(b - a)
  PROVE  a + Sign(b - a) * rest \in Int /\ Between(a, a + Sign(b - a) * rest, b)
<1>1. CASE b > a
  <2>1. Sign(b - a) = 1 /\ Abs(b - a) = b - a
    BY <1>1 DEF Sign, Abs
  <2>2. a + Sign(b - a) * rest = a + rest
    BY <2>1
  <2> QED
    BY <1>1, <2>1, <2>2 DEF Between
<1>2. CASE b < a
  <2>1. Sign(b - a) = -1 /\ Abs(b - a) = a - b
    BY <1>2 DEF Sign, Abs
  <2>2. a + Sign(b - a) * rest = a - rest
    BY <2>1
  <2> QED
    BY <1>2, <2>1, <2>2 DEF Between
<1>3. CASE b = a
  <2>1. Sign(b - a) = 0
    BY <1>3 DEF Sign
  <2>2. a + Sign(b - a) * rest = a
    BY <2>1
  <2> QED
    BY <1>3, <2>2 DEF Between
<1> QED
  BY <1>1, <1>2, <1>3

LEMMA StillBetween ==
  ASSUME NEW a \in Int, NEW b \in Int, NEW c \in Int, NEW low \in Int, NEW high \in Int,
         Between(a, c, b), low <= a, a <= high, low <= b, b <= high
  PROVE  low <= c /\ c <= high
BY DEF Between

\* What is on a path is in its box.
LEMMA PointInBox ==
  ASSUME NEW points, Straight(points), Len(points) >= 2,
         NEW d \in 0..polylineLength(points)
  PROVE  LET q == polylinePointAt(points, d)
             box == polylineBBox(points)
         IN /\ q \in Point
            /\ box.minX <= q.x /\ q.x <= box.maxX
            /\ box.minY <= q.y /\ q.y <= box.maxY
<1> DEFINE n == Len(points)
           total == polylineLength(points)
           box == polylineBBox(points)
           Inside(q) == /\ q \in Point
                        /\ box.minX <= q.x /\ q.x <= box.maxX
                        /\ box.minY <= q.y /\ q.y <= box.maxY
           upto == Upto(points)
<1>1. points \in Seq(Point) /\ n \in Nat /\ n >= 2 /\ \A i \in 1..n : points[i] \in Point
  BY DEF Straight
<1>2. /\ box.minX \in Int /\ box.maxX \in Int /\ box.minY \in Int /\ box.maxY \in Int
      /\ \A i \in 1..n : /\ box.minX <= points[i].x /\ points[i].x <= box.maxX
                         /\ box.minY <= points[i].y /\ points[i].y <= box.maxY
  BY <1>1, BoxAround
<1>3. \A i \in 1..n : Inside(points[i])
  BY <1>1, <1>2
<1>4. /\ total = upto[n] /\ upto[1] = 0
      /\ \A i \in 2..n : upto[i] = upto[i - 1] + StrokeLength(points, i - 1)
      /\ \A i \in 0..n : upto[i] \in Nat
      /\ \A i \in 1..(n - 1) : StrokeLength(points, i) \in Nat
  BY <1>1, UptoIs DEF polylineLength
<1>5. d \in Nat /\ d <= total
  <2>1. total \in Nat
    BY <1>1, <1>4
  <2> QED
    BY <2>1
<1>6. CASE d <= 0
  <2>1. polylinePointAt(points, d) = points[1]
    BY <1>6 DEF polylinePointAt
  <2>2. 1 \in 1..n
    BY <1>1
  <2> QED
    BY <1>3, <2>1, <2>2
<1>7. CASE ~(d <= 0) /\ d >= total
  <2>1. polylinePointAt(points, d) = points[n]
    BY <1>1, <1>7 DEF polylinePointAt, Last
  <2>2. n \in 1..n
    BY <1>1
  <2> QED
    BY <1>3, <2>1, <2>2
<1>8. CASE ~(d <= 0) /\ ~(d >= total)
  <2> DEFINE beyond == {k \in 1..(n - 1) : upto[k + 1] >= d}
             i == Min(beyond)
             rest == d - upto[i]
             p == points[i]
             r == points[i + 1]
             q == [x |-> p.x + Sign(r.x - p.x) * rest, y |-> p.y + Sign(r.y - p.y) * rest]
  <2>1. n - 1 \in beyond
    BY <1>1, <1>4, <1>5, <1>8
  <2>2. i \in beyond /\ \A k \in beyond : i <= k
    <3>1. beyond \in SUBSET Nat
      BY <1>1
    <3> HIDE DEF beyond
    <3> QED
      BY <2>1, <3>1, MinIs
  <2>3. i \in 1..(n - 1) /\ upto[i + 1] >= d
    BY <2>2
  <2>4. upto[i] < d
    <3>1. CASE i = 1
      BY <1>4, <1>8, <3>1, <1>5
    <3>2. CASE i # 1
      <4> DEFINE j == i
      <4>1. i \in 1..(n - 1) /\ \A k \in beyond : i <= k
        BY <2>2
      <4> HIDE DEF i
      <4>2. i - 1 \in 1..(n - 1) /\ ~(i <= i - 1)
        BY <1>1, <3>2, <4>1
      <4>3. i - 1 \notin beyond
        BY <4>1, <4>2
      <4>4. ~(upto[(i - 1) + 1] >= d)
        BY <4>2, <4>3
      <4>5. (i - 1) + 1 = i /\ i \in 0..n
        BY <1>1, <4>1
      <4>6. upto[i] \in Nat /\ ~(upto[i] >= d)
        BY <1>4, <4>4, <4>5
      <4> QED
        BY <1>5, <4>6
    <3> QED
      BY <3>1, <3>2
  <2>5. polylinePointAt(points, d) = q
    BY <1>1, <1>8 DEF polylinePointAt
  <2> HIDE DEF i, beyond
  <2>6. i \in 1..n /\ i + 1 \in 1..n /\ i + 1 \in 2..n /\ i \in 0..n /\ (i + 1) - 1 = i
    BY <1>1, <2>3
  <2>7. upto[i + 1] = upto[i] + StrokeLength(points, i) /\ upto[i] \in Nat
        /\ StrokeLength(points, i) \in Nat
    BY <1>4, <2>3, <2>6
  <2>8. rest \in Nat /\ rest <= StrokeLength(points, i)
    BY <1>5, <2>3, <2>4, <2>7
  <2>9. p \in Point /\ r \in Point /\ (p.x = r.x \/ p.y = r.y)
    BY <1>1, <2>3, <2>6 DEF Straight
  <2>10. Inside(p) /\ Inside(r)
    BY <1>3, <2>6
  <2>11. p.x \in Int /\ p.y \in Int /\ r.x \in Int /\ r.y \in Int
    BY <2>9 DEF Point
  <2>12. StrokeLength(points, i) = Abs(r.x - p.x) + Abs(r.y - p.y)
    BY DEF StrokeLength
  <2> HIDE DEF rest, p, r, upto, n, box
  <2>13. p.x = r.x => StrokeLength(points, i) = Abs(r.y - p.y)
    BY <2>11, <2>12 DEF Abs
  <2>14. p.y = r.y => StrokeLength(points, i) = Abs(r.x - p.x)
    BY <2>11, <2>12 DEF Abs
  <2>15. q.x \in Int /\ Between(p.x, q.x, r.x)
    <3>1. CASE p.x = r.x
      <4>1. Sign(r.x - p.x) = 0
        BY <2>11, <3>1 DEF Sign
      <4>2. p.x + Sign(r.x - p.x) * rest = p.x
        BY <2>8, <2>11, <4>1
      <4> QED
        BY <2>11, <3>1, <4>2 DEF Between
    <3>2. CASE p.y = r.y
      <4>1. rest <= Abs(r.x - p.x)
        BY <2>8, <2>14, <3>2
      <4> QED
        BY <2>8, <2>11, <4>1, OnStroke
    <3> QED
      BY <2>9, <3>1, <3>2
  <2>16. q.y \in Int /\ Between(p.y, q.y, r.y)
    <3>1. CASE p.y = r.y
      <4>1. Sign(r.y - p.y) = 0
        BY <2>11, <3>1 DEF Sign
      <4>2. p.y + Sign(r.y - p.y) * rest = p.y
        BY <2>8, <2>11, <4>1
      <4> QED
        BY <2>11, <3>1, <4>2 DEF Between
    <3>2. CASE p.x = r.x
      <4>1. rest <= Abs(r.y - p.y)
        BY <2>8, <2>13, <3>2
      <4> QED
        BY <2>8, <2>11, <4>1, OnStroke
    <3> QED
      BY <2>9, <3>1, <3>2
  <2>17. q \in Point
    BY <2>15, <2>16 DEF Point
  <2> HIDE DEF q
  <2>18. box.minX <= q.x /\ q.x <= box.maxX
    BY <1>2, <2>10, <2>11, <2>15, StillBetween
  <2>19. box.minY <= q.y /\ q.y <= box.maxY
    BY <1>2, <2>10, <2>11, <2>16, StillBetween
  <2> QED
    BY <2>5, <2>17, <2>18, <2>19 DEF box
<1> QED
  BY <1>6, <1>7, <1>8

-----------------------------------------------------------------------------
(* The edges on the canvas.                                                *)

\* What is seen was drawn where the viewport is, and at its size unless the observer is
\* still to be told of it; and what moves has its loop.
DrawnWell ==
  /\ drawnAt = transform
  /\ HasAnimated(wired) => rafRef
  /\ \E s \in ViewSizes :
       picture = renderFrame(transform, s, wired) /\ (~resizeDue => s = viewSize)

\* The handle tells whether a loop is scheduled; without a layer nothing is; and what is
\* hidden has its timer.
EdgesInv ==
  /\ transform \in Transforms /\ viewSize \in ViewSizes
  /\ mounted \in BOOLEAN /\ edgesDue \in BOOLEAN /\ visible \in BOOLEAN /\ settleTimer \in BOOLEAN
  /\ rafRef \in BOOLEAN /\ resizeDue \in BOOLEAN
  /\ ticks = IF rafRef THEN 1 ELSE 0
  /\ ~mounted => ~edgesDue /\ ~settleTimer /\ ~rafRef /\ drawnAt = Undefined
  /\ mounted => wired \in EdgeSets
  /\ mounted /\ ~visible => settleTimer
  /\ mounted /\ ~edgesDue => /\ edgeData = wired /\ drawnAt \in Transforms
                             /\ visible => DrawnWell

LEMMA EdgesStart == EdgesInit => EdgesInv
BY DEF EdgesInit, EdgesInv

\* Every step of the layer keeps it.
LEMMA EdgesStep == EdgesInv /\ [EdgesNext]_edgeVars => EdgesInv'
<1> SUFFICES ASSUME EdgesInv, [EdgesNext]_edgeVars PROVE EdgesInv'
  OBVIOUS
<1> USE EdgesAssumption
<1>1. ASSUME NEW edges \in EdgeSets, RenderEdges(edges) PROVE EdgesInv'
  BY <1>1 DEF EdgesInv, RenderEdges
<1>2. ASSUME NEW t \in Transforms, Move(t) PROVE EdgesInv'
  <2>1. CASE drawnAt \in {Undefined, t}
    <3>1. mounted /\ ~edgesDue => ~visible
      BY <1>2, <2>1 DEF EdgesInv, Move, DrawnWell
    <3> QED
      BY <1>2, <2>1, <3>1 DEF EdgesInv, Move
  <2>2. CASE drawnAt \notin {Undefined, t}
    BY <1>2, <2>2 DEF EdgesInv, Move
  <2> QED
    BY <2>1, <2>2
<1>3. ASSUME NEW s \in ViewSizes, ResizeView(s) PROVE EdgesInv'
  <2>1. mounted /\ ~edgesDue => resizeDue'
    BY <1>3 DEF EdgesInv, ResizeView
  <2>2. mounted /\ ~edgesDue /\ visible => DrawnWell'
    <3>1. HasAnimated(wired)' = HasAnimated(wired)
      BY <1>3 DEF ResizeView, HasAnimated, animatedEdges
    <3>2. \A q : renderFrame(transform, q, wired)' = renderFrame(transform, q, wired)
      BY <1>3 DEF ResizeView
    <3> QED
      BY <1>3, <2>1, <3>1 DEF EdgesInv, ResizeView, DrawnWell
  <2>3. resizeDue' \in BOOLEAN
    BY <1>3 DEF ResizeView
  <2> QED
    BY <1>3, <2>2, <2>3 DEF EdgesInv, ResizeView
<1>4. CASE RunEdgeEffects
  <2>1. mounted /\ ticks \in Nat /\ Scheduled = 0
    BY <1>4 DEF EdgesInv, RunEdgeEffects, Scheduled
  <2>2. ticks' = (IF rafRef' THEN 1 ELSE 0) /\ rafRef' \in BOOLEAN
    <3>1. HasAnimated(wired) \in BOOLEAN
      BY DEF HasAnimated
    <3>2. rafRef' = HasAnimated(wired) /\ ticks' = IF HasAnimated(wired) THEN 1 ELSE 0
      BY <1>4, <2>1 DEF RunEdgeEffects
    <3> QED
      BY <3>1, <3>2
  <2>3. DrawnWell'
    BY <1>4 DEF EdgesInv, RunEdgeEffects, DrawnWell
  <2>4. resizeDue' \in BOOLEAN
    BY <1>4 DEF EdgesInv, RunEdgeEffects
  <2> QED
    BY <1>4, <2>1, <2>2, <2>3, <2>4 DEF EdgesInv, RunEdgeEffects
<1>5. CASE UnmountEdges
  <2>1. Scheduled = 0
    BY DEF EdgesInv, Scheduled
  <2> QED
    BY <1>5, <2>1 DEF EdgesInv, UnmountEdges
<1>6. CASE Settle
  <2>1. mounted
    BY <1>6 DEF EdgesInv, Settle
  <2>2. /\ rafRef' = (rafRef \/ (~rafRef /\ HasAnimated(edgeData)))
        /\ ticks' = ticks + IF ~rafRef /\ HasAnimated(edgeData) THEN 1 ELSE 0
    BY <1>6 DEF Settle, startAnimLoop
  <2>3. ticks' = (IF rafRef' THEN 1 ELSE 0) /\ rafRef' \in BOOLEAN
    <3>1. HasAnimated(edgeData) \in BOOLEAN
      BY DEF HasAnimated
    <3>2. rafRef \in BOOLEAN /\ ticks = IF rafRef THEN 1 ELSE 0
      BY DEF EdgesInv
    <3>3. CASE rafRef
      <4>1. rafRef' = TRUE
        BY <2>2, <3>3
      <4>2. ticks' = ticks + 0 /\ ticks = 1
        BY <2>2, <3>2, <3>3
      <4> QED
        BY <4>1, <4>2
    <3>4. CASE ~rafRef
      BY <2>2, <3>1, <3>2, <3>4
    <3> QED
      BY <3>2, <3>3, <3>4
  <2>4. ~edgesDue => DrawnWell'
    BY <1>6, <2>1, <2>2 DEF EdgesInv, Settle, DrawnWell
  <2> QED
    BY <1>6, <2>1, <2>3, <2>4 DEF EdgesInv, Settle
<1>7. CASE animTick
  <2>1. CASE HasAnimated(edgeData) /\ visible
    <3>1. mounted /\ ~edgesDue => DrawnWell'
      BY <1>7, <2>1 DEF EdgesInv, animTick, DrawnWell
    <3> QED
      BY <1>7, <2>1, <3>1 DEF EdgesInv, animTick
  <2>2. CASE ~(HasAnimated(edgeData) /\ visible)
    <3>1. ticks = 1 /\ ticks' = 0 /\ rafRef' = FALSE
      BY <1>7, <2>2 DEF EdgesInv, animTick, DropHandle
    <3>2. mounted /\ ~edgesDue /\ visible => DrawnWell'
      BY <1>7, <2>2 DEF EdgesInv, animTick, DrawnWell
    <3> QED
      BY <1>7, <2>2, <3>1, <3>2 DEF EdgesInv, animTick
  <2> QED
    BY <2>1, <2>2
<1>8. CASE ResizeObserved
  <2>1. mounted /\ ~edgesDue /\ visible => DrawnWell'
    BY <1>8 DEF EdgesInv, ResizeObserved, DrawnWell
  <2> QED
    BY <1>8, <2>1 DEF EdgesInv, ResizeObserved
<1>9. CASE UNCHANGED edgeVars
  BY <1>9 DEF edgeVars, EdgesInv, DrawnWell, HasAnimated, animatedEdges, renderFrame
<1> QED
  BY <1>1, <1>2, <1>3, <1>4, <1>5, <1>6, <1>7, <1>8, <1>9 DEF EdgesNext

\* An edge that can be drawn has a straight path, with an end at either side, and an id.
LEMMA StrokesOf ==
  ASSUME NEW edges \in EdgeSets, NEW i \in DOMAIN canvasEdges(edges)
  PROVE  /\ i \in DOMAIN edges /\ i \in Nat
         /\ canvasEdges(edges)[i] = CanvasEdge(edges[i])
         /\ Straight(edges[i].path) /\ Len(edges[i].path) >= 2
         /\ edges[i].id # Undefined
<1>1. i \in DOMAIN edges /\ HasStroke(edges[i]) /\ canvasEdges(edges)[i] = CanvasEdge(edges[i])
  BY DEF canvasEdges
<1>2. edges[i].path # Undefined /\ ~(Len(edges[i].path) < 2)
  BY <1>1 DEF HasStroke, polylineEndpoints
<1>3. Straight(edges[i].path)
  BY <1>1, <1>2, EdgesAssumption
<1>4. Len(edges[i].path) \in Nat
  BY <1>3 DEF Straight
<1> QED
  BY <1>1, <1>2, <1>3, <1>4, EdgesAssumption

LEMMA Larger ==
  ASSUME NEW a \in Int, NEW b \in Int, NEW z \in Nat, a <= b
  PROVE  a * z <= b * z
<1>1. (b - a) * z >= 0
  OBVIOUS
<1> QED
  BY <1>1

\* A box with a point in the view is drawn.
LEMMA SeenIsDrawn ==
  ASSUME NEW t \in Transforms, NEW s \in ViewSizes, NEW box, NEW q \in Point,
         box.minX \in Int, box.maxX \in Int, box.minY \in Int, box.maxY \in Int,
         box.minX <= q.x, q.x <= box.maxX, box.minY <= q.y, q.y <= box.maxY,
         q.x * t.zoom + t.tx \in 0..s.w, q.y * t.zoom + t.ty \in 0..s.h
  PROVE  isVisible(box, viewBounds(t, s), t.zoom)
<1>1. /\ t.tx \in Int /\ t.ty \in Int /\ t.zoom \in Nat /\ s.w \in Nat /\ s.h \in Nat
      /\ q.x \in Int /\ q.y \in Int /\ CULL_PAD \in Nat
  BY EdgesAssumption DEF Point
<1>2. /\ box.minX * t.zoom <= q.x * t.zoom /\ q.x * t.zoom <= box.maxX * t.zoom
      /\ box.minY * t.zoom <= q.y * t.zoom /\ q.y * t.zoom <= box.maxY * t.zoom
  BY <1>1, Larger
<1>3. CULL_PAD * t.zoom \in Nat
  BY <1>1
<1> DEFINE x == q.x * t.zoom
           y == q.y * t.zoom
           x1 == box.minX * t.zoom
           x2 == box.maxX * t.zoom
           y1 == box.minY * t.zoom
           y2 == box.maxY * t.zoom
           pad == CULL_PAD * t.zoom
<1>4. x \in Int /\ y \in Int /\ x1 \in Int /\ x2 \in Int /\ y1 \in Int /\ y2 \in Int
  BY <1>1
<1>5. isVisible(box, viewBounds(t, s), t.zoom)
      <=> /\ x2 >= -t.tx - pad /\ x1 <= s.w - t.tx + pad
          /\ y2 >= -t.ty - pad /\ y1 <= s.h - t.ty + pad
  BY DEF isVisible, viewBounds
<1>6. x + t.tx >= 0 /\ x + t.tx <= s.w /\ y + t.ty >= 0 /\ y + t.ty <= s.h
  BY <1>1
<1>7. x1 <= x /\ x <= x2 /\ y1 <= y /\ y <= y2 /\ pad \in Nat
  BY <1>2, <1>3
<1> HIDE DEF x, y, x1, x2, y1, y2, pad
<1> QED
  BY <1>1, <1>4, <1>5, <1>6, <1>7

\* A click on the start of an edge hits an edge.
LEMMA StartIsHit ==
  ASSUME NEW edges \in EdgeSets, NEW t \in Transforms, NEW i \in DOMAIN canvasEdges(edges)
  PROVE  LET start == edges[i].path[1]
             hit == hitTest(edges, t, [x |-> start.x * t.zoom + t.tx, y |-> start.y * t.zoom + t.ty])
         IN hit # Undefined /\ HasId(edges, hit)
<1> DEFINE lines == canvasEdges(edges)
           start == edges[i].path[1]
           point == [x |-> start.x * t.zoom + t.tx, y |-> start.y * t.zoom + t.ty]
           near(q) == /\ 2 * Abs(q.x * t.zoom + t.tx - point.x) <= CANVAS_EDGE_HIT_WIDTH
                      /\ 2 * Abs(q.y * t.zoom + t.ty - point.y) <= CANVAS_EDGE_HIT_WIDTH
           hits == {k \in DOMAIN lines : \E q \in OnPath(lines[k].path) : near(q)}
<1>1. /\ lines[i] = CanvasEdge(edges[i]) /\ Straight(edges[i].path) /\ Len(edges[i].path) >= 2
  BY StrokesOf
<1>2. start \in OnPath(lines[i].path) /\ start \in Point
  <2> DEFINE path == edges[i].path
  <2>1. path \in Seq(Point) /\ Len(path) \in Nat /\ 1 \in 1..Len(path)
    BY <1>1 DEF Straight
  <2>2. lines[i].path = path
    BY <1>1 DEF CanvasEdge
  <2>3. polylineLength(path) \in Nat
    <3> HIDE DEF path
    <3>1. Len(path) \in 0..Len(path)
      BY <2>1
    <3> QED
      BY <2>1, <3>1, UptoIs DEF polylineLength
  <2>4. polylinePointAt(path, 0) = path[1]
    BY DEF polylinePointAt
  <2>5. 0 \in 0..polylineLength(path)
    <3> HIDE DEF path
    <3> QED
      BY <2>3
  <2>6. start \in Point
    BY <2>1
  <2> QED
    BY <2>2, <2>4, <2>5, <2>6 DEF OnPath
<1>3. near(start)
  <2>1. /\ t.tx \in Int /\ t.ty \in Int /\ t.zoom \in Nat /\ start.x \in Int /\ start.y \in Int
        /\ CANVAS_EDGE_HIT_WIDTH \in Nat
    BY <1>2, EdgesAssumption DEF Point
  <2>2. start.x * t.zoom \in Int /\ start.y * t.zoom \in Int
    BY <2>1
  <2>3. start.x * t.zoom + t.tx - point.x = 0 /\ start.y * t.zoom + t.ty - point.y = 0
    BY <2>1, <2>2
  <2>4. Abs(0) = 0
    BY DEF Abs
  <2> HIDE DEF point, start
  <2> QED
    BY <2>1, <2>3, <2>4
<1> HIDE DEF near, lines
<1>4. i \in hits /\ hits \subseteq Nat
  BY <1>2, <1>3, StrokesOf DEF lines
<1>5. Min(hits) \in hits
  <2> HIDE DEF hits
  <2> QED
    BY <1>4, MinIs
<1>6. hitTest(edges, t, point) = lines[Min(hits)].id
  BY <1>4 DEF hitTest, hits, lines, near
<1> DEFINE k == Min(hits)
<1>7. k \in DOMAIN lines
  BY <1>5
<1> HIDE DEF k, hits
<1>8. lines[k].id = edges[k].id /\ edges[k].id # Undefined /\ k \in DOMAIN edges
  BY <1>7, StrokesOf DEF lines, CanvasEdge
<1> QED
  BY <1>6, <1>8 DEF k, HasId

\* What is seen are the edges given.
LEMMA EdgesTell == EdgesInv => EdgesCurrent
<1> SUFFICES ASSUME EdgesInv PROVE EdgesCurrent
  OBVIOUS
<1> DEFINE onScreen(q, t) == [x |-> q.x * t.zoom + t.tx, y |-> q.y * t.zoom + t.ty]
           within(point) == point.x \in 0..viewSize.w /\ point.y \in 0..viewSize.h
           lines == canvasEdges(wired)
<1>1. ticks <= 1 /\ (~mounted => ~settleTimer /\ ticks = 0)
      /\ (mounted /\ ~edgesDue /\ ~visible => settleTimer)
  BY DEF EdgesInv
<1>2. ASSUME mounted, ~edgesDue, visible
      PROVE  /\ ToSet(picture.lines) \subseteq ToSet(lines)
             /\ HasAnimated(wired) => ticks = 1
             /\ \A line \in ToSet(lines) : \A q \in OnPath(line.path) :
                  within(onScreen(q, transform)) /\ ~resizeDue => line \in ToSet(picture.lines)
             /\ \A line \in ToSet(picture.lines) :
                  canvasEdgeHit(onScreen(line.path[1], picture.at)) # Undefined
  <2>1. /\ wired \in EdgeSets /\ edgeData = wired /\ transform \in Transforms
        /\ HasAnimated(wired) => ticks = 1
    BY <1>2 DEF EdgesInv, DrawnWell
  <2>2. PICK s \in ViewSizes :
          picture = renderFrame(transform, s, wired) /\ (~resizeDue => s = viewSize)
    BY <1>2 DEF EdgesInv, DrawnWell
  <2> DEFINE bounds == viewBounds(transform, s)
  <2>3. /\ picture.at = transform
        /\ picture.lines = InView(lines, bounds, transform.zoom)
    BY <2>2 DEF renderFrame
  <2> HIDE DEF lines
  <2>4. DOMAIN picture.lines = {j \in DOMAIN lines : isVisible(lines[j].bbox, bounds, transform.zoom)}
        /\ \A j \in DOMAIN picture.lines : picture.lines[j] = lines[j]
    BY <2>3 DEF InView
  <2>5. ToSet(picture.lines) \subseteq ToSet(lines)
    BY <2>4 DEF ToSet
  <2>6. ASSUME NEW line \in ToSet(lines), NEW q \in OnPath(line.path),
               within(onScreen(q, transform)), ~resizeDue
        PROVE  line \in ToSet(picture.lines)
    <3>1. PICK i \in DOMAIN lines : line = lines[i]
      BY DEF ToSet
    <3> DEFINE path == wired[i].path
    <3>2. line = CanvasEdge(wired[i]) /\ Straight(path) /\ Len(path) >= 2
      BY <2>1, <3>1, StrokesOf DEF lines
    <3>3. line.path = path /\ line.bbox = polylineBBox(path)
      BY <3>2 DEF CanvasEdge
    <3>4. PICK d \in 0..polylineLength(path) : q = polylinePointAt(path, d)
      BY <3>3 DEF OnPath
    <3>5. path \in Seq(Point) /\ Len(path) # 0
      BY <3>2 DEF Straight
    <3> HIDE DEF path
    <3>6. LET box == polylineBBox(path)
          IN /\ q \in Point
             /\ box.minX <= q.x /\ q.x <= box.maxX
             /\ box.minY <= q.y /\ q.y <= box.maxY
             /\ box.minX \in Int /\ box.maxX \in Int /\ box.minY \in Int /\ box.maxY \in Int
      BY <3>2, <3>4, <3>5, PointInBox, BoxAround
    <3>7. s = viewSize
      BY <2>2, <2>6
    <3>8. q.x * transform.zoom + transform.tx \in 0..s.w /\ q.y * transform.zoom + transform.ty \in 0..s.h
      BY <2>6, <3>7
    <3>9. isVisible(line.bbox, bounds, transform.zoom)
      BY <2>1, <3>3, <3>6, <3>8, SeenIsDrawn
    <3> QED
      BY <2>4, <3>1, <3>9 DEF ToSet
  <2>7. ASSUME NEW line \in ToSet(picture.lines)
        PROVE  canvasEdgeHit(onScreen(line.path[1], picture.at)) # Undefined
    <3>1. PICK i \in DOMAIN lines : line = lines[i]
      BY <2>5 DEF ToSet
    <3>2. line.path = wired[i].path
      BY <2>1, <3>1, StrokesOf DEF lines, CanvasEdge
    <3> DEFINE point == onScreen(wired[i].path[1], transform)
    <3>3. hitTest(wired, transform, point) # Undefined /\ HasId(wired, hitTest(wired, transform, point))
      BY <2>1, <3>1, StartIsHit DEF lines
    <3>4. onScreen(line.path[1], picture.at) = point
      BY <2>3, <3>2
    <3> HIDE DEF point
    <3> QED
      BY <1>2, <2>1, <3>3, <3>4 DEF canvasEdgeHit
  <2> QED
    BY <2>1, <2>5, <2>6, <2>7
<1> QED
  BY <1>1, <1>2 DEF EdgesCurrent

\* What a large graph's canvas shows are its edges where the viewport has them, each to be
\* clicked where it is seen, one loop runs while something moves, and what is hidden will be
\* drawn (CanvasEdgeLayer.tsx:145-147).
THEOREM EdgesStayCurrent == EdgesSpec => []EdgesCurrent
BY EdgesStart, EdgesStep, EdgesTell, PTL DEF EdgesSpec

-----------------------------------------------------------------------------
(* The scroll box of a log.                                                *)

\* What the box can be given, and a row that is held where it is.
PaneProps == [from : Nat, to : Int, hasMore : BOOLEAN, loadingMore : BOOLEAN,
              hasNewer : BOOLEAN, loadingNewer : BOOLEAN]
Held == [row : Nat, offset : Int]

LEMMA LargerOfTwo ==
  ASSUME NEW a \in Int, NEW b \in Int
  PROVE  Max({a, b}) = IF a >= b THEN a ELSE b
<1> DEFINE m == IF a >= b THEN a ELSE b
<1>1. m \in {a, b} /\ \A y \in {a, b} : m >= y
  OBVIOUS
<1>2. ASSUME NEW x \in {a, b}, \A y \in {a, b} : x >= y
      PROVE  x = m
  BY <1>2
<1> HIDE DEF m
<1>3. Max({a, b}) \in {a, b} /\ \A y \in {a, b} : Max({a, b}) >= y
  BY <1>1 DEF Max
<1> QED
  BY <1>2, <1>3 DEF m

LEMMA SmallerOfTwo ==
  ASSUME NEW a \in Int, NEW b \in Int
  PROVE  Min({a, b}) = IF a <= b THEN a ELSE b
<1> DEFINE m == IF a <= b THEN a ELSE b
<1>1. m \in {a, b} /\ \A y \in {a, b} : m <= y
  OBVIOUS
<1>2. ASSUME NEW x \in {a, b}, \A y \in {a, b} : x <= y
      PROVE  x = m
  BY <1>2
<1> HIDE DEF m
<1>3. Min({a, b}) \in {a, b} /\ \A y \in {a, b} : Min({a, b}) <= y
  BY <1>1 DEF Min
<1> QED
  BY <1>2, <1>3 DEF m

\* How high the box's rows are, how far it scrolls, and where a row is.
LEMMA Geometry ==
  ASSUME NEW p \in PaneProps
  PROVE  /\ BannerAbove(p) \in Nat /\ BannerBelow(p) \in Nat /\ scrollHeight(p) \in Nat
         /\ MaxTop(p) = IF scrollHeight(p) > BOX THEN scrollHeight(p) - BOX ELSE 0
         /\ MaxTop(p) \in Nat
         /\ \A t \in Int : Clamped(p, t) = IF t < 0 THEN 0 ELSE IF t > MaxTop(p) THEN MaxTop(p) ELSE t
         /\ \A r \in Int : /\ ROW * r \in Int /\ offsetTop(p, r) \in Int
                           /\ offsetTop(p, r) = BannerAbove(p) + ROW * r - ROW * p.from
         /\ ROW * p.from \in Int
<1> USE PaneAssumption
<1>1. BannerAbove(p) \in Nat /\ BannerBelow(p) \in Nat
  BY DEF BannerAbove, BannerBelow
<1>2. scrollHeight(p) \in Nat
  <2>1. p.from \in Int /\ p.to \in Int
    BY DEF PaneProps
  <2>2. Cardinality(RowsOf(p)) \in Nat
    BY <2>1, FS_Interval, FS_CardinalityType DEF RowsOf
  <2>3. ROW * Cardinality(RowsOf(p)) \in Nat
    BY <2>2
  <2> QED
    BY <1>1, <2>3 DEF scrollHeight
<1> DEFINE h == scrollHeight(p)
<1>3. MaxTop(p) = (IF h > BOX THEN h - BOX ELSE 0) /\ MaxTop(p) \in Nat
  <2> HIDE DEF h
  <2>1. h - BOX \in Int /\ 0 \in Int
    BY <1>2 DEF h
  <2>2. MaxTop(p) = Max({0, h - BOX})
    BY DEF MaxTop, h
  <2>3. MaxTop(p) = IF 0 >= h - BOX THEN 0 ELSE h - BOX
    BY <2>1, <2>2, LargerOfTwo
  <2> QED
    BY <1>2, <2>1, <2>3 DEF h
<1> DEFINE m == MaxTop(p)
<1>4. ASSUME NEW t \in Int
      PROVE  Clamped(p, t) = IF t < 0 THEN 0 ELSE IF t > m THEN m ELSE t
  <2>1. m \in Nat
    BY <1>3
  <2> DEFINE s == Min({t, m})
  <2>2. Clamped(p, t) = Max({0, s})
    BY DEF Clamped
  <2> HIDE DEF m
  <2>3. s = IF t <= m THEN t ELSE m
    BY <2>1, SmallerOfTwo
  <2> HIDE DEF s
  <2>4. s \in Int
    BY <2>1, <2>3
  <2>5. Max({0, s}) = IF 0 >= s THEN 0 ELSE s
    BY <2>4, LargerOfTwo
  <2> QED
    BY <2>1, <2>2, <2>3, <2>5
<1>5. p.from \in Int
  BY DEF PaneProps
<1>6. ASSUME NEW r \in Int
      PROVE  /\ ROW * r \in Int /\ offsetTop(p, r) \in Int
             /\ offsetTop(p, r) = BannerAbove(p) + ROW * r - ROW * p.from
  <2>1. ROW \in Int /\ BannerAbove(p) \in Int
    BY <1>1
  <2>2. ROW * (r - p.from) = ROW * r - ROW * p.from
    BY <1>5, <2>1
  <2>3. ROW * r \in Int /\ ROW * p.from \in Int
    BY <1>5, <2>1
  <2> QED
    BY <2>1, <2>2, <2>3 DEF offsetTop
<1> QED
  BY <1>1, <1>2, <1>3, <1>4, <1>5, <1>6

\* Banners move all rows alike.
LEMMA SameRows ==
  ASSUME NEW p \in PaneProps, NEW q \in PaneProps, q.from = p.from, q.to = p.to, q.hasNewer = p.hasNewer
  PROVE  /\ RowsOf(q) = RowsOf(p)
         /\ scrollHeight(q) - scrollHeight(p) = BannerAbove(q) - BannerAbove(p)
         /\ \A r \in Int : offsetTop(q, r) - offsetTop(p, r) = BannerAbove(q) - BannerAbove(p)
<1>1. RowsOf(q) = RowsOf(p) /\ BannerBelow(q) = BannerBelow(p)
  BY DEF RowsOf, BannerBelow
<1>2. ROW * Cardinality(RowsOf(p)) \in Int
  <2>1. p.from \in Int /\ p.to \in Int
    BY DEF PaneProps
  <2>2. Cardinality(RowsOf(p)) \in Nat
    BY <2>1, FS_Interval, FS_CardinalityType DEF RowsOf
  <2> QED
    BY <2>2, PaneAssumption
<1>3. scrollHeight(q) - scrollHeight(p) = BannerAbove(q) - BannerAbove(p)
  BY <1>1, <1>2, Geometry DEF scrollHeight
<1>4. ASSUME NEW r \in Int
      PROVE  offsetTop(q, r) - offsetTop(p, r) = BannerAbove(q) - BannerAbove(p)
  <2> DEFINE x == ROW * (r - p.from)
  <2>1. offsetTop(q, r) = BannerAbove(q) + x /\ offsetTop(p, r) = BannerAbove(p) + x
    BY DEF offsetTop
  <2>2. x \in Int
    BY PaneAssumption DEF PaneProps
  <2> HIDE DEF x
  <2> QED
    BY <2>1, <2>2, Geometry
<1> QED
  BY <1>1, <1>3, <1>4

\* What is captured is the first row that is seen.
LEMMA Captured ==
  ASSUME NEW p \in PaneProps, NEW t \in Int
  PROVE  LET c == captureAnchor(p, t)
             Seen(r) == r \in RowsOf(p) /\ offsetTop(p, r) + ROW > t
         IN \/ c = NoRow /\ \A r \in RowsOf(p) : ~Seen(r)
            \/ /\ c \in Held /\ c # NoRow /\ Seen(c.row) /\ c.offset = offsetTop(p, c.row) - t
               /\ \A r \in RowsOf(p) : Seen(r) => c.row <= r
<1> DEFINE rowsSeen == {row \in RowsOf(p) : offsetTop(p, row) + ROW > t}
           least == Min(rowsSeen)
           c == captureAnchor(p, t)
<1>1. RowsOf(p) \subseteq Nat
  BY DEF RowsOf, PaneProps
<1>2. CASE rowsSeen = {}
  BY <1>2 DEF firstVisibleRow, captureAnchor
<1>3. CASE rowsSeen # {}
  <2>1. least \in rowsSeen /\ \A r \in rowsSeen : least <= r
    <3>1. rowsSeen \in SUBSET Nat
      BY <1>1
    <3> HIDE DEF rowsSeen
    <3> QED
      BY <1>3, <3>1, MinIs
  <2>2. firstVisibleRow(p, t) = least
    BY <1>3 DEF firstVisibleRow
  <2> HIDE DEF least
  <2>3. least \in Nat /\ least # NoRow
    BY <1>1, <2>1, PaneAssumption
  <2>4. c = [row |-> least, offset |-> offsetTop(p, least) - t]
    BY <2>2, <2>3 DEF captureAnchor
  <2>5. offsetTop(p, least) - t \in Int
    BY <2>3, Geometry
  <2>6. c \in Held
    BY <2>3, <2>4, <2>5 DEF Held
  <2>7. c # NoRow
    <3>1. c \in [row : Int, offset : Int]
      BY <2>6 DEF Held
    <3> QED
      BY <3>1, PaneAssumption
  <2> QED
    BY <2>1, <2>4, <2>6, <2>7
<1> QED
  BY <1>2, <1>3

-----------------------------------------------------------------------------
(* The invariant of the box.                                               *)

\* Where a held row puts the first row, but for the banner above: the same for all rows
\* held at one place.
Spot(held) == ROW * held.row - held.offset

PaneTypeOK ==
  /\ props \in PaneProps /\ newest \in Nat
  /\ scrollTop \in 0..MaxTop(props) /\ lastTop \in Nat
  /\ scrollDue \in BOOLEAN /\ autoScroll \in BOOLEAN /\ matchDue \in BOOLEAN
  /\ shifted \in BOOLEAN /\ wentUp \in BOOLEAN /\ jumped \in BOOLEAN
  /\ anchor \in {NoRow} \union Held /\ seen \in {NoRow} \union Held

\* A buffer is detached from the newest lines only when it is full.
BufferHolds ==
  /\ props.to <= newest
  /\ props.loadingNewer => props.hasNewer
  /\ props.hasNewer => Cardinality(RowsOf(props)) = PaneBuffer /\ props.to < newest

\* The place the box last remembers is the end, while it follows and no banner moved it;
\* it is scrolled to above that place by the reader and by the search only.
FollowHolds ==
  /\ autoScroll \/ wentUp \/ jumped
  /\ autoScroll /\ scrollTop < lastTop => wentUp \/ jumped \/ atBottom
  /\ autoScroll /\ ~shifted =>
       scrollHeight(props) - lastTop - BOX < BOTTOM_SLACK_PX /\ (scrollDue \/ atBottom)

\* The row that is anchored holds the row that was seen where it is.
SeenHolds ==
  seen # NoRow =>
    /\ ~autoScroll /\ anchor # NoRow /\ Spot(anchor) = Spot(seen)
    /\ -ROW < seen.offset
    /\ seen.row \in RowsOf(props) /\ anchor.row \in RowsOf(props) /\ anchor.row <= seen.row
    /\ props.loadingNewer /\ anchor.row # seen.row => seen.row <= newest - 2
    /\ ~shifted => offsetTop(props, seen.row) - scrollTop = seen.offset

PaneInv == PaneTypeOK /\ BufferHolds /\ FollowHolds /\ SeenHolds

\* What is captured at the place of a row that is held is held with it.
LEMMA KeepsPlace ==
  ASSUME NEW p \in PaneProps, NEW t \in Int, NEW s \in Held,
         s.row \in RowsOf(p), offsetTop(p, s.row) - t = s.offset, -ROW < s.offset
  PROVE  LET c == captureAnchor(p, t)
         IN /\ c \in Held /\ c # NoRow /\ c.row \in RowsOf(p) /\ c.row <= s.row
            /\ Spot(c) = Spot(s) /\ -ROW < c.offset
<1> DEFINE c == captureAnchor(p, t)
<1>1. /\ s.row \in Int /\ s.offset \in Int
      /\ offsetTop(p, s.row) \in Int /\ ROW * s.row \in Int /\ ROW \in Int
      /\ offsetTop(p, s.row) = BannerAbove(p) + ROW * s.row - ROW * p.from
      /\ BannerAbove(p) \in Int /\ ROW * p.from \in Int
  BY Geometry, PaneAssumption DEF Held
<1>2. offsetTop(p, s.row) + ROW > t
  BY <1>1
<1>3. /\ c \in Held /\ c # NoRow /\ c.row \in RowsOf(p) /\ offsetTop(p, c.row) + ROW > t
      /\ c.offset = offsetTop(p, c.row) - t /\ c.row <= s.row
  <2> HIDE DEF c
  <2> QED
    BY <1>2, Captured DEF c
<1> HIDE DEF c
<1>4. /\ c.row \in Int /\ offsetTop(p, c.row) \in Int /\ ROW * c.row \in Int
      /\ offsetTop(p, c.row) = BannerAbove(p) + ROW * c.row - ROW * p.from
  <2>1. c.row \in Int
    BY <1>3 DEF Held
  <2> QED
    BY <2>1, Geometry
<1>5. Spot(c) = Spot(s)
  BY <1>1, <1>3, <1>4 DEF Spot
<1> QED
  BY <1>1, <1>3, <1>4, <1>5 DEF c

\* Wherever the rows are placed, the box can be scrolled there.
LEMMA PlacedInside ==
  ASSUME NEW p \in PaneProps, NEW top \in Int, NEW on \in BOOLEAN,
         NEW held \in {NoRow} \union Held
  PROVE  /\ PlacedTop(p, top, on, held) \in 0..MaxTop(p)
         /\ captureAnchor(p, PlacedTop(p, top, on, held)) \in {NoRow} \union Held
         /\ scrollHeight(p) - MaxTop(p) - BOX < BOTTOM_SLACK_PX
<1> DEFINE m == MaxTop(p)
<1>1. m \in Nat /\ scrollHeight(p) - m - BOX < BOTTOM_SLACK_PX
  BY Geometry, PaneAssumption
<1>2. ASSUME NEW t \in Int PROVE Clamped(p, t) \in 0..m
  BY <1>1, Geometry
<1>3. ASSUME held \in Held PROVE offsetTop(p, held.row) - held.offset \in Int
  <2>1. held.row \in Int /\ held.offset \in Int
    BY <1>3 DEF Held
  <2> QED
    BY <2>1, Geometry
<1>4. PlacedTop(p, top, on, held) \in 0..m
  <2>1. CASE on
    BY <1>1, <2>1 DEF PlacedTop
  <2>2. CASE ~on
    BY <1>2, <1>3, <2>2 DEF PlacedTop
  <2> QED
    BY <2>1, <2>2
<1>5. PlacedTop(p, top, on, held) \in Int
  BY <1>1, <1>4
<1>6. captureAnchor(p, PlacedTop(p, top, on, held)) \in {NoRow} \union Held
  BY <1>5, Captured
<1> QED
  BY <1>1, <1>4, <1>6

\* Lines are given to a box that follows: it is at their end.
LEMMA LinesFollow ==
  ASSUME PaneInv, autoScroll, NEW p \in PaneProps, LinesGiven(p), newest' \in Nat, BufferHolds'
  PROVE  PaneInv'
<1> DEFINE top == MaxTop(p)
<1>1. /\ props' = p /\ scrollTop' = top /\ lastTop' = top /\ shifted' = FALSE
      /\ anchor' = anchor /\ seen' = NoRow /\ autoScroll' = TRUE /\ wentUp' = wentUp
      /\ jumped' = jumped /\ matchDue' \in BOOLEAN
      /\ scrollDue' = (scrollDue \/ scrollTop' # scrollTop)
  BY DEF LinesGiven, Rendered, followVars, LayoutEffect, PlacedTop, PaneInv, PaneTypeOK
<1>2. top \in Nat /\ top \in 0..MaxTop(p) /\ scrollHeight(p) - top - BOX < BOTTOM_SLACK_PX
  BY Geometry, PaneAssumption
<1> HIDE DEF top
<1>3. scrollDue' \in BOOLEAN
  BY <1>1
<1>4. PaneTypeOK'
  BY <1>1, <1>2, <1>3 DEF PaneInv, PaneTypeOK
<1>5. FollowHolds'
  <2>1. autoScroll' /\ ~(scrollTop' < lastTop')
    BY <1>1, <1>2
  <2>2. scrollHeight(props)' - lastTop' - BOX < BOTTOM_SLACK_PX /\ atBottom'
    BY <1>1, <1>2 DEF atBottom
  <2> QED
    BY <2>1, <2>2 DEF FollowHolds
<1>6. SeenHolds'
  BY <1>1 DEF SeenHolds
<1> QED
  BY <1>4, <1>5, <1>6 DEF PaneInv

\* Lines are given to one that is scrolled up: if the anchored row stays, so does what was
\* seen.
LEMMA LinesKeep ==
  ASSUME PaneInv, ~autoScroll, NEW p \in PaneProps, LinesGiven(p), newest' \in Nat, BufferHolds',
         seen # NoRow /\ seen.row \in RowsOf(p) => anchor.row \in RowsOf(p),
         p.loadingNewer => p.to <= newest' - 2
  PROVE  PaneInv'
<1> DEFINE top == PlacedTop(p, scrollTop, FALSE, anchor)
           c == captureAnchor(p, top)
<1>1. /\ props' = p /\ scrollTop' = top /\ lastTop' = top /\ shifted' = FALSE
      /\ anchor' = c /\ autoScroll' = FALSE /\ wentUp' = wentUp
      /\ jumped' = jumped /\ matchDue' \in BOOLEAN
      /\ scrollDue' = (scrollDue \/ scrollTop' # scrollTop)
      /\ \/ seen' = NoRow
         \/ seen' = StillSeen(seen, p, top)
  BY DEF LinesGiven, Rendered, followVars, LayoutEffect, PaneInv, PaneTypeOK
<1>2. /\ top \in 0..MaxTop(p) /\ MaxTop(p) \in Nat /\ scrollTop \in Int
      /\ c \in {NoRow} \union Held
  <2>1. scrollTop \in Int /\ anchor \in {NoRow} \union Held
    BY Geometry DEF PaneInv, PaneTypeOK
  <2> QED
    BY <2>1, Geometry, PlacedInside
<1>3. top \in Int /\ top \in Nat
  <2> HIDE DEF top, c
  <2> QED
    BY <1>2
<1>4. CASE seen' = NoRow
  <2>1. PaneTypeOK'
    <3>1. scrollDue' \in BOOLEAN
      BY <1>1
    <3> HIDE DEF top, c
    <3> QED
      BY <1>1, <1>2, <1>3, <1>4, <3>1 DEF PaneInv, PaneTypeOK
  <2>2. FollowHolds'
    <3> HIDE DEF top, c
    <3> QED
      BY <1>1 DEF PaneInv, FollowHolds
  <2>3. SeenHolds'
    BY <1>4 DEF SeenHolds
  <2> QED
    BY <2>1, <2>2, <2>3 DEF PaneInv
<1>5. ASSUME NEW s \in Held, s # NoRow, seen' = s, c # NoRow,
             s.row \in RowsOf(p), offsetTop(p, s.row) - top = s.offset, -ROW < s.offset
      PROVE  PaneInv'
  <2>1. /\ c \in Held /\ c.row \in RowsOf(p) /\ c.row <= s.row
        /\ Spot(c) = Spot(s)
    <3> HIDE DEF top
    <3> QED
      BY <1>3, <1>5, KeepsPlace
  <2> HIDE DEF top, c
  <2>2. PaneTypeOK'
    <3>1. scrollDue' \in BOOLEAN
      BY <1>1
    <3> QED
      BY <1>1, <1>2, <1>3, <1>5, <3>1 DEF PaneInv, PaneTypeOK
  <2>3. FollowHolds'
    BY <1>1 DEF PaneInv, FollowHolds
  <2>4. p.loadingNewer => s.row <= newest' - 2
    <3>1. p.from \in Int /\ p.to \in Int /\ newest' \in Int
      BY DEF PaneProps
    <3> QED
      BY <1>5, <3>1 DEF RowsOf
  <2>5. SeenHolds'
    BY <1>1, <1>5, <2>1, <2>4 DEF SeenHolds
  <2> QED
    BY <2>2, <2>3, <2>5 DEF PaneInv
<1>6. CASE seen' = c /\ c # NoRow
  <2>1. c \in Held
    BY <1>2, <1>6
  <2>2. /\ c.row \in RowsOf(p) /\ offsetTop(p, c.row) + ROW > top
        /\ c.offset = offsetTop(p, c.row) - top
    <3> HIDE DEF top
    <3> QED
      BY <1>3, <1>6, Captured
  <2>3. offsetTop(p, c.row) \in Int /\ ROW \in Int
    <3> HIDE DEF c
    <3>1. c.row \in Int
      BY <2>1 DEF Held
    <3> QED
      BY <3>1, Geometry, PaneAssumption
  <2>4. offsetTop(p, c.row) - top = c.offset /\ -ROW < c.offset
    <3> HIDE DEF top, c
    <3> QED
      BY <1>3, <2>2, <2>3
  <2> HIDE DEF top, c
  <2> QED
    BY <1>5, <1>6, <2>1, <2>2, <2>4
<1>7. CASE seen' = seen /\ seen # NoRow /\ seen.row \in RowsOf(p)
           /\ offsetTop(p, seen.row) - seen.offset \in 0..MaxTop(p)
  <2>1. /\ seen \in Held /\ anchor \in Held /\ anchor # NoRow /\ Spot(anchor) = Spot(seen)
        /\ -ROW < seen.offset /\ anchor.row \in RowsOf(p)
    BY <1>7 DEF PaneInv, PaneTypeOK, SeenHolds
  <2> DEFINE t == offsetTop(p, seen.row) - seen.offset
  <2>2. /\ seen.row \in Int /\ seen.offset \in Int /\ anchor.row \in Int /\ anchor.offset \in Int
    BY <2>1 DEF Held
  <2>3. offsetTop(p, anchor.row) - anchor.offset = t
    <3>1. /\ offsetTop(p, seen.row) \in Int /\ ROW * seen.row \in Int
          /\ offsetTop(p, seen.row) = BannerAbove(p) + ROW * seen.row - ROW * p.from
          /\ offsetTop(p, anchor.row) \in Int /\ ROW * anchor.row \in Int
          /\ offsetTop(p, anchor.row) = BannerAbove(p) + ROW * anchor.row - ROW * p.from
          /\ BannerAbove(p) \in Int /\ ROW * p.from \in Int
      BY <2>2, Geometry
    <3> QED
      BY <2>1, <2>2, <3>1 DEF Spot
  <2>4. t \in 0..MaxTop(p) /\ t \in Int
    BY <1>7, <1>2
  <2>5. top = t
    <3>1. top = Clamped(p, t)
      BY <2>1, <2>3 DEF PlacedTop
    <3> HIDE DEF t, top
    <3> QED
      BY <1>2, <2>4, <3>1, Geometry
  <2>6. offsetTop(p, seen.row) - top = seen.offset
    <3>1. offsetTop(p, seen.row) \in Int
      BY <2>2, Geometry
    <3> HIDE DEF top
    <3> QED
      BY <2>2, <2>5, <3>1
  <2>7. c # NoRow
    <3> HIDE DEF top
    <3> QED
      BY <1>3, <1>7, <2>1, <2>6, KeepsPlace
  <2> HIDE DEF t, top, c
  <2> QED
    BY <1>5, <1>7, <2>1, <2>6, <2>7
<1> QED
  <2>1. \/ StillSeen(seen, p, top) = c
        \/ /\ StillSeen(seen, p, top) = seen /\ seen # NoRow /\ seen.row \in RowsOf(p)
           /\ offsetTop(p, seen.row) - seen.offset \in 0..MaxTop(p)
    BY DEF StillSeen
  <2> HIDE DEF top, c
  <2> QED
    BY <1>1, <1>4, <1>6, <1>7, <2>1

\* The fields of what the box is given, and how many rows that is.
LEMMA GivenFields ==
  ASSUME PaneInv
  PROVE  /\ props.from \in Nat /\ props.to \in Int /\ newest \in Nat
         /\ props.hasMore \in BOOLEAN /\ props.loadingMore \in BOOLEAN
         /\ props.hasNewer \in BOOLEAN /\ props.loadingNewer \in BOOLEAN
         /\ Cardinality(RowsOf(props)) = IF props.from > props.to THEN 0 ELSE props.to - props.from + 1
<1>1. /\ props.from \in Nat /\ props.to \in Int /\ newest \in Nat
      /\ props.hasMore \in BOOLEAN /\ props.loadingMore \in BOOLEAN
      /\ props.hasNewer \in BOOLEAN /\ props.loadingNewer \in BOOLEAN
  BY DEF PaneInv, PaneTypeOK, PaneProps
<1>2. Cardinality(RowsOf(props)) = IF props.from > props.to THEN 0 ELSE props.to - props.from + 1
  BY <1>1, FS_Interval DEF RowsOf
<1> QED
  BY <1>1, <1>2

LEMMA LatestKeeps ==
  ASSUME PaneInv, LatestPage
  PROVE  PaneInv'
<1> DEFINE low == Max({1, newest - 1})
           p == [props EXCEPT !.from = low, !.to = newest, !.hasMore = TRUE,
                              !.hasNewer = FALSE, !.loadingNewer = FALSE]
<1>1. LinesGiven(p) /\ newest' = newest /\ (RowsOf(props) = {} \/ props.loadingNewer)
  BY DEF LatestPage
<1>2. newest \in Nat
  BY GivenFields
<1>3. low \in Nat /\ low >= newest - 1
  <2>1. 1 \in Int /\ newest - 1 \in Int
    BY <1>2
  <2>2. low = IF 1 >= newest - 1 THEN 1 ELSE newest - 1
    BY <2>1, LargerOfTwo
  <2> HIDE DEF low
  <2> QED
    BY <1>2, <2>2
<1> HIDE DEF low
<1>4. /\ p \in PaneProps /\ p.from = low /\ p.to = newest /\ p.hasNewer = FALSE
      /\ p.loadingNewer = FALSE
  <2>1. props \in PaneProps
    BY DEF PaneInv, PaneTypeOK
  <2>2. newest \in Int /\ low \in Nat
    BY <1>2, <1>3
  <2>3. p \in PaneProps
    BY <2>1, <2>2 DEF PaneProps
  <2> QED
    BY <2>1, <2>3 DEF PaneProps
<1> HIDE DEF p
<1>5. props' = p
  BY <1>1 DEF LinesGiven
<1>6. BufferHolds' /\ newest' \in Nat
  BY <1>1, <1>2, <1>4, <1>5 DEF BufferHolds
<1>7. ASSUME seen # NoRow, seen.row \in RowsOf(p), ~autoScroll
      PROVE  anchor.row \in RowsOf(p)
  <2>1. /\ seen.row \in RowsOf(props) /\ seen.row \in Int
        /\ props.loadingNewer /\ anchor.row # seen.row => seen.row <= newest - 2
    <3>1. seen \in Held
      BY <1>7 DEF PaneInv, PaneTypeOK
    <3> QED
      BY <1>7, <3>1 DEF PaneInv, SeenHolds, Held
  <2>2. props.loadingNewer
    BY <1>1, <2>1
  <2>3. seen.row >= newest - 1
    BY <1>2, <1>3, <1>4, <1>7, <2>1 DEF RowsOf
  <2>4. anchor.row = seen.row
    BY <1>2, <2>1, <2>2, <2>3
  <2> QED
    BY <1>7, <2>4
<1>8. CASE autoScroll
  BY <1>1, <1>4, <1>6, <1>8, LinesFollow
<1>9. CASE ~autoScroll
  BY <1>1, <1>4, <1>6, <1>7, <1>9, LinesKeep
<1> QED
  BY <1>8, <1>9

LEMMA OlderKeeps ==
  ASSUME PaneInv, OlderLine
  PROVE  PaneInv'
<1> DEFINE full == Cardinality(RowsOf(props)) = PaneBuffer
           p == [props EXCEPT !.from = @ - 1, !.to = IF full THEN @ - 1 ELSE @, !.loadingMore = FALSE,
                              !.hasMore = TRUE, !.hasNewer = @ \/ full]
<1>1. LinesGiven(p) /\ newest' = newest /\ props.from > 1
  BY DEF OlderLine
<1>2. /\ props.from \in Nat /\ props.to \in Int /\ newest \in Nat
      /\ props.hasNewer \in BOOLEAN /\ props.loadingNewer \in BOOLEAN
      /\ Cardinality(RowsOf(props)) = IF props.from > props.to THEN 0 ELSE props.to - props.from + 1
  BY GivenFields
<1>3. full \in BOOLEAN
  OBVIOUS
<1>4. /\ p \in PaneProps /\ p.from = props.from - 1
      /\ p.to = IF full THEN props.to - 1 ELSE props.to
      /\ p.hasNewer = (props.hasNewer \/ full)
      /\ p.loadingNewer = props.loadingNewer
  <2> HIDE DEF full
  <2>1. props \in PaneProps
    BY DEF PaneInv, PaneTypeOK
  <2>2. (props.hasNewer \/ full) \in BOOLEAN
    OBVIOUS
  <2>3. (IF full THEN props.to - 1 ELSE props.to) \in Int /\ props.from - 1 \in Nat
    BY <1>1, <1>2
  <2> QED
    BY <2>1, <2>2, <2>3 DEF PaneProps
<1> HIDE DEF p
<1>5. props' = p
  BY <1>1 DEF LinesGiven
<1>6. /\ props.to <= newest /\ (props.loadingNewer => props.hasNewer)
      /\ props.hasNewer => full /\ props.to < newest
  BY DEF PaneInv, BufferHolds
<1>7. BufferHolds' /\ newest' \in Nat
  <2>1. Cardinality(RowsOf(p)) = IF p.from > p.to THEN 0 ELSE p.to - p.from + 1
    <3>1. p.from \in Int /\ p.to \in Int
      BY <1>4 DEF PaneProps
    <3> QED
      BY <3>1, FS_Interval DEF RowsOf
  <2>2. full => Cardinality(RowsOf(p)) = PaneBuffer
    BY <1>1, <1>2, <1>4, <2>1
  <2> HIDE DEF full
  <2> QED
    BY <1>1, <1>2, <1>4, <1>5, <1>6, <2>2 DEF BufferHolds
<1>8. ASSUME seen # NoRow, seen.row \in RowsOf(p), ~autoScroll
      PROVE  anchor.row \in RowsOf(p)
  <2>1. /\ anchor.row \in RowsOf(props) /\ seen.row \in Int /\ anchor.row \in Int
        /\ anchor.row <= seen.row
    <3>1. seen \in Held /\ anchor \in Held
      BY <1>8 DEF PaneInv, PaneTypeOK, SeenHolds
    <3> QED
      BY <1>8, <3>1 DEF PaneInv, SeenHolds, Held
  <2> HIDE DEF full
  <2> QED
    BY <1>2, <1>4, <1>8, <2>1 DEF RowsOf
<1>9. p.loadingNewer => p.to <= newest' - 2
  <2> HIDE DEF full
  <2> QED
    BY <1>1, <1>2, <1>4, <1>6
<1>10. CASE autoScroll
  BY <1>1, <1>4, <1>7, <1>10, LinesFollow
<1>11. CASE ~autoScroll
  BY <1>1, <1>4, <1>7, <1>8, <1>9, <1>11, LinesKeep
<1> QED
  BY <1>10, <1>11

LEMMA WrittenKeeps ==
  ASSUME PaneInv, LineWritten
  PROVE  PaneInv'
<1> DEFINE full == Cardinality(RowsOf(props)) = PaneBuffer
           longer == [props EXCEPT !.to = newest', !.from = IF full THEN @ + 1 ELSE @]
           p == [props EXCEPT !.hasNewer = TRUE]
<1>1. /\ props.from \in Nat /\ props.to \in Int /\ newest \in Nat
      /\ props.hasNewer \in BOOLEAN /\ props.loadingNewer \in BOOLEAN
      /\ props.hasMore \in BOOLEAN /\ props.loadingMore \in BOOLEAN
      /\ props \in PaneProps
  BY GivenFields DEF PaneInv, PaneTypeOK
<1>2. newest' = newest + 1 /\ newest' \in Nat
  BY <1>1 DEF LineWritten
<1>3. /\ props.to <= newest /\ (props.loadingNewer => props.hasNewer)
      /\ props.hasNewer => full /\ props.to < newest
  BY DEF PaneInv, BufferHolds
<1>4. CASE (RowsOf(props) = {} \/ props.hasNewer)
           /\ UNCHANGED <<props, scrollTop, scrollDue, lastTop, anchor, matchDue, seen, shifted, followVars>>
  <2>1. PaneTypeOK' /\ FollowHolds'
    BY <1>2, <1>4 DEF PaneInv, PaneTypeOK, FollowHolds, followVars, atBottom
  <2>2. BufferHolds'
    BY <1>1, <1>2, <1>3, <1>4 DEF PaneInv, BufferHolds
  <2>3. SeenHolds'
    <3>1. CASE seen = NoRow
      BY <1>4, <3>1 DEF SeenHolds
    <3>2. CASE seen # NoRow
      <4>1. seen.row \in Int
        BY <3>2 DEF PaneInv, PaneTypeOK, Held
      <4>2. seen.row <= newest - 2 => seen.row <= newest' - 2
        BY <1>1, <1>2, <4>1
      <4> QED
        BY <1>4, <4>2 DEF PaneInv, SeenHolds, followVars
    <3> QED
      BY <3>1, <3>2
  <2> QED
    BY <2>1, <2>2, <2>3 DEF PaneInv
<1>5. CASE /\ RowsOf(props) # {} /\ ~props.hasNewer /\ full /\ ~autoScroll
           /\ props' = p /\ scrollTop' = scrollTop /\ shifted' = TRUE
           /\ UNCHANGED <<scrollDue, lastTop, anchor, matchDue, seen, followVars>>
  <2>1. /\ p \in PaneProps /\ p.from = props.from /\ p.to = props.to /\ p.hasNewer = TRUE
        /\ p.loadingNewer = props.loadingNewer /\ p.loadingMore = props.loadingMore
        /\ p.hasMore = props.hasMore
    BY <1>1 DEF PaneProps
  <2>2. RowsOf(p) = RowsOf(props) /\ BannerAbove(p) = BannerAbove(props)
    BY <2>1 DEF RowsOf, BannerAbove
  <2> HIDE DEF p
  <2>3. MaxTop(p) >= MaxTop(props)
    <3> DEFINE rows == ROW * Cardinality(RowsOf(props))
               b == BannerAbove(props)
               h == scrollHeight(props)
               k == scrollHeight(p)
    <3>1. BannerBelow(p) = BANNER /\ BannerBelow(props) = 0
      BY <1>5, <2>1, <2>2 DEF BannerBelow
    <3>2. h = b + rows + 0 /\ k = b + rows + BANNER
      BY <2>2, <3>1 DEF scrollHeight
    <3>3. rows \in Int
      <4>1. Cardinality(RowsOf(props)) \in Int
        BY <1>1, GivenFields
      <4> QED
        BY <4>1, PaneAssumption
    <3>4. b \in Int
      BY <1>1, Geometry
    <3>5. k >= h
      <4> HIDE DEF rows, b, h, k
      <4> QED
        BY <3>2, <3>3, <3>4, PaneAssumption
    <3>6. k \in Int /\ h \in Int
      BY <1>1, <2>1, Geometry
    <3>7. /\ MaxTop(p) = IF k > BOX THEN k - BOX ELSE 0
          /\ MaxTop(props) = IF h > BOX THEN h - BOX ELSE 0
      BY <1>1, <2>1, Geometry
    <3> HIDE DEF h, k
    <3> QED
      BY <3>5, <3>6, <3>7, PaneAssumption
  <2>4. PaneTypeOK'
    <3>1. scrollTop \in 0..MaxTop(props) /\ MaxTop(props) \in Nat /\ MaxTop(p) \in Nat
      BY <1>1, <2>1, Geometry DEF PaneInv, PaneTypeOK
    <3>2. scrollTop \in 0..MaxTop(p)
      BY <2>3, <3>1
    <3> QED
      BY <1>2, <1>5, <2>1, <3>2 DEF PaneInv, PaneTypeOK, followVars
  <2>5. BufferHolds'
    BY <1>1, <1>2, <1>3, <1>5, <2>1, <2>2 DEF BufferHolds
  <2>6. FollowHolds'
    BY <1>5 DEF PaneInv, FollowHolds, followVars
  <2>7. SeenHolds'
    BY <1>3, <1>5, <2>1, <2>2 DEF PaneInv, SeenHolds, followVars
  <2> QED
    BY <2>4, <2>5, <2>6, <2>7 DEF PaneInv
<1>6. CASE /\ RowsOf(props) # {} /\ ~props.hasNewer /\ ~(full /\ ~autoScroll)
           /\ LinesGiven(longer)
  <2>1. /\ longer \in PaneProps /\ longer.to = newest'
        /\ longer.from = IF full THEN props.from + 1 ELSE props.from
        /\ longer.hasNewer = FALSE /\ longer.loadingNewer = FALSE
    <3>1. (IF full THEN props.from + 1 ELSE props.from) \in Nat
      BY <1>1
    <3> HIDE DEF full
    <3>2. ~props.hasNewer /\ props.loadingNewer = FALSE /\ props.hasNewer = FALSE
      BY <1>1, <1>3, <1>6
    <3>3. newest' \in Int
      BY <1>2
    <3>4. longer \in PaneProps
      BY <1>1, <3>1, <3>3 DEF PaneProps
    <3> QED
      BY <1>1, <3>2, <3>4 DEF PaneProps
  <2> HIDE DEF longer
  <2>2. BufferHolds'
    <3>1. props' = longer
      BY <1>6 DEF LinesGiven
    <3> QED
      BY <1>2, <2>1, <3>1 DEF BufferHolds
  <2>3. CASE autoScroll
    BY <1>2, <1>6, <2>1, <2>2, <2>3, LinesFollow
  <2>4. CASE ~autoScroll
    <3>1. ASSUME seen # NoRow PROVE anchor.row \in RowsOf(longer)
      <4>1. anchor.row \in RowsOf(props)
        BY <3>1 DEF PaneInv, SeenHolds
      <4>2. longer.from = props.from
        BY <1>6, <2>1, <2>4
      <4> QED
        BY <1>1, <1>2, <1>3, <2>1, <4>1, <4>2 DEF RowsOf
    <3> QED
      BY <1>2, <1>6, <2>1, <2>2, <2>4, <3>1, LinesKeep
  <2> QED
    BY <2>3, <2>4
<1> QED
  <2>1. \/ (RowsOf(props) = {} \/ props.hasNewer)
           /\ UNCHANGED <<props, scrollTop, scrollDue, lastTop, anchor, matchDue, seen, shifted, followVars>>
        \/ /\ RowsOf(props) # {} /\ ~props.hasNewer /\ full /\ ~autoScroll
           /\ props' = p /\ scrollTop' = scrollTop /\ shifted' = TRUE
           /\ UNCHANGED <<scrollDue, lastTop, anchor, matchDue, seen, followVars>>
        \/ /\ RowsOf(props) # {} /\ ~props.hasNewer /\ ~(full /\ ~autoScroll)
           /\ LinesGiven(longer)
    BY DEF LineWritten
  <2> QED
    BY <1>4, <1>5, <1>6, <2>1

\* A banner goes: the box may have to scroll up, which is an event to come.
LEMMA BannersKeep ==
  ASSUME PaneInv, NEW p \in PaneProps, Banners(p),
         p.from = props.from, p.to = props.to, p.hasNewer = props.hasNewer,
         p.loadingNewer => props.loadingNewer, BannerAbove(p) <= BannerAbove(props)
  PROVE  PaneInv'
<1> DEFINE top == Clamped(p, scrollTop)
           m == MaxTop(p)
           h == scrollHeight(props)
           k == scrollHeight(p)
<1>1. /\ props' = p /\ scrollTop' = top /\ newest' = newest /\ lastTop' = lastTop
      /\ scrollDue' = (scrollDue \/ scrollTop' # scrollTop)
      /\ shifted' = (shifted \/ scrollTop' # scrollTop \/ k # h)
      /\ autoScroll' = autoScroll /\ anchor' = anchor /\ seen' = seen /\ wentUp' = wentUp
      /\ jumped' = jumped /\ matchDue' = matchDue
  BY DEF Banners, followVars
<1>2. props \in PaneProps /\ scrollTop \in 0..MaxTop(props) /\ lastTop \in Nat
  BY DEF PaneInv, PaneTypeOK
<1>3. h \in Nat /\ k \in Nat /\ m \in Nat /\ MaxTop(props) \in Nat
  BY <1>2, Geometry
<1>4. /\ m = (IF k > BOX THEN k - BOX ELSE 0)
      /\ MaxTop(props) = (IF h > BOX THEN h - BOX ELSE 0)
  BY <1>2, Geometry
<1>5. /\ RowsOf(p) = RowsOf(props)
      /\ k - h = BannerAbove(p) - BannerAbove(props)
      /\ \A r \in Int : offsetTop(p, r) - offsetTop(props, r) = BannerAbove(p) - BannerAbove(props)
  BY <1>2, SameRows
<1>6. scrollTop \in Nat /\ scrollTop <= MaxTop(props)
  BY <1>2, <1>3
<1>7. top = IF scrollTop > m THEN m ELSE scrollTop
  <2>1. top = IF scrollTop < 0 THEN 0 ELSE IF scrollTop > m THEN m ELSE scrollTop
    BY <1>6, Geometry
  <2> HIDE DEF top, m
  <2> QED
    BY <1>3, <1>6, <2>1
<1>8. k <= h
  <2>1. BannerAbove(p) \in Int /\ BannerAbove(props) \in Int
    BY <1>2, Geometry
  <2> HIDE DEF h, k
  <2> QED
    BY <1>3, <1>5, <2>1
<1> HIDE DEF top, m, h, k
<1>9. top \in Nat /\ top \in 0..m /\ top <= scrollTop
  BY <1>3, <1>6, <1>7
<1>10. PaneTypeOK'
  <2>1. scrollDue' \in BOOLEAN /\ shifted' \in BOOLEAN
    BY <1>1
  <2> QED
    BY <1>1, <1>9, <2>1 DEF PaneInv, PaneTypeOK, m
<1>11. BufferHolds'
  BY <1>1, <1>5 DEF PaneInv, BufferHolds
<1>12. atBottom <=> h - scrollTop - BOX < BOTTOM_SLACK_PX
  BY DEF atBottom, h
<1>13. atBottom' <=> k - top - BOX < BOTTOM_SLACK_PX
  BY <1>1 DEF atBottom, k
<1>14. BOX \in Nat /\ BOTTOM_SLACK_PX \in Nat /\ BOTTOM_SLACK_PX > 0
  BY PaneAssumption
<1>15. FollowHolds'
  <2>1. autoScroll' /\ scrollTop' < lastTop' => wentUp' \/ jumped' \/ atBottom'
    <3>1. CASE top = scrollTop
      <4>1. atBottom => atBottom'
        BY <1>3, <1>6, <1>8, <1>12, <1>13, <1>14, <3>1
      <4> QED
        BY <1>1, <3>1, <4>1 DEF PaneInv, FollowHolds
    <3>2. CASE top # scrollTop
      <4>1. top = m
        BY <1>7, <3>2
      <4>2. atBottom'
        BY <1>3, <1>4, <1>13, <1>14, <4>1
      <4> QED
        BY <4>2
    <3> QED
      BY <3>1, <3>2
  <2>2. ASSUME autoScroll', ~shifted'
        PROVE  /\ scrollHeight(props)' - lastTop' - BOX < BOTTOM_SLACK_PX
               /\ scrollDue' \/ atBottom'
    <3>1. ~shifted /\ top = scrollTop /\ k = h /\ autoScroll
      BY <1>1, <2>2
    <3>2. h - lastTop - BOX < BOTTOM_SLACK_PX /\ (scrollDue \/ atBottom)
      BY <3>1 DEF PaneInv, FollowHolds, h
    <3>3. scrollHeight(props)' = k
      BY <1>1 DEF k
    <3> QED
      BY <1>1, <1>12, <1>13, <3>1, <3>2, <3>3
  <2>3. autoScroll' \/ wentUp' \/ jumped'
    BY <1>1 DEF PaneInv, FollowHolds
  <2> QED
    BY <2>1, <2>2, <2>3 DEF FollowHolds
<1>16. SeenHolds'
  <2> SUFFICES ASSUME seen # NoRow PROVE SeenHolds'
    BY <1>1 DEF SeenHolds
  <2>1. /\ ~autoScroll /\ anchor # NoRow /\ Spot(anchor) = Spot(seen)
        /\ -ROW < seen.offset
        /\ seen.row \in RowsOf(props) /\ anchor.row \in RowsOf(props) /\ anchor.row <= seen.row
        /\ props.loadingNewer /\ anchor.row # seen.row => seen.row <= newest - 2
        /\ ~shifted => offsetTop(props, seen.row) - scrollTop = seen.offset
    BY DEF PaneInv, SeenHolds
  <2>2. ASSUME ~shifted' PROVE offsetTop(p, seen.row) - top = seen.offset
    <3>1. ~shifted /\ top = scrollTop /\ k = h
      BY <1>1, <2>2
    <3>2. seen.row \in Int
      BY DEF PaneInv, PaneTypeOK, Held
    <3>3. offsetTop(p, seen.row) \in Int /\ offsetTop(props, seen.row) \in Int
      BY <1>2, <3>2, Geometry
    <3>4. offsetTop(p, seen.row) - offsetTop(props, seen.row) = 0
      BY <1>3, <1>5, <3>1, <3>2
    <3>5. offsetTop(p, seen.row) = offsetTop(props, seen.row)
      BY <3>3, <3>4
    <3> QED
      BY <2>1, <3>1, <3>5
  <2> QED
    BY <1>1, <1>5, <2>1, <2>2 DEF SeenHolds
<1> QED
  BY <1>10, <1>11, <1>15, <1>16 DEF PaneInv

LEMMA OlderEndsKeep ==
  ASSUME PaneInv, OlderEnds
  PROVE  PaneInv'
<1>1. PICK left \in BOOLEAN : Banners([props EXCEPT !.loadingMore = FALSE, !.hasMore = left])
  BY DEF OlderEnds
<1> DEFINE p == [props EXCEPT !.loadingMore = FALSE, !.hasMore = left]
<1>2. props \in PaneProps /\ props.loadingMore
  BY DEF PaneInv, PaneTypeOK, OlderEnds
<1>3. /\ p \in PaneProps /\ p.from = props.from /\ p.to = props.to /\ p.hasNewer = props.hasNewer
      /\ p.loadingNewer = props.loadingNewer
  BY <1>2 DEF PaneProps
<1>4. BannerAbove(p) <= BannerAbove(props)
  <2>1. BannerAbove(props) = BANNER /\ BannerAbove(p) \in {0, BANNER}
    BY <1>2 DEF BannerAbove
  <2> HIDE DEF p
  <2> QED
    BY <2>1, PaneAssumption
<1> HIDE DEF p
<1> QED
  BY <1>1, <1>3, <1>4, BannersKeep DEF p

LEMMA NewerLostKeeps ==
  ASSUME PaneInv, NewerLost
  PROVE  PaneInv'
<1> DEFINE p == [props EXCEPT !.loadingNewer = FALSE]
<1>1. props \in PaneProps /\ Banners(p)
  BY DEF PaneInv, PaneTypeOK, NewerLost
<1>2. /\ p \in PaneProps /\ p.from = props.from /\ p.to = props.to /\ p.hasNewer = props.hasNewer
      /\ p.loadingNewer = FALSE /\ p.loadingMore = props.loadingMore /\ p.hasMore = props.hasMore
  BY <1>1 DEF PaneProps
<1>3. BannerAbove(p) <= BannerAbove(props)
  <2>1. BannerAbove(p) = BannerAbove(props)
    BY <1>2 DEF BannerAbove, RowsOf
  <2>2. BannerAbove(props) \in Int
    BY <1>1, Geometry
  <2> QED
    BY <2>1, <2>2
<1> HIDE DEF p
<1> QED
  BY <1>1, <1>2, <1>3, BannersKeep

\* The box is moved, up by the reader or by the search, and is told of it later.
LEMMA MovedKeeps ==
  ASSUME PaneInv, NEW top \in 0..MaxTop(props),
         scrollTop' = top, scrollDue' \in BOOLEAN, scrollDue => scrollDue',
         top # scrollTop => scrollDue' /\ seen' = NoRow,
         top = scrollTop => seen' \in {seen, NoRow},
         wentUp' \in BOOLEAN, jumped' \in BOOLEAN, wentUp => wentUp', jumped => jumped',
         top < scrollTop => wentUp' \/ jumped', matchDue' \in BOOLEAN,
         UNCHANGED <<props, newest, lastTop, autoScroll, anchor, shifted>>
  PROVE  PaneInv'
<1>2. /\ props \in PaneProps /\ scrollTop \in Int /\ top \in Int /\ lastTop \in Int
      /\ scrollHeight(props) \in Int /\ BOX \in Int /\ BOTTOM_SLACK_PX \in Int
  BY Geometry, PaneAssumption DEF PaneInv, PaneTypeOK
<1>3. PaneTypeOK'
  BY DEF PaneInv, PaneTypeOK, MaxTop, scrollHeight, BannerAbove, BannerBelow, RowsOf
<1>4. BufferHolds'
  BY DEF PaneInv, BufferHolds
<1>5. FollowHolds'
  <2>1. ASSUME autoScroll, top < lastTop, ~(top < scrollTop)
        PROVE  wentUp \/ jumped \/ atBottom'
    <3>1. scrollTop < lastTop
      BY <1>2, <2>1
    <3>2. atBottom => atBottom'
      BY <1>2, <2>1 DEF atBottom
    <3> QED
      BY <2>1, <3>1, <3>2 DEF PaneInv, FollowHolds
  <2>2. autoScroll' /\ scrollTop' < lastTop' => wentUp' \/ jumped' \/ atBottom'
    BY <2>1
  <2>3. autoScroll' /\ ~shifted' =>
          scrollHeight(props)' - lastTop' - BOX < BOTTOM_SLACK_PX /\ (scrollDue' \/ atBottom')
    <3>1. top = scrollTop => (atBottom' <=> atBottom)
      BY DEF atBottom
    <3> QED
      BY <3>1 DEF PaneInv, FollowHolds
  <2>4. autoScroll' \/ wentUp' \/ jumped'
    BY DEF PaneInv, FollowHolds
  <2> QED
    BY <2>2, <2>3, <2>4 DEF FollowHolds
<1>6. SeenHolds'
  <2>1. CASE seen' = NoRow
    BY <2>1 DEF SeenHolds
  <2>2. CASE seen' = seen /\ top = scrollTop
    BY <2>2 DEF PaneInv, SeenHolds
  <2> QED
    BY <2>1, <2>2
<1> QED
  BY <1>3, <1>4, <1>5, <1>6 DEF PaneInv

LEMMA ScrollKeeps ==
  ASSUME PaneInv, NEW top \in 0..MaxTop(props), Scroll(top)
  PROVE  PaneInv'
<1>1. /\ scrollTop' = top /\ scrollDue' = TRUE /\ seen' = NoRow
      /\ wentUp' = (wentUp \/ top < scrollTop) /\ jumped' = jumped /\ matchDue' = matchDue
      /\ UNCHANGED <<props, newest, lastTop, autoScroll, anchor, shifted>>
  BY DEF Scroll
<1>2. jumped \in BOOLEAN /\ matchDue \in BOOLEAN
  BY DEF PaneInv, PaneTypeOK
<1> QED
  BY <1>1, <1>2, MovedKeeps

\* Wherever the match is, the box can be scrolled there.
LEMMA MatchInside ==
  ASSUME PaneInv, NEW lines, NEW m, NEW top \in MatchPlace(props, lines, m, scrollTop)
  PROVE  top \in 0..MaxTop(props)
<1>1. props \in PaneProps /\ scrollTop \in 0..MaxTop(props) /\ MaxTop(props) \in Nat
  BY Geometry DEF PaneInv, PaneTypeOK
<1>2. CASE top = scrollTop
  BY <1>1, <1>2
<1>3. ASSUME NEW row \in RowsOf(props), top = Clamped(props, (2 * offsetTop(props, row) + ROW - BOX) \div 2)
      PROVE  top \in 0..MaxTop(props)
  <2> DEFINE y == offsetTop(props, row)
             z == (2 * y + ROW - BOX) \div 2
  <2>1. row \in Int
    BY <1>1, <1>3 DEF RowsOf, PaneProps
  <2>2. y \in Int
    BY <1>1, <2>1, Geometry
  <2>3. z \in Int
    <3> HIDE DEF y
    <3> QED
      BY <2>2, PaneAssumption
  <2> HIDE DEF y, z
  <2>4. Clamped(props, z) = IF z < 0 THEN 0 ELSE IF z > MaxTop(props) THEN MaxTop(props) ELSE z
    BY <1>1, <2>3, Geometry
  <2>5. top = Clamped(props, z)
    BY <1>3 DEF y, z
  <2> QED
    BY <1>1, <2>3, <2>4, <2>5
<1> QED
  BY <1>2, <1>3 DEF MatchPlace, ActiveRow, Matches

\* The search goes to a match.
LEMMA GoingKeeps ==
  ASSUME PaneInv, matchDue' \in BOOLEAN, NEW lines, NEW m,
         NEW top \in {scrollTop} \union MatchPlace(props, lines, m, scrollTop), GoesTo(top)
  PROVE  PaneInv'
<1>1. top \in 0..MaxTop(props)
  BY MatchInside DEF PaneInv, PaneTypeOK
<1>2. /\ scrollTop' = top /\ scrollDue' = (scrollDue \/ top # scrollTop)
      /\ jumped' = (jumped \/ top < scrollTop) /\ wentUp' = wentUp
      /\ seen' = IF top = scrollTop THEN seen ELSE NoRow
      /\ UNCHANGED <<props, newest, lastTop, autoScroll, anchor, shifted>>
  BY DEF GoesTo
<1>3. wentUp \in BOOLEAN
  BY DEF PaneInv, PaneTypeOK
<1> QED
  BY <1>1, <1>2, <1>3, MovedKeeps

LEMMA MatchKeeps ==
  ASSUME PaneInv, MatchEffect
  PROVE  PaneInv'
<1>1. PICK top \in MatchPlace(props, search, activeMatch, scrollTop) : GoesTo(top)
  BY DEF MatchEffect
<1>2. matchDue' \in BOOLEAN
  BY DEF MatchEffect
<1> QED
  BY <1>1, <1>2, GoingKeeps

LEMMA SearchedKeeps ==
  ASSUME PaneInv, NEW lines, NEW m, Searched(lines, m)
  PROVE  PaneInv'
<1>1. PICK top \in {scrollTop} \union MatchPlace(props, lines, m, scrollTop) : GoesTo(top)
  BY DEF Searched
<1>2. matchDue' \in BOOLEAN
  BY DEF Searched, PaneInv, PaneTypeOK
<1> QED
  BY <1>1, <1>2, GoingKeeps

\* A banner comes: the box stays wherever it is.
LEMMA BannerComes ==
  ASSUME PaneInv, NEW q \in PaneProps,
         q.from = props.from, q.to = props.to, q.hasNewer = props.hasNewer,
         BannerAbove(props) <= BannerAbove(q), NEW top \in 0..MaxTop(props)
  PROVE  /\ Clamped(q, top) = top /\ top \in 0..MaxTop(q)
         /\ RowsOf(q) = RowsOf(props)
<1> DEFINE m == MaxTop(q)
           h == scrollHeight(props)
           k == scrollHeight(q)
<1>1. props \in PaneProps
  BY DEF PaneInv, PaneTypeOK
<1>2. h \in Nat /\ k \in Nat /\ m \in Nat /\ MaxTop(props) \in Nat
  BY <1>1, Geometry
<1>3. /\ m = (IF k > BOX THEN k - BOX ELSE 0)
      /\ MaxTop(props) = (IF h > BOX THEN h - BOX ELSE 0)
  BY <1>1, Geometry
<1>4. h <= k
  <2>1. BannerAbove(q) \in Int /\ BannerAbove(props) \in Int
    BY <1>1, Geometry
  <2>2. k - h = BannerAbove(q) - BannerAbove(props)
    BY <1>1, SameRows
  <2> HIDE DEF h, k
  <2> QED
    BY <1>2, <2>1, <2>2
<1> HIDE DEF m, h, k
<1>5. top \in Nat /\ top <= m
  BY <1>1, <1>2, <1>3, <1>4, PaneAssumption
<1>6. Clamped(q, top) = top
  <2>1. Clamped(q, top) = IF top < 0 THEN 0 ELSE IF top > m THEN m ELSE top
    BY <1>5, Geometry DEF m
  <2> QED
    BY <1>2, <1>5, <2>1
<1>7. RowsOf(q) = RowsOf(props)
  BY <1>1, SameRows
<1> QED
  BY <1>2, <1>5, <1>6, <1>7 DEF m

\* What the box is given when older or newer lines are asked for.
Asked(p) ==
  /\ p \in PaneProps
  /\ p.from = props.from /\ p.to = props.to /\ p.hasNewer = props.hasNewer
  /\ p.loadingNewer => props.hasNewer
  /\ BannerAbove(props) <= BannerAbove(p)

LEMMA AskedBuffer ==
  ASSUME PaneInv, Asked(props'), newest' = newest
  PROVE  BufferHolds'
<1>1. RowsOf(props)' = RowsOf(props)
  BY DEF Asked, RowsOf
<1> QED
  BY <1>1 DEF Asked, PaneInv, BufferHolds

\* Following begins: the box goes to the end.
LEMMA FollowBegins ==
  ASSUME PaneInv, ~autoScroll, NEW p, Asked(p), NEW held \in {NoRow} \union Held, NEW from,
         Follow(TRUE, p, held, from), matchDue' \in BOOLEAN,
         seen' = NoRow, scrollDue' \in BOOLEAN, newest' = newest
  PROVE  PaneInv'
<1> DEFINE q == IF p.hasNewer THEN [p EXCEPT !.loadingNewer = TRUE] ELSE p
           top == MaxTop(q)
<1>1. /\ props' = q /\ scrollTop' = top /\ lastTop' = top /\ shifted' = FALSE
      /\ anchor' = held /\ autoScroll' = TRUE /\ wentUp' = FALSE /\ jumped' = FALSE
  <2>1. autoScroll = FALSE
    BY DEF PaneInv, PaneTypeOK
  <2>2. /\ props' = q /\ autoScroll' = TRUE /\ wentUp' = FALSE /\ jumped' = FALSE
        /\ LayoutEffect(props', from, TRUE, held)
    BY <2>1 DEF Follow
  <2> HIDE DEF q
  <2> QED
    BY <2>2 DEF LayoutEffect, PlacedTop
<1>2. Asked(q)
  BY DEF Asked, PaneProps, BannerAbove, RowsOf
<1> HIDE DEF q
<1>3. q \in PaneProps
  BY <1>2 DEF Asked
<1>4. top \in Nat /\ top \in 0..MaxTop(q) /\ scrollHeight(q) - top - BOX < BOTTOM_SLACK_PX
  BY <1>3, Geometry, PaneAssumption
<1> HIDE DEF top
<1>5. PaneTypeOK'
  BY <1>1, <1>3, <1>4 DEF PaneInv, PaneTypeOK
<1>6. BufferHolds'
  BY <1>1, <1>2, AskedBuffer
<1>7. FollowHolds'
  <2>1. autoScroll' /\ ~(scrollTop' < lastTop')
    BY <1>1, <1>4
  <2>2. scrollHeight(props)' - lastTop' - BOX < BOTTOM_SLACK_PX /\ atBottom'
    BY <1>1, <1>4 DEF atBottom
  <2> QED
    BY <2>1, <2>2 DEF FollowHolds
<1>8. SeenHolds'
  BY DEF SeenHolds
<1> QED
  BY <1>5, <1>6, <1>7, <1>8 DEF PaneInv

\* Following goes on: the box stays where it is, or where the search has it go.
LEMMA FollowGoesOn ==
  ASSUME PaneInv, autoScroll, NEW p, Asked(p), NEW held \in {NoRow} \union Held,
         NEW from \in 0..MaxTop(props), Follow(TRUE, p, held, from), matchDue' \in BOOLEAN,
         seen' = NoRow, newest' = newest, scrollDue' \in BOOLEAN, from # scrollTop => scrollDue',
         \/ p = props /\ lastTop' = lastTop /\ (scrollDue => scrollDue')
         \/ atBottom /\ lastTop' = scrollTop
  PROVE  PaneInv'
<1> DEFINE q == IF p.hasNewer THEN [p EXCEPT !.loadingNewer = TRUE] ELSE p
<1>1. /\ props' = q /\ scrollTop' = Clamped(q, from) /\ anchor' = held
      /\ autoScroll' = TRUE /\ wentUp' = wentUp /\ jumped' = (jumped \/ from < scrollTop)
  <2>1. autoScroll = TRUE /\ wentUp \in BOOLEAN /\ jumped \in BOOLEAN
    BY DEF PaneInv, PaneTypeOK
  <2>2. props' = q /\ autoScroll' = TRUE /\ wentUp' = wentUp /\ jumped' = (jumped \/ from < scrollTop)
    BY <2>1 DEF Follow
  <2> HIDE DEF q
  <2> QED
    BY <2>1, <2>2 DEF Follow
<1>2. shifted' = (shifted \/ scrollHeight(q) # scrollHeight(props))
  <2> HIDE DEF q
  <2>1. autoScroll = TRUE
    BY DEF PaneInv, PaneTypeOK
  <2> QED
    BY <1>1, <2>1 DEF Follow
<1>3. Asked(q)
  BY DEF Asked, PaneProps, BannerAbove, RowsOf
<1>4. p = props => scrollHeight(q) = scrollHeight(props)
  BY DEF Asked, PaneProps, scrollHeight, BannerAbove, BannerBelow, RowsOf
<1> HIDE DEF q
<1>5. scrollTop' = from /\ scrollTop' \in 0..MaxTop(q)
  BY <1>1, <1>3, BannerComes DEF Asked
<1>6. /\ q \in PaneProps /\ scrollTop \in Nat /\ lastTop \in Nat /\ from \in Nat
      /\ scrollHeight(q) \in Nat /\ BOX \in Nat /\ BOTTOM_SLACK_PX \in Nat
  <2>1. q \in PaneProps /\ props \in PaneProps /\ lastTop \in Nat /\ scrollTop \in 0..MaxTop(props)
    BY <1>3 DEF Asked, PaneInv, PaneTypeOK
  <2> QED
    BY <2>1, Geometry, PaneAssumption
<1>7. PaneTypeOK'
  <2>1. shifted' \in BOOLEAN /\ jumped' \in BOOLEAN /\ lastTop' \in Nat
    BY <1>1, <1>2, <1>6
  <2> QED
    BY <1>1, <1>5, <1>6, <2>1 DEF PaneInv, PaneTypeOK
<1>8. BufferHolds'
  BY <1>1, <1>3, AskedBuffer
<1>9. FollowHolds'
  <2>1. atBottom' <=> scrollHeight(q) - from - BOX < BOTTOM_SLACK_PX
    BY <1>1, <1>5 DEF atBottom
  <2>2. CASE p = props /\ lastTop' = lastTop /\ (scrollDue => scrollDue')
    <3>1. scrollHeight(q) = scrollHeight(props) /\ (shifted' <=> shifted)
      BY <1>2, <1>4, <2>2
    <3>2. from >= scrollTop => (atBottom => atBottom')
      BY <1>6, <2>1, <3>1 DEF atBottom
    <3>3. ASSUME from < lastTop PROVE wentUp \/ jumped' \/ atBottom'
      <4>1. from < scrollTop \/ (scrollTop < lastTop /\ from >= scrollTop)
        BY <1>6, <3>3
      <4> QED
        BY <1>1, <3>2, <4>1 DEF PaneInv, FollowHolds
    <3>4. ~shifted' => scrollHeight(q) - lastTop - BOX < BOTTOM_SLACK_PX /\ (scrollDue' \/ atBottom')
      <4>1. from = scrollTop => (atBottom => atBottom')
        BY <2>1, <3>1 DEF atBottom
      <4> QED
        BY <2>2, <3>1, <4>1 DEF PaneInv, FollowHolds
    <3> QED
      BY <1>1, <1>5, <2>2, <3>3, <3>4 DEF FollowHolds
  <2>3. CASE atBottom /\ lastTop' = scrollTop
    <3>1. scrollTop' < lastTop' => jumped'
      BY <1>1, <1>5, <2>3
    <3>2. ~shifted' => scrollHeight(q) = scrollHeight(props)
      BY <1>2
    <3>3. ~shifted' => scrollHeight(q) - scrollTop - BOX < BOTTOM_SLACK_PX
      BY <2>3, <3>2 DEF atBottom
    <3>4. ~shifted' => scrollDue' \/ atBottom'
      BY <2>1, <3>3
    <3> QED
      BY <1>1, <2>3, <3>1, <3>3, <3>4 DEF FollowHolds
  <2> QED
    BY <2>2, <2>3
<1>10. SeenHolds'
  BY DEF SeenHolds
<1> QED
  BY <1>7, <1>8, <1>9, <1>10 DEF PaneInv

\* A handler that renders has the search go to its match first.
LEMMA RenderedInside ==
  ASSUME PaneInv, NEW renders \in BOOLEAN, EffectFirst(renders), NEW from \in RenderedFrom(renders)
  PROVE  from \in 0..MaxTop(props) /\ matchDue' \in BOOLEAN
<1>1. scrollTop \in 0..MaxTop(props) /\ matchDue \in BOOLEAN
  BY DEF PaneInv, PaneTypeOK
<1>2. from \in 0..MaxTop(props)
  BY <1>1, MatchInside DEF RenderedFrom
<1> QED
  BY <1>1, <1>2 DEF EffectFirst

LEMMA WheelKeeps ==
  ASSUME PaneInv, handleWheel(ROW)
  PROVE  PaneInv'
<1> DEFINE renders == ~autoScroll \/ (props.hasNewer /\ ~props.loadingNewer)
<1>1. PICK from \in RenderedFrom(renders) :
        /\ EffectFirst(renders)
        /\ Follow(TRUE, props, anchor, from) /\ (autoScroll => lastTop' = lastTop)
        /\ scrollDue' = (scrollDue \/ from # scrollTop \/ scrollTop' # scrollTop)
        /\ seen' = NoRow /\ newest' = newest
  BY DEF handleWheel
<1>2. Asked(props) /\ anchor \in {NoRow} \union Held
  <2>1. props \in PaneProps /\ anchor \in {NoRow} \union Held
    BY DEF PaneInv, PaneTypeOK
  <2>2. BannerAbove(props) \in Int
    BY <2>1, Geometry
  <2> QED
    BY <2>1, <2>2 DEF Asked, PaneInv, BufferHolds
<1>3. from \in 0..MaxTop(props) /\ matchDue' \in BOOLEAN /\ scrollDue' \in BOOLEAN
  <2>1. renders \in BOOLEAN
    OBVIOUS
  <2> HIDE DEF renders
  <2> QED
    BY <1>1, <2>1, RenderedInside
<1> HIDE DEF renders
<1>4. CASE autoScroll
  <2> DEFINE p == props
  <2>1. p = props /\ lastTop' = lastTop
    BY <1>1, <1>4
  <2> QED
    BY <1>1, <1>2, <1>3, <1>4, <2>1, FollowGoesOn
<1>5. CASE ~autoScroll
  BY <1>1, <1>2, <1>3, <1>5, FollowBegins
<1> QED
  BY <1>4, <1>5

\* Older lines are asked for near the top: a banner comes over the rows.
LEMMA ScrollAsks ==
  ASSUME PaneInv
  PROVE  LET asks == scrollTop < TOP_EDGE /\ scrollHeight(props) > BOX /\ props.hasMore
                     /\ ~props.loadingMore
             p == IF asks THEN [props EXCEPT !.loadingMore = TRUE] ELSE props
         IN /\ asks \in BOOLEAN /\ Asked(p) /\ p.loadingNewer = props.loadingNewer
            /\ ~asks => p = props
            /\ asks => scrollHeight(props) > BOX
<1> DEFINE asks == scrollTop < TOP_EDGE /\ scrollHeight(props) > BOX /\ props.hasMore
                   /\ ~props.loadingMore
           q == [props EXCEPT !.loadingMore = TRUE]
<1>1. props \in PaneProps /\ BannerAbove(props) \in Int
  BY Geometry DEF PaneInv, PaneTypeOK
<1>2. q \in PaneProps /\ q.from = props.from /\ q.to = props.to /\ q.hasNewer = props.hasNewer
      /\ q.loadingNewer = props.loadingNewer /\ q.loadingMore = TRUE
  BY <1>1 DEF PaneProps
<1>3. asks => BannerAbove(props) <= BannerAbove(q)
  <2>1. asks => BannerAbove(props) = 0
    BY DEF BannerAbove
  <2>2. BannerAbove(q) \in Nat
    BY <1>2, Geometry
  <2> HIDE DEF asks, q
  <2> QED
    BY <2>1, <2>2
<1>4. props.loadingNewer => props.hasNewer
  BY DEF PaneInv, BufferHolds
<1>5. Asked(props)
  BY <1>1, <1>4 DEF Asked
<1>6. asks => Asked(q)
  <2> HIDE DEF asks, q
  <2> QED
    BY <1>2, <1>3, <1>4 DEF Asked
<1> HIDE DEF q
<1> QED
  BY <1>2, <1>5, <1>6 DEF q

\* The event of a scroll, where following neither begins nor ends and the end is not in view.
LEMMA ScrolledAlong ==
  ASSUME PaneInv, NEW p, Asked(p), p.loadingNewer = props.loadingNewer, NEW asks \in BOOLEAN,
         ~asks => p = props,
         Follows <=> autoScroll, ~atBottom, NEW from \in 0..MaxTop(props),
         props' = p, anchor' = captureAnchor(props, scrollTop), lastTop' = scrollTop,
         scrollTop' = Clamped(p, from), shifted' = (shifted \/ asks),
         autoScroll' = autoScroll, wentUp' = wentUp, jumped' = (jumped \/ from < scrollTop),
         matchDue' \in BOOLEAN, scrollDue' \in BOOLEAN,
         seen' = IF Follows \/ from # scrollTop THEN NoRow ELSE captureAnchor(props, scrollTop),
         newest' = newest
  PROVE  PaneInv'
<1> DEFINE c == captureAnchor(props, scrollTop)
<1>1. p \in PaneProps /\ props \in PaneProps
  BY DEF Asked, PaneInv, PaneTypeOK
<1>2. scrollTop' = from /\ scrollTop' \in 0..MaxTop(p) /\ RowsOf(p) = RowsOf(props)
  BY <1>1, BannerComes DEF Asked
<1>3. /\ scrollTop \in Nat /\ from \in Nat /\ lastTop \in Nat /\ scrollHeight(props) \in Nat
      /\ BOX \in Nat /\ BOTTOM_SLACK_PX \in Nat /\ ROW \in Nat
  <2>1. scrollTop \in 0..MaxTop(props) /\ lastTop \in Nat
    BY DEF PaneInv, PaneTypeOK
  <2> QED
    BY <1>1, <2>1, Geometry, PaneAssumption
<1>4. \/ c = NoRow
      \/ /\ c \in Held /\ c # NoRow /\ c.row \in RowsOf(props)
         /\ offsetTop(props, c.row) + ROW > scrollTop
         /\ c.offset = offsetTop(props, c.row) - scrollTop
  BY <1>1, <1>3, Captured
<1> HIDE DEF c
<1>5. anchor' = c /\ seen' = IF Follows \/ from # scrollTop THEN NoRow ELSE c
  BY DEF c
<1>6. PaneTypeOK'
  <2>1. shifted' \in BOOLEAN /\ jumped' \in BOOLEAN
    OBVIOUS
  <2>2. c \in {NoRow} \union Held /\ seen' \in {NoRow} \union Held
    BY <1>4, <1>5
  <2> QED
    BY <1>1, <1>2, <1>3, <1>5, <2>1, <2>2 DEF PaneInv, PaneTypeOK
<1>7. BufferHolds'
  BY AskedBuffer
<1>8. FollowHolds'
  <2>1. scrollTop' < lastTop' => jumped'
    BY <1>2, <1>3
  <2>2. autoScroll => shifted
    <3> SUFFICES ASSUME autoScroll, ~shifted PROVE FALSE
      OBVIOUS
    <3>1. scrollTop >= lastTop
      BY <1>3 DEF Follows, movedUp
    <3>2. scrollHeight(props) - lastTop - BOX < BOTTOM_SLACK_PX
      BY DEF PaneInv, FollowHolds
    <3> QED
      BY <1>3, <3>1, <3>2 DEF atBottom
  <2> QED
    BY <2>1, <2>2 DEF PaneInv, FollowHolds
<1>9. SeenHolds'
  <2> SUFFICES ASSUME seen' # NoRow PROVE SeenHolds'
    BY DEF SeenHolds
  <2>1. /\ seen' = c /\ from = scrollTop /\ ~autoScroll /\ c \in Held /\ c # NoRow /\ c.row \in RowsOf(props)
        /\ offsetTop(props, c.row) + ROW > scrollTop
        /\ c.offset = offsetTop(props, c.row) - scrollTop
    BY <1>4, <1>5
  <2>2. c.row \in Int /\ offsetTop(props, c.row) \in Int
    <3>1. c.row \in Int
      BY <2>1 DEF Held
    <3> QED
      BY <1>1, <3>1, Geometry
  <2>3. -ROW < c.offset /\ offsetTop(props, c.row) - scrollTop = c.offset
    BY <1>3, <2>1, <2>2
  <2>4. ~shifted' => offsetTop(props', c.row) - scrollTop' = c.offset
    BY <1>2, <2>1, <2>3
  <2>5. c.row <= c.row
    BY <2>2
  <2> QED
    BY <1>2, <1>5, <2>1, <2>3, <2>4, <2>5 DEF SeenHolds
<1> QED
  BY <1>6, <1>7, <1>8, <1>9 DEF PaneInv

\* Following ends: what is seen stays where it is, whatever banner comes.
LEMMA FollowEnds ==
  ASSUME PaneInv, NEW p, Asked(p), p.loadingNewer = props.loadingNewer, NEW asks \in BOOLEAN,
         ~asks => p = props, asks => scrollHeight(props) > BOX,
         autoScroll, movedUp, ~atBottom,
         NEW from \in 0..MaxTop(props), Follow(FALSE, p, captureAnchor(props, scrollTop), from),
         matchDue' \in BOOLEAN, scrollDue' \in BOOLEAN,
         seen' = captureAnchor(props, scrollTop), newest' = newest
  PROVE  PaneInv'
<1> DEFINE c == captureAnchor(props, scrollTop)
           top == PlacedTop(p, from, FALSE, c)
           d == captureAnchor(p, top)
<1>1. p \in PaneProps /\ props \in PaneProps
  BY DEF Asked, PaneInv, PaneTypeOK
<1>2. /\ props' = p /\ scrollTop' = top /\ lastTop' = top /\ shifted' = FALSE /\ anchor' = d
      /\ autoScroll' = FALSE /\ wentUp' = wentUp /\ jumped' = (jumped \/ from < scrollTop)
  <2>1. autoScroll = TRUE /\ wentUp \in BOOLEAN /\ jumped \in BOOLEAN
    BY DEF PaneInv, PaneTypeOK
  <2>2. /\ props' = p /\ autoScroll' = FALSE /\ wentUp' = wentUp
        /\ jumped' = (jumped \/ from < scrollTop)
        /\ LayoutEffect(props', from, FALSE, c)
    BY <2>1 DEF Follow
  <2> QED
    BY <2>2 DEF LayoutEffect
<1>3. /\ scrollTop \in Nat /\ scrollTop <= MaxTop(props) /\ MaxTop(props) \in Nat
      /\ MaxTop(p) \in Nat /\ scrollHeight(props) \in Nat
      /\ scrollHeight(p) \in Nat /\ BOX \in Nat /\ BOTTOM_SLACK_PX \in Nat /\ ROW \in Nat
  <2>1. scrollTop \in 0..MaxTop(props) /\ lastTop \in Nat
    BY DEF PaneInv, PaneTypeOK
  <2> QED
    BY <1>1, <2>1, Geometry, PaneAssumption
<1>4. RowsOf(p) = RowsOf(props)
  BY DEF Asked, RowsOf
<1>5. /\ c \in {NoRow} \union Held
      /\ c # NoRow => /\ c \in Held /\ c.row \in RowsOf(props)
                      /\ offsetTop(props, c.row) + ROW > scrollTop
                      /\ c.offset = offsetTop(props, c.row) - scrollTop
                      /\ \A r \in RowsOf(props) :
                           offsetTop(props, r) + ROW > scrollTop => c.row <= r
  BY <1>1, <1>3, Captured
<1>6. top \in 0..MaxTop(p) /\ d \in {NoRow} \union Held
  <2> HIDE DEF c
  <2>1. /\ p \in PaneProps /\ from \in Int /\ FALSE \in BOOLEAN
        /\ c \in {NoRow} \union Held
    BY <1>1, <1>3, <1>5
  <2> QED
    BY <2>1, PlacedInside
<1>7. top \in Nat
  <2> HIDE DEF top
  <2> QED
    BY <1>3, <1>6
<1>8. PaneTypeOK'
  <2> HIDE DEF c, top, d
  <2>1. seen' = c
    BY DEF c
  <2> QED
    BY <1>1, <1>2, <1>5, <1>6, <1>7, <2>1 DEF PaneInv, PaneTypeOK
<1>9. BufferHolds'
  BY <1>2, AskedBuffer
<1>10. FollowHolds'
  BY <1>2 DEF PaneInv, FollowHolds, movedUp
<1>11. SeenHolds'
  <2> SUFFICES ASSUME c # NoRow PROVE SeenHolds'
    BY DEF SeenHolds
  <2> HIDE DEF c
  <2> DEFINE e == BannerAbove(p) - BannerAbove(props)
  <2>1. /\ c \in Held /\ c.row \in RowsOf(props) /\ c.row \in Int /\ c.offset \in Int
        /\ offsetTop(props, c.row) + ROW > scrollTop
        /\ c.offset = offsetTop(props, c.row) - scrollTop
    BY <1>5 DEF Held
  <2>2. /\ offsetTop(props, c.row) \in Int /\ offsetTop(p, c.row) \in Int
        /\ BannerAbove(p) \in Int /\ BannerAbove(props) \in Int /\ e \in Int /\ e >= 0
    <3>1. BannerAbove(p) \in Int /\ BannerAbove(props) \in Int
      BY <1>1, Geometry
    <3> QED
      BY <1>1, <2>1, <3>1, Geometry DEF Asked
  <2>3. /\ scrollHeight(p) - scrollHeight(props) = e
        /\ offsetTop(p, c.row) - offsetTop(props, c.row) = e
        /\ \A r \in Int : offsetTop(p, r) - offsetTop(props, r) = e
    BY <1>1, <2>1, SameRows DEF Asked
  <2>4. e # 0 => scrollHeight(props) > BOX
    BY <2>2
  <2> HIDE DEF e
  <2>5. scrollTop + e \in 0..MaxTop(p)
    <3>1. /\ MaxTop(p) = (IF scrollHeight(p) > BOX THEN scrollHeight(p) - BOX ELSE 0)
          /\ MaxTop(props) = (IF scrollHeight(props) > BOX THEN scrollHeight(props) - BOX ELSE 0)
      BY <1>1, Geometry
    <3>2. scrollTop + e <= MaxTop(p)
      <4>1. CASE e = 0
        <5>1. scrollHeight(p) = scrollHeight(props)
          BY <1>3, <2>3, <4>1
        <5>2. MaxTop(p) = MaxTop(props)
          BY <3>1, <5>1
        <5> QED
          BY <1>3, <4>1, <5>2
      <4>2. CASE e # 0
        BY <1>3, <2>2, <2>3, <2>4, <3>1, <4>2
      <4> QED
        BY <4>1, <4>2
    <3> QED
      BY <1>3, <2>2, <3>2
  <2>6. top = scrollTop + e
    <3>1. c.row \in RowsOf(p)
      BY <1>4, <2>1
    <3>2. top = Clamped(p, offsetTop(p, c.row) - c.offset)
      BY <3>1 DEF PlacedTop
    <3>3. offsetTop(p, c.row) - c.offset = scrollTop + e
      BY <1>3, <2>1, <2>2, <2>3
    <3> DEFINE t == scrollTop + e
    <3>4. t \in Int /\ 0 <= t /\ t <= MaxTop(p)
      BY <1>3, <2>2, <2>5
    <3>5. Clamped(p, t) = IF t < 0 THEN 0 ELSE IF t > MaxTop(p) THEN MaxTop(p) ELSE t
      BY <1>1, <3>4, Geometry
    <3> HIDE DEF t, top
    <3>6. Clamped(p, t) = t
      BY <1>3, <3>4, <3>5
    <3> QED
      BY <3>2, <3>3, <3>6 DEF t
  <2> HIDE DEF top
  <2>7. offsetTop(p, c.row) - top = c.offset /\ -ROW < c.offset
    BY <1>3, <2>1, <2>2, <2>3, <2>6
  <2>8. d # NoRow /\ d \in Held /\ d.row \in RowsOf(p) /\ d.row <= c.row /\ Spot(d) = Spot(c)
    BY <1>1, <1>4, <1>7, <2>1, <2>7, KeepsPlace
  <2>9. offsetTop(p, d.row) + ROW > top
    <3>1. top \in Int
      BY <1>7
    <3> QED
      BY <1>1, <2>8, <3>1, Captured
  <2> HIDE DEF d
  <2>10. d.row = c.row
    <3>1. d.row \in Int /\ offsetTop(p, d.row) \in Int /\ offsetTop(props, d.row) \in Int
      <4>1. d.row \in Int
        BY <2>8 DEF Held
      <4> QED
        BY <1>1, <4>1, Geometry
    <3>2. offsetTop(p, d.row) - offsetTop(props, d.row) = e
      BY <2>3, <3>1
    <3>3. offsetTop(props, d.row) + ROW > scrollTop
      BY <1>3, <2>2, <2>6, <2>9, <3>1, <3>2
    <3>4. c.row <= d.row
      BY <1>4, <1>5, <2>8, <3>3
    <3> QED
      BY <2>1, <2>8, <3>1, <3>4
  <2>11. seen' = c
    BY DEF c
  <2> QED
    BY <1>2, <1>4, <2>1, <2>7, <2>8, <2>10, <2>11 DEF SeenHolds
<1> QED
  BY <1>8, <1>9, <1>10, <1>11 DEF PaneInv

LEMMA ScrolledKeeps ==
  ASSUME PaneInv, handleScroll
  PROVE  PaneInv'
<1> DEFINE asks == scrollTop < TOP_EDGE /\ scrollHeight(props) > BOX /\ props.hasMore
                   /\ ~props.loadingMore
           p == IF asks THEN [props EXCEPT !.loadingMore = TRUE] ELSE props
           held == IF atBottom THEN anchor ELSE captureAnchor(props, scrollTop)
           renders == asks \/ Follows # autoScroll \/ (atBottom /\ props.hasNewer /\ ~props.loadingNewer)
<1>1. /\ asks \in BOOLEAN /\ Asked(p) /\ p.loadingNewer = props.loadingNewer
      /\ ~asks => p = props
      /\ asks => scrollHeight(props) > BOX
  BY ScrollAsks
<1>2. PICK from \in RenderedFrom(renders) :
        /\ EffectFirst(renders)
        /\ scrollDue' = (from # scrollTop \/ scrollTop' # scrollTop) /\ newest' = newest
        /\ seen' = IF Follows \/ (~autoScroll /\ from # scrollTop) THEN NoRow
                   ELSE captureAnchor(props, scrollTop)
        /\ IF Follows = autoScroll /\ ~atBottom
           THEN /\ props' = p /\ anchor' = held /\ scrollTop' = Clamped(p, from)
                /\ shifted' = (shifted \/ asks) /\ jumped' = (jumped \/ from < scrollTop)
                /\ UNCHANGED <<autoScroll, wentUp>>
           ELSE Follow(Follows, p, held, from)
        /\ Follows = autoScroll => lastTop' = scrollTop
  BY DEF handleScroll
<1>3. held \in {NoRow} \union Held
  <2>1. props \in PaneProps /\ scrollTop \in Int /\ anchor \in {NoRow} \union Held
    BY Geometry DEF PaneInv, PaneTypeOK
  <2>2. captureAnchor(props, scrollTop) \in {NoRow} \union Held
    BY <2>1, Captured
  <2> QED
    BY <2>1, <2>2
<1>4. /\ Follows \in BOOLEAN /\ autoScroll \in BOOLEAN /\ scrollDue' \in BOOLEAN
      /\ from \in 0..MaxTop(props) /\ matchDue' \in BOOLEAN
  <2>1. Follows \in BOOLEAN /\ autoScroll \in BOOLEAN /\ scrollDue' \in BOOLEAN
    BY <1>2 DEF Follows, PaneInv, PaneTypeOK
  <2>2. renders \in BOOLEAN
    OBVIOUS
  <2> HIDE DEF renders
  <2> QED
    BY <1>2, <2>1, <2>2, RenderedInside
<1> HIDE DEF asks, p, renders
<1>5. CASE Follows = autoScroll /\ ~atBottom
  <2>1. seen' = IF Follows \/ from # scrollTop THEN NoRow ELSE captureAnchor(props, scrollTop)
    BY <1>2, <1>4, <1>5
  <2>2. held = captureAnchor(props, scrollTop)
    BY <1>5
  <2> HIDE DEF held
  <2> QED
    BY <1>1, <1>2, <1>4, <1>5, <2>1, <2>2, ScrolledAlong
<1>6. CASE Follows /\ autoScroll /\ atBottom
  <2>1. Follows = TRUE /\ autoScroll = TRUE
    BY <1>4, <1>6
  <2>2. /\ Follow(TRUE, p, held, from) /\ lastTop' = scrollTop /\ seen' = NoRow
        /\ from # scrollTop => scrollDue'
    BY <1>2, <1>6, <2>1
  <2> HIDE DEF held
  <2> QED
    BY <1>1, <1>2, <1>3, <1>4, <1>6, <2>2, FollowGoesOn
<1>7. CASE Follows /\ ~autoScroll
  <2>1. Follows = TRUE /\ autoScroll = FALSE
    BY <1>4, <1>7
  <2>2. Follow(TRUE, p, held, from) /\ seen' = NoRow
    BY <1>2, <2>1
  <2> HIDE DEF held
  <2> QED
    BY <1>1, <1>2, <1>3, <1>4, <1>7, <2>2, FollowBegins
<1>8. CASE ~Follows /\ autoScroll
  <2>1. Follows = FALSE /\ autoScroll = TRUE /\ ~atBottom /\ movedUp
    BY <1>4, <1>8 DEF Follows
  <2>2. /\ Follow(FALSE, p, captureAnchor(props, scrollTop), from)
        /\ seen' = captureAnchor(props, scrollTop)
    BY <1>2, <2>1
  <2> QED
    BY <1>1, <1>2, <1>4, <1>8, <2>1, <2>2, FollowEnds
<1> QED
  BY <1>4, <1>5, <1>6, <1>7, <1>8 DEF Follows

LEMMA PaneStarts == PaneInit => PaneInv
<1> SUFFICES ASSUME PaneInit PROVE PaneInv
  OBVIOUS
<1>1. /\ props = [from |-> 1, to |-> 0, hasMore |-> TRUE, loadingMore |-> FALSE,
                  hasNewer |-> FALSE, loadingNewer |-> FALSE]
      /\ newest = 1 /\ scrollTop = 0 /\ scrollDue = FALSE /\ lastTop = 0
      /\ autoScroll = TRUE /\ anchor = NoRow
      /\ matchDue = FALSE
      /\ seen = NoRow /\ shifted = FALSE /\ wentUp = FALSE /\ jumped = FALSE
  BY DEF PaneInit
<1>2. props \in PaneProps /\ RowsOf(props) = {}
  BY <1>1 DEF PaneProps, RowsOf
<1>3. scrollHeight(props) = 0
  <2>1. BannerAbove(props) = 0 /\ BannerBelow(props) = 0 /\ Cardinality(RowsOf(props)) = 0
    BY <1>1, <1>2, FS_EmptySet DEF BannerAbove, BannerBelow
  <2> QED
    BY <2>1, PaneAssumption DEF scrollHeight
<1>4. PaneTypeOK
  <2>1. MaxTop(props) \in Nat
    BY <1>2, Geometry
  <2>2. 0 \in 0..MaxTop(props)
    BY <2>1
  <2> QED
    BY <1>1, <1>2, <2>2 DEF PaneTypeOK
<1>5. BufferHolds
  BY <1>1 DEF BufferHolds
<1>6. FollowHolds
  BY <1>1, <1>3, PaneAssumption DEF FollowHolds, atBottom
<1>7. SeenHolds
  BY <1>1 DEF SeenHolds
<1> QED
  BY <1>4, <1>5, <1>6, <1>7 DEF PaneInv

LEMMA PaneStep == PaneInv /\ [PaneNext]_paneVars => PaneInv'
<1> SUFFICES ASSUME PaneInv, [PaneNext]_paneVars PROVE PaneInv'
  OBVIOUS
<1>1. CASE LatestPage
  BY <1>1, LatestKeeps
<1>2. CASE LineWritten
  BY <1>2, WrittenKeeps
<1>3. CASE OlderLine
  BY <1>3, OlderKeeps
<1>4. CASE OlderEnds
  BY <1>4, OlderEndsKeep
<1>5. CASE NewerLost
  BY <1>5, NewerLostKeeps
<1>6. CASE handleScroll
  BY <1>6, ScrolledKeeps
<1>7. CASE handleWheel(ROW)
  BY <1>7, WheelKeeps
<1>8. CASE \E top \in 0..MaxTop(props) : Scroll(top)
  BY <1>8, ScrollKeeps
<1>9. CASE MatchEffect
  BY <1>9, MatchKeeps
<1>10. CASE \E lines \in Searches : Searched(lines, 0)
  BY <1>10, SearchedKeeps
<1>11. CASE \E delta \in {-1, 1} : stepTo(delta)
  BY <1>11, SearchedKeeps DEF stepTo
<1>12. CASE UNCHANGED paneVars
  BY <1>12 DEF paneVars, followVars, PaneInv, PaneTypeOK, BufferHolds, FollowHolds, SeenHolds, atBottom,
              RowsOf, MaxTop, scrollHeight, BannerAbove, BannerBelow, offsetTop
<1> QED
  BY <1>1, <1>2, <1>3, <1>4, <1>5, <1>6, <1>7, <1>8, <1>9, <1>10, <1>11, <1>12 DEF PaneNext

\* "At the bottom, follow new lines. Scrolled up, keep the anchored row where it was"
\* (LogStream.tsx:149-150): the row that was scrolled to stays where it was put, through any
\* number of lines and banners and the scrolls they cause, until the reader scrolls or a
\* search goes to a match (LogStream.tsx:137-141), and nothing else ends the following: for
\* every height of a row, of a banner and of the box, every limit on the lines and whatever
\* is searched for.
THEOREM PaneStays == PaneSpec => []PaneHolds
<1>1. PaneInv => PaneHolds
  BY DEF PaneInv, PaneTypeOK, FollowHolds, SeenHolds, PaneHolds
<1> QED
  BY PaneStarts, PaneStep, <1>1, PTL DEF PaneSpec

-----------------------------------------------------------------------------
(* The scopes of the page.                                                 *)

\* What a list is filtered to, element by element.
Filtering(u, n, seq, set) ==
  u = [i \in 0..n |-> IF i = 0 THEN <<>>
                      ELSE IF seq[i] \in set THEN Append(u[i - 1], seq[i]) ELSE u[i - 1]]

LEMMA FilteringExists ==
  ASSUME NEW n \in Nat, NEW seq, NEW set
  PROVE  \E u : Filtering(u, n, seq, set)
<1> DEFINE Bad == {k \in 0..n : ~\E u : Filtering(u, k, seq, set)}
<1>1. ASSUME NEW k \in Bad PROVE \E m \in Bad : m < k
  <2> SUFFICES ASSUME \A m \in 0..n : m < k => m \notin Bad PROVE FALSE
    OBVIOUS
  <2>1. CASE k = 0
    <3>1. Filtering([i \in 0..0 |-> <<>>], 0, seq, set)
      BY DEF Filtering
    <3> QED
      BY <2>1, <3>1
  <2>2. CASE k # 0
    <3>1. k - 1 \in 0..n /\ k - 1 < k
      BY <2>2
    <3>2. PICK u : Filtering(u, k - 1, seq, set)
      BY <3>1
    <3> DEFINE v == [i \in 0..k |-> IF i = 0 THEN <<>>
                                    ELSE IF seq[i] \in set THEN Append(u[i - 1], seq[i]) ELSE u[i - 1]]
    <3>3. ASSUME NEW i \in 0..(k - 1) PROVE v[i] = u[i]
      <4>1. u[i] = IF i = 0 THEN <<>>
                   ELSE IF seq[i] \in set THEN Append(u[i - 1], seq[i]) ELSE u[i - 1]
        BY <3>2 DEF Filtering
      <4>2. i \in 0..k
        BY <3>1
      <4> HIDE <3>2
      <4> QED
        BY <4>1, <4>2
    <3>4. ASSUME NEW i \in 0..k
          PROVE  v[i] = IF i = 0 THEN <<>>
                        ELSE IF seq[i] \in set THEN Append(v[i - 1], seq[i]) ELSE v[i - 1]
      <4>1. CASE i = 0
        BY <4>1
      <4>2. CASE i # 0
        <5>1. i - 1 \in 0..(k - 1)
          BY <3>1, <4>2
        <5>2. v[i - 1] = u[i - 1]
          <6> HIDE DEF v
          <6> QED
            BY <3>3, <5>1
        <5> QED
          BY <4>2, <5>2
      <4> QED
        BY <4>1, <4>2
    <3>5. v = [i \in 0..k |-> v[i]]
      OBVIOUS
    <3>6. Filtering(v, k, seq, set)
      <4> HIDE DEF v
      <4> QED
        BY <3>4, <3>5 DEF Filtering
    <3> QED
      BY <3>6
  <2> QED
    BY <2>1, <2>2
<1>2. Bad = {}
  <2> HIDE DEF Bad
  <2>1. Bad \in SUBSET Nat
    BY DEF Bad
  <2> QED
    BY <1>1, <2>1, NoLeast
<1>3. n \in 0..n
  OBVIOUS
<1> QED
  BY <1>2, <1>3

\* A filtered list has the elements of the list that are in the set.
LEMMA FilteredIs ==
  ASSUME NEW S, NEW seq \in Seq(S), NEW set
  PROVE  /\ FilteredTo(seq, set) \in Seq(S)
         /\ ToSet(FilteredTo(seq, set)) = ToSet(seq) \intersect set
<1> DEFINE m == Len(seq)
           kept == CHOOSE u : Filtering(u, m, seq, set)
           part(i) == {seq[j] : j \in 1..i} \intersect set
<1>1. m \in Nat /\ DOMAIN seq = 1..m
  OBVIOUS
<1>2. Filtering(kept, m, seq, set)
  BY <1>1, FilteringExists
<1>3. FilteredTo(seq, set) = kept[m]
  BY DEF FilteredTo, Filtering
<1> HIDE DEF kept
<1>4. kept[0] = <<>>
  BY <1>1, <1>2 DEF Filtering
<1>5. \A i \in 1..m : kept[i] = IF seq[i] \in set THEN Append(kept[i - 1], seq[i]) ELSE kept[i - 1]
  <2> TAKE i \in 1..m
  <2>1. i \in 0..m /\ i # 0
    BY <1>1
  <2> QED
    BY <1>2, <2>1 DEF Filtering
<1> DEFINE Good(i) == kept[i] \in Seq(S) /\ ToSet(kept[i]) = part(i)
           Bad == {i \in 0..m : ~Good(i)}
<1> HIDE DEF m
<1>6. ASSUME NEW i \in Bad PROVE \E j \in Bad : j < i
  <2> SUFFICES ASSUME \A j \in 0..m : j < i => Good(j) PROVE FALSE
    OBVIOUS
  <2>1. CASE i = 0
    <3>1. kept[0] \in Seq(S) /\ DOMAIN kept[0] = {}
      BY <1>4, EmptySeq
    <3>2. ToSet(kept[0]) = {} /\ part(0) = {}
      BY <3>1 DEF ToSet
    <3> QED
      BY <2>1, <3>1, <3>2
  <2>2. CASE i # 0
    <3>1. i \in 1..m /\ i - 1 \in 0..m /\ i - 1 < i
      BY <1>1, <2>2
    <3>2. kept[i - 1] \in Seq(S) /\ ToSet(kept[i - 1]) = part(i - 1)
      BY <3>1
    <3>3. seq[i] \in S
      BY <1>1, <3>1 DEF m
    <3>4. part(i) = IF seq[i] \in set THEN part(i - 1) \union {seq[i]} ELSE part(i - 1)
      <4>1. 1..i = 1..(i - 1) \union {i}
        BY <3>1, <1>1
      <4> QED
        BY <4>1
    <3>5. CASE seq[i] \in set
      <4> DEFINE s == kept[i - 1]
                 t == Append(s, seq[i])
      <4>1. kept[i] = t
        BY <1>5, <3>1, <3>5
      <4>2. t \in Seq(S) /\ Len(t) = Len(s) + 1 /\ Len(s) \in Nat
            /\ \A j \in 1..Len(t) : t[j] = IF j <= Len(s) THEN s[j] ELSE seq[i]
        BY <3>2, <3>3, AppendProperties
      <4>3. DOMAIN s = 1..Len(s) /\ DOMAIN t = 1..(Len(s) + 1)
        BY <3>2, <4>2
      <4>4. ToSet(t) = ToSet(s) \union {seq[i]}
        <5> HIDE DEF s, t
        <5>1. ASSUME NEW x \in ToSet(t) PROVE x \in ToSet(s) \union {seq[i]}
          BY <4>2, <4>3 DEF ToSet
        <5>2. ASSUME NEW x \in ToSet(s) PROVE x \in ToSet(t)
          <6>1. PICK j \in 1..Len(s) : x = s[j]
            BY <4>3 DEF ToSet
          <6>2. j \in 1..(Len(s) + 1) /\ t[j] = x
            BY <4>2, <6>1
          <6> QED
            BY <4>3, <6>2 DEF ToSet
        <5>3. seq[i] \in ToSet(t)
          <6>1. Len(s) + 1 \in 1..(Len(s) + 1) /\ t[Len(s) + 1] = seq[i]
            BY <4>2
          <6> QED
            BY <4>3, <6>1 DEF ToSet
        <5> QED
          BY <5>1, <5>2, <5>3
      <4> QED
        BY <3>2, <3>4, <3>5, <4>1, <4>2, <4>4
    <3>6. CASE seq[i] \notin set
      BY <1>5, <3>1, <3>2, <3>4, <3>6
    <3> QED
      BY <3>5, <3>6
  <2> QED
    BY <2>1, <2>2
<1>7. Bad = {}
  <2> HIDE DEF Bad
  <2>1. Bad \in SUBSET Nat
    BY <1>1 DEF Bad
  <2> QED
    BY <1>6, <2>1, NoLeast
<1>8. m \in 0..m
  BY <1>1
<1>9. Good(m)
  BY <1>7, <1>8
<1>10. part(m) = ToSet(seq) \intersect set
  BY <1>1 DEF ToSet
<1> QED
  BY <1>3, <1>9, <1>10

\* A scope of the page, by membership.
LEMMA ScopeIs ==
  ASSUME NEW S, NEW dgNodes \in Seq(S), NEW E, NEW dgEdges \in Seq(E), NEW stack, stack # Undefined
  PROVE  LET mine == filterGraphByStack(dgNodes, dgEdges, stack)
         IN /\ Ids(mine.nodes) = Ids(dgNodes) \intersect KeptIds(dgNodes, dgEdges, stack)
            /\ \A e : e \in ToSet(mine.edges) <=>
                        e \in ToSet(dgEdges) /\ {e.source, e.target} \subseteq Ids(mine.nodes)
<1> DEFINE kept == KeptIds(dgNodes, dgEdges, stack)
           nodes == FilteredTo(dgNodes, {n \in ToSet(dgNodes) : n.id \in kept})
           edges == FilteredTo(dgEdges, {e \in ToSet(dgEdges) : {e.source, e.target} \subseteq Ids(nodes)})
<1>1. filterGraphByStack(dgNodes, dgEdges, stack) = [nodes |-> nodes, edges |-> edges]
  BY DEF filterGraphByStack
<1> HIDE DEF kept
<1>2. ToSet(nodes) = ToSet(dgNodes) \intersect {n \in ToSet(dgNodes) : n.id \in kept}
  BY FilteredIs
<1> HIDE DEF nodes
<1>3. ToSet(edges) = ToSet(dgEdges) \intersect {e \in ToSet(dgEdges) : {e.source, e.target} \subseteq Ids(nodes)}
  BY FilteredIs
<1> HIDE DEF edges
<1>4. Ids(nodes) = Ids(dgNodes) \intersect kept
  <2>1. \A seq, x : x \in Ids(seq) <=> \E n \in ToSet(seq) : n.id = x
    BY DEF Ids, ToSet
  <2>2. \A n : n \in ToSet(nodes) <=> n \in ToSet(dgNodes) /\ n.id \in kept
    BY <1>2
  <2> QED
    BY <2>1, <2>2
<1> QED
  BY <1>1, <1>3, <1>4 DEF kept

\* Ids and the elements that have them.
LEMMA HasIdIs ==
  ASSUME NEW seq, NEW id
  PROVE  /\ HasId(seq, id) <=> id \in Ids(seq)
         /\ id \in Ids(seq) <=> \E n \in ToSet(seq) : n.id = id
BY DEF HasId, Ids, ToSet

\* In a proper graph an id is of one node.
LEMMA OneNode ==
  ASSUME NEW dgNodes, NEW dgEdges, ProperGraph(dgNodes, dgEdges),
         NEW m \in ToSet(dgNodes), NEW n \in ToSet(dgNodes), m.id = n.id
  PROVE  m = n
BY DEF ProperGraph, ToSet

LEMMA ScopeNamed ==
  ASSUME NEW n
  PROVE  ScopeName(n) # Undefined
BY StacksAssumption DEF ScopeName

\* A workload is kept in the scope of its own stack and in no other.
LEMMA KeptInOwn ==
  ASSUME NEW dgNodes, NEW dgEdges, ProperGraph(dgNodes, dgEdges),
         NEW n \in ToSet(dgNodes), isWorkload(n), NEW stack
  PROVE  n.id \in KeptIds(dgNodes, dgEdges, stack) <=> stack = ScopeName(n)
<1> DEFINE own == {m \in ToSet(dgNodes) : isWorkload(m) /\ m.id \in OwnIds(dgNodes, stack)}
           all == {m.id : m \in {k \in ToSet(dgNodes) : isWorkload(k)}}
<1>1. n.id \in all
  OBVIOUS
<1>2. n.type # "swarmnode"
  BY DEF isWorkload
<1>3. n.id \in OwnIds(dgNodes, stack) <=> stack = ScopeName(n)
  <2>1. ASSUME n.id \in OwnIds(dgNodes, stack) PROVE stack = ScopeName(n)
    <3>1. PICK m \in ToSet(dgNodes) :
            m.id = n.id /\ (m.type = "swarmnode" \/ inStack(m, stack))
      BY <2>1 DEF OwnIds
    <3>2. m = n
      BY <3>1, OneNode
    <3> QED
      BY <1>2, <3>1, <3>2 DEF inStack
  <2>2. ASSUME stack = ScopeName(n) PROVE n.id \in OwnIds(dgNodes, stack)
    BY <2>2 DEF OwnIds, inStack
  <2> QED
    BY <2>1, <2>2
<1>4. \A m \in own : m.networkId \notin all
  BY DEF ProperGraph
<1>5. \A e \in ToSet(dgEdges) : /\ e.type = "secondary_network" => e.target \notin all
                                /\ e.type = "volume_mount" => e.source \notin all
  BY DEF ProperGraph
<1> HIDE DEF all
<1> QED
  BY <1>1, <1>3, <1>4, <1>5 DEF KeptIds

\* "Keeps the stack's own nodes, plus any network or volume a kept workload references,
\* plus the edges whose ends both survive" (stack.ts:191-193), for any proper graph.
THEOREM ScopesAreWhole ==
  ASSUME NEW S, NEW dgNodes \in Seq(S), NEW E, NEW dgEdges \in Seq(E), ProperGraph(dgNodes, dgEdges)
  PROVE  ScopesSplit(dgNodes, dgEdges)
<1> DEFINE inScope(stack) == filterGraphByStack(dgNodes, dgEdges, stack)
           stacks == {summary.name : summary \in listStacks(dgNodes)}
<1>1. stacks = {ScopeName(n) : n \in {m \in ToSet(dgNodes) : isWorkload(m)}}
  <2> DEFINE names == {ScopeName(n) : n \in {m \in ToSet(dgNodes) : isWorkload(m)}}
             works(name) == {i \in DOMAIN dgNodes : isWorkload(dgNodes[i]) /\ ScopeName(dgNodes[i]) = name}
             row(name) == [name |-> name, total |-> Cardinality(works(name)),
                           running |-> Cardinality({i \in works(name) : dgNodes[i].status = "running"})]
  <2>1. listStacks(dgNodes) = {row(name) : name \in names}
    BY DEF listStacks
  <2>2. \A name : row(name).name = name
    OBVIOUS
  <2> HIDE DEF row, names
  <2>3. ASSUME NEW x PROVE x \in stacks <=> x \in names
    <3>1. x \in stacks <=> \E summary \in listStacks(dgNodes) : x = summary.name
      OBVIOUS
    <3>2. \A summary : summary \in listStacks(dgNodes) <=> \E name \in names : summary = row(name)
      BY <2>1
    <3> HIDE DEF stacks
    <3> QED
      BY <2>2, <3>1, <3>2
  <2> HIDE DEF stacks
  <2> QED
    BY <2>3 DEF names
<1>2. \A stack \in stacks : stack # Undefined
  BY <1>1, ScopeNamed
<1> SUFFICES ASSUME NEW node \in ToSet(dgNodes), isWorkload(node)
             PROVE  /\ {stack \in stacks : HasId(inScope(stack).nodes, node.id)} = {ScopeName(node)}
                    /\ HasId(dgNodes, node.networkId) => HasId(inScope(ScopeName(node)).nodes, node.networkId)
                    /\ \A e \in ToSet(dgEdges) :
                         /\ e.type # "depends_on" /\ node.id \in {e.source, e.target}
                         /\ {e.source, e.target} \subseteq Ids(dgNodes)
                         => e \in ToSet(inScope(ScopeName(node)).edges)
                    /\ \A e \in ToSet(inScope(ScopeName(node)).edges) :
                         {e.source, e.target} \subseteq Ids(inScope(ScopeName(node)).nodes)
  BY DEF ScopesSplit
<1> DEFINE kept(stack) == KeptIds(dgNodes, dgEdges, stack)
           home == ScopeName(node)
<1>3. node.id \in Ids(dgNodes)
  BY HasIdIs
<1>4. ASSUME NEW stack, stack # Undefined
      PROVE  /\ \A id : id \in Ids(inScope(stack).nodes) <=> id \in Ids(dgNodes) /\ id \in kept(stack)
             /\ \A e : e \in ToSet(inScope(stack).edges) <=>
                         e \in ToSet(dgEdges) /\ {e.source, e.target} \subseteq Ids(inScope(stack).nodes)
  BY <1>4, ScopeIs
<1>5. \A stack : node.id \in kept(stack) <=> stack = home
  BY KeptInOwn
<1>6. home \in stacks /\ home # Undefined
  BY <1>1, ScopeNamed
<1> HIDE DEF stacks, inScope, kept
<1>7. {stack \in stacks : HasId(inScope(stack).nodes, node.id)} = {home}
  <2>1. \A stack \in stacks : HasId(inScope(stack).nodes, node.id) <=> stack = home
    <3> TAKE stack \in stacks
    <3>1. node.id \in Ids(inScope(stack).nodes) <=> node.id \in kept(stack)
      BY <1>2, <1>3, <1>4
    <3> QED
      BY <1>5, <3>1, HasIdIs
  <2> HIDE DEF home
  <2> QED
    BY <1>6, <2>1
<1>8. HasId(dgNodes, node.networkId) => HasId(inScope(home).nodes, node.networkId)
  <2>1. node.id \in OwnIds(dgNodes, home)
    BY DEF OwnIds, inStack
  <2>2. node.networkId \in kept(home)
    BY <2>1 DEF kept, KeptIds
  <2> QED
    BY <1>4, <1>6, <2>2, HasIdIs
<1>9. ASSUME NEW e \in ToSet(dgEdges), e.type # "depends_on", node.id \in {e.source, e.target},
             {e.source, e.target} \subseteq Ids(dgNodes)
      PROVE  e \in ToSet(inScope(home).edges)
  <2> DEFINE works == {n \in ToSet(dgNodes) : isWorkload(n) /\ n.id \in OwnIds(dgNodes, home)}
             ids == {n.id : n \in works}
  <2>1. node.id \in OwnIds(dgNodes, home)
    BY DEF OwnIds, inStack
  <2>2. node.id \in ids /\ node.id \in kept(home)
    BY <1>5, <2>1
  <2>3. CASE e.type = "secondary_network"
    <3>1. node.id = e.source
      BY <1>9, <2>3 DEF ProperGraph
    <3>2. e.target \in kept(home)
      BY <2>2, <2>3, <3>1 DEF kept, KeptIds
    <3> QED
      BY <1>4, <1>6, <1>9, <2>2, <3>1, <3>2
  <2>4. CASE e.type = "volume_mount"
    <3>1. node.id = e.target
      BY <1>9, <2>4 DEF ProperGraph
    <3>2. e.source \in kept(home)
      BY <2>2, <2>4, <3>1 DEF kept, KeptIds
    <3> QED
      BY <1>4, <1>6, <1>9, <2>2, <3>1, <3>2
  <2>5. e.type \in {"depends_on", "secondary_network", "volume_mount"}
    BY DEF ProperGraph
  <2> QED
    BY <1>9, <2>3, <2>4, <2>5
<1>10. \A e \in ToSet(inScope(home).edges) : {e.source, e.target} \subseteq Ids(inScope(home).nodes)
  BY <1>4, <1>6
<1> QED
  BY <1>7, <1>8, <1>9, <1>10 DEF inScope

-----------------------------------------------------------------------------
(* Short names.                                                            *)

\* The words of a concatenation.
LEMMA WordsOf ==
  ASSUME NEW Word, NEW s \in Seq(Word), NEW t \in Seq(Word)
  PROVE  /\ s \o t \in Seq(Word)
         /\ Len(s \o t) = Len(s) + Len(t)
         /\ \A i \in 1..Len(s) : (s \o t)[i] = s[i]
         /\ \A i \in 1..Len(t) : (s \o t)[Len(s) + i] = t[i]
OBVIOUS

\* A beginning, word by word.
LEMMA PrefixIs ==
  ASSUME NEW Word, NEW s \in Seq(Word), NEW t \in Seq(Word)
  PROVE  IsPrefix(s, t) <=> Len(s) <= Len(t) /\ \A i \in 1..Len(s) : s[i] = t[i]
<1>1. CASE Len(s) <= Len(t)
  <2>1. /\ SubSeq(s, 1, Len(s)) \in Seq(Word) /\ SubSeq(t, 1, Len(s)) \in Seq(Word)
        /\ Len(SubSeq(s, 1, Len(s))) = Len(s) /\ Len(SubSeq(t, 1, Len(s))) = Len(s)
        /\ \A i \in 1..Len(s) : SubSeq(s, 1, Len(s))[i] = s[i] /\ SubSeq(t, 1, Len(s))[i] = t[i]
    BY <1>1
  <2>2. SubSeq(s, 1, Len(s)) = SubSeq(t, 1, Len(s))
          <=> \A i \in 1..Len(s) : SubSeq(s, 1, Len(s))[i] = SubSeq(t, 1, Len(s))[i]
    BY <2>1, SeqEqual
  <2> QED
    BY <1>1, <2>1, <2>2 DEF IsPrefix
<1>2. CASE ~(Len(s) <= Len(t))
  BY <1>2 DEF IsPrefix
<1> QED
  BY <1>1, <1>2

\* The name of a workload of another stack begins with this stack's name, a dash, the
\* short name and a dash only when the other's name goes on from this one's.
LEMMA GoesOn ==
  ASSUME NEW Word, Underscore \in Word, Dash \in Word, First \in Word,
         NEW s \in Seq(Word), NEW o \in Seq(Word), NEW base \in Seq(Word), NEW name,
         \/ name = o \o <<Underscore>> \o base
         \/ name = o \o <<Dash>> \o base \o <<Dash, First>>,
         IsPrefix(s \o <<Dash>> \o base \o <<Dash>>, name)
  PROVE  s = o \/ IsPrefix(s \o <<Dash>>, o)
<1> DEFINE dashed == s \o <<Dash>>
           short == dashed \o base
           entire == short \o <<Dash>>
<1>1. <<Dash>> \in Seq(Word) /\ <<Underscore>> \in Seq(Word) /\ <<Dash, First>> \in Seq(Word)
      /\ Len(<<Dash>>) = 1 /\ Len(<<Underscore>>) = 1 /\ Len(<<Dash, First>>) = 2
  OBVIOUS
<1>2. /\ dashed \in Seq(Word) /\ Len(dashed) = Len(s) + 1
      /\ \A i \in 1..Len(s) : dashed[i] = s[i]
  BY <1>1, WordsOf
<1> HIDE DEF dashed
<1>3. /\ short \in Seq(Word) /\ Len(short) = Len(dashed) + Len(base)
      /\ \A i \in 1..Len(dashed) : short[i] = dashed[i]
  BY <1>1, <1>2, WordsOf, ZenonT(60)
<1> HIDE DEF short
<1>4. /\ entire \in Seq(Word) /\ Len(entire) = Len(short) + 1
      /\ \A i \in 1..Len(short) : entire[i] = short[i]
      /\ entire[Len(short) + 1] = Dash
  <2>1. /\ entire \in Seq(Word) /\ Len(entire) = Len(short) + 1
        /\ \A i \in 1..Len(short) : entire[i] = short[i]
        /\ \A i \in 1..1 : entire[Len(short) + i] = <<Dash>>[i]
    BY <1>1, <1>3, WordsOf
  <2> QED
    BY <2>1
<1> HIDE DEF entire
<1>5. Len(s) \in Nat /\ Len(o) \in Nat /\ Len(base) \in Nat
  OBVIOUS
<1>6. \A i \in 1..(Len(s) + 1) : entire[i] = dashed[i]
  BY <1>2, <1>3, <1>4, <1>5
<1>7. IsPrefix(entire, name)
  BY DEF entire, short, dashed
<1>8. CASE name = o \o <<Underscore>> \o base
  <2> DEFINE under == o \o <<Underscore>>
  <2>1. /\ under \in Seq(Word) /\ Len(under) = Len(o) + 1 /\ \A i \in 1..Len(o) : under[i] = o[i]
    BY <1>1, WordsOf
  <2>2. name = under \o base
    BY <1>8
  <2> HIDE DEF under
  <2>3. /\ name \in Seq(Word) /\ Len(name) = Len(under) + Len(base)
        /\ \A i \in 1..Len(under) : name[i] = under[i]
    BY <2>1, <2>2, WordsOf
  <2>4. Len(entire) <= Len(name) /\ \A i \in 1..Len(entire) : entire[i] = name[i]
    <3>1. entire \in Seq(Word) /\ name \in Seq(Word)
      BY <1>4, <2>3
    <3> QED
      BY <1>7, <3>1, PrefixIs
  <2>5. Len(dashed) <= Len(o)
    BY <1>2, <1>3, <1>4, <1>5, <2>1, <2>3, <2>4
  <2>6. ASSUME NEW i \in 1..Len(dashed) PROVE dashed[i] = o[i]
    <3>1. i \in 1..Len(o) /\ i \in 1..Len(under) /\ i \in 1..Len(entire) /\ i \in 1..(Len(s) + 1)
      BY <1>2, <1>3, <1>4, <1>5, <2>1, <2>5
    <3> QED
      BY <1>6, <2>1, <2>3, <2>4, <3>1
  <2> QED
    BY <1>2, <2>5, <2>6, PrefixIs DEF dashed
<1>9. CASE name = o \o <<Dash>> \o base \o <<Dash, First>>
  <2> DEFINE line == o \o <<Dash>>
             longer == line \o base
  <2>1. /\ line \in Seq(Word) /\ Len(line) = Len(o) + 1 /\ \A i \in 1..Len(o) : line[i] = o[i]
    BY <1>1, WordsOf
  <2>2. name = longer \o <<Dash, First>>
    BY <1>9
  <2> HIDE DEF line
  <2>3. /\ longer \in Seq(Word) /\ Len(longer) = Len(line) + Len(base)
        /\ \A i \in 1..Len(line) : longer[i] = line[i]
    BY <2>1, WordsOf, ZenonT(60)
  <2> HIDE DEF longer
  <2>4. /\ name \in Seq(Word) /\ Len(name) = Len(longer) + 2
        /\ \A i \in 1..Len(longer) : name[i] = longer[i]
        /\ name[Len(longer) + 2] = First
    <3>1. /\ name \in Seq(Word) /\ Len(name) = Len(longer) + 2
          /\ \A i \in 1..Len(longer) : name[i] = longer[i]
          /\ \A i \in 1..2 : name[Len(longer) + i] = <<Dash, First>>[i]
      BY <1>1, <2>2, <2>3, WordsOf
    <3> QED
      BY <3>1
  <2>5. Len(entire) <= Len(name) /\ \A i \in 1..Len(entire) : entire[i] = name[i]
    <3>1. entire \in Seq(Word) /\ name \in Seq(Word)
      BY <1>4, <2>4
    <3> QED
      BY <1>7, <3>1, PrefixIs
  <2>6. Len(entire) # Len(name)
    <3>1. ASSUME Len(entire) = Len(name) PROVE FALSE
      <4>1. Len(short) + 1 = Len(longer) + 2
        BY <1>3, <1>4, <2>3, <2>4, <3>1
      <4>2. entire[Len(short) + 1] = name[Len(longer) + 2]
        BY <1>3, <1>4, <2>5, <4>1
      <4>3. Dash # First
        BY DEF Dash, First
      <4> QED
        BY <1>4, <2>4, <4>2, <4>3
    <3> QED
      BY <3>1
  <2>7. Len(s) <= Len(o)
    BY <1>2, <1>3, <1>4, <1>5, <2>1, <2>3, <2>4, <2>5, <2>6
  <2>8. \A i \in 1..Len(o) : name[i] = o[i]
    BY <1>5, <2>1, <2>3, <2>4
  <2>9. CASE Len(s) = Len(o)
    <3>1. ASSUME NEW i \in 1..Len(s) PROVE s[i] = o[i]
      <4>1. i \in 1..Len(o) /\ i \in 1..Len(entire) /\ i \in 1..(Len(s) + 1)
        BY <1>2, <1>3, <1>4, <1>5, <2>9
      <4> QED
        BY <1>2, <1>6, <2>5, <2>8, <4>1
    <3> QED
      BY <2>9, <3>1, SeqEqual
  <2>10. CASE Len(s) < Len(o)
    <3>1. Len(dashed) <= Len(o)
      BY <1>2, <1>5, <2>10
    <3>2. \A i \in 1..Len(dashed) : dashed[i] = o[i]
      <4>1. ASSUME NEW i \in 1..Len(dashed) PROVE dashed[i] = o[i]
        <5>1. i \in 1..Len(o) /\ i \in 1..Len(entire) /\ i \in 1..(Len(s) + 1)
          BY <1>2, <1>3, <1>4, <1>5, <3>1
        <5> QED
          BY <1>6, <2>5, <2>8, <5>1
      <4> QED
        BY <4>1
    <3> QED
      BY <1>2, <3>1, <3>2, PrefixIs DEF dashed
  <2> QED
    BY <1>5, <2>7, <2>9, <2>10
<1> QED
  BY <1>8, <1>9

\* What Docker calls a workload of a stack is a name in the stack.
LEMMA SameIsNamed ==
  ASSUME NEW Word, Underscore \in Word, Dash \in Word, First \in Word,
         NEW stack, Spelling[stack] \in Seq(Word), NEW base \in Seq(Word),
         NEW name \in SameNames(stack, base)
  PROVE  NamedInStack(name, base, stack) /\ name # base
<1> DEFINE o == Spelling[stack]
           line == o \o <<Dash>>
           longer == line \o base
           entire == longer \o <<Dash>>
           full == longer \o <<Dash, First>>
           under == o \o <<Underscore>>
           swarm == under \o base
<1>1. <<Dash>> \in Seq(Word) /\ <<Underscore>> \in Seq(Word) /\ <<Dash, First>> \in Seq(Word)
      /\ Len(<<Dash>>) = 1 /\ Len(<<Underscore>>) = 1 /\ Len(<<Dash, First>>) = 2
  OBVIOUS
<1>2. line \in Seq(Word) /\ Len(line) = Len(o) + 1
  BY <1>1, WordsOf
<1> HIDE DEF line
<1>3. longer \in Seq(Word) /\ Len(longer) = Len(line) + Len(base)
  BY <1>2, WordsOf
<1> HIDE DEF longer
<1>4. /\ entire \in Seq(Word) /\ Len(entire) = Len(longer) + 1
      /\ \A i \in 1..Len(longer) : entire[i] = longer[i]
      /\ \A i \in 1..Len(<<Dash>>) : entire[Len(longer) + i] = <<Dash>>[i]
  BY <1>1, <1>3, WordsOf
<1>5. /\ full \in Seq(Word) /\ Len(full) = Len(longer) + 2
      /\ \A i \in 1..Len(longer) : full[i] = longer[i]
      /\ \A i \in 1..Len(<<Dash, First>>) : full[Len(longer) + i] = <<Dash, First>>[i]
  BY <1>1, <1>3, WordsOf
<1>6. under \in Seq(Word) /\ Len(under) = Len(o) + 1
  BY <1>1, WordsOf
<1> HIDE DEF under
<1>7. Len(swarm) = Len(under) + Len(base)
  BY <1>6, WordsOf
<1>8. Len(base) \in Nat /\ Len(o) \in Nat
  OBVIOUS
<1>9. name = swarm \/ name = full
  BY DEF SameNames, SwarmName, ComposeName, swarm, under, full, longer, line
<1>10. name # base
  BY <1>2, <1>3, <1>5, <1>6, <1>7, <1>8, <1>9
<1>11. CASE name = swarm
  BY <1>10, <1>11 DEF NamedInStack, SwarmName, swarm, under
<1>12. CASE name = full
  <2>1. entire[Len(longer) + 1] = full[Len(longer) + 1]
    BY <1>4, <1>5
  <2> HIDE DEF entire, full
  <2>2. Len(longer) \in Nat
    BY <1>3
  <2> HIDE DEF longer
  <2>3. ASSUME NEW i \in 1..Len(entire) PROVE entire[i] = full[i]
    <3>1. i \in 1..Len(longer) \/ i = Len(longer) + 1
      BY <1>4, <2>2
    <3> QED
      BY <1>4, <1>5, <2>1, <3>1
  <2>4. Len(entire) <= Len(full)
    BY <1>4, <1>5, <2>2
  <2>5. IsPrefix(entire, full)
    BY <1>4, <1>5, <2>3, <2>4, PrefixIs
  <2> QED
    BY <1>10, <1>12, <2>5 DEF NamedInStack, entire, longer, line
<1> QED
  BY <1>9, <1>10, <1>11, <1>12

\* What a node is worth to a short name used in a stack.
LEMMA WorthIs ==
  ASSUME NEW n, NEW stack, stack # Undefined, NEW base, BaseName(base) = base,
         NEW wanted \in {"container", "service"}, TypeRank(wanted, n.type) < 2
  PROVE  LET worth == score(n, base, stack) - TypeRank(wanted, n.type)
         IN /\ isWorkload(n)
            /\ worth \in Int /\ worth <= 400
            /\ NamedInStack(n.name, base, stack) => worth >= 299
            /\ worth >= 299 => NamedInStack(n.name, base, stack) \/ n.name = base
            /\ worth >= 299 => score(n, base, stack) > 0
<1>1. TypeRank(wanted, n.type) \in {0, 1} /\ isWorkload(n)
  BY DEF TypeRank, isWorkload
<1>2. score(n, base, stack) =
        IF n.name = base THEN 400
        ELSE IF NamedInStack(n.name, base, stack) THEN 300
        ELSE IF EndsIn(n.name, base)
        THEN IF projectOf(n) = stack THEN 200 ELSE 100
        ELSE 0
  BY DEF score
<1> QED
  BY <1>1, <1>2

\* "Candidates in `contextStack' win over same-named workloads in other stacks"
\* (stack.ts:250), as far as it is so, for any proper graph and any stacks: a short name
\* used in a stack that has such a workload means a workload called exactly so or one whose
\* name begins with the stack's and the short one, and the same-named workload of another
\* stack only where that stack's name goes on from this one's.
THEOREM NamesStayHome ==
  ASSUME NEW Word, Underscore \in Word, Dash \in Word, First \in Word,
         NEW S, NEW dgNodes \in Seq(S), NEW dgEdges, ProperGraph(dgNodes, dgEdges),
         NEW stacks, Undefined \notin stacks, \A stack \in stacks : Spelling[stack] \in Seq(Word),
         NEW bases \in SUBSET Seq(Word), \A base \in bases : BaseName(base) = base
  PROVE  RefsStayHome(dgNodes, stacks, bases)
<1> SUFFICES ASSUME NEW stack \in stacks, NEW base \in bases, NEW type \in {"container", "service"},
                    NEW ref, ref = [type |-> type, name |-> base, id |-> Undefined],
                    NEW there, there \in ToSet(dgNodes), isWorkload(there),
                    there.name \in SameNames(stack, base)
             PROVE  LET found == resolveNodeRef(dgNodes, ref, stack)
                        name == ById(dgNodes, found).name
                    IN /\ HasId(dgNodes, found)
                       /\ name = base \/ NamedInStack(name, base, stack)
                       /\ \A other \in stacks :
                            name \in SameNames(other, base) \ SameNames(stack, base) =>
                              IsPrefix(Spelling[stack] \o <<Dash>>, Spelling[other])
  BY DEF RefsStayHome
<1> DEFINE rank(i) == TypeRank(type, dgNodes[i].type)
           candidates == {i \in DOMAIN dgNodes : rank(i) < 2 /\ score(dgNodes[i], base, stack) > 0}
           worth(i) == score(dgNodes[i], base, stack) - rank(i)
           best == {i \in candidates : \A j \in candidates : worth(i) >= worth(j)}
<1>1. DOMAIN dgNodes = 1..Len(dgNodes) /\ Len(dgNodes) \in Nat
  OBVIOUS
<1>2. \A i \in DOMAIN dgNodes :
        rank(i) < 2 =>
          /\ isWorkload(dgNodes[i])
          /\ worth(i) \in Int /\ worth(i) <= 400
          /\ NamedInStack(dgNodes[i].name, base, stack) => worth(i) >= 299
          /\ worth(i) >= 299 => NamedInStack(dgNodes[i].name, base, stack) \/ dgNodes[i].name = base
          /\ worth(i) >= 299 => score(dgNodes[i], base, stack) > 0
  BY WorthIs
<1>3. PICK h \in DOMAIN dgNodes : dgNodes[h] = there
  BY DEF ToSet
<1>4. NamedInStack(there.name, base, stack)
  BY SameIsNamed
<1>5. rank(h) < 2
  BY <1>3 DEF TypeRank, isWorkload
<1>6. h \in candidates /\ worth(h) >= 299
  BY <1>2, <1>3, <1>4, <1>5
<1>7. best # {}
  <2> DEFINE lacks == {400 - worth(i) : i \in candidates}
  <2>1. lacks \in SUBSET Nat /\ lacks # {}
    <3> HIDE DEF worth, rank
    <3> QED
      BY <1>2, <1>6
  <2>2. Min(lacks) \in lacks /\ \A k \in lacks : Min(lacks) <= k
    <3> HIDE DEF lacks
    <3> QED
      BY <2>1, MinIs
  <2>3. PICK i \in candidates : Min(lacks) = 400 - worth(i)
    BY <2>2
  <2>4. \A j \in candidates : worth(i) >= worth(j)
    <3> TAKE j \in candidates
    <3>1. worth(i) \in Int /\ worth(j) \in Int
      BY <1>2
    <3> HIDE DEF worth, rank, candidates
    <3>2. 400 - worth(i) <= 400 - worth(j)
      BY <2>2, <2>3
    <3> QED
      BY <3>1, <3>2
  <2> QED
    BY <2>4
<1>8. Min(best) \in best
  <2>1. best \in SUBSET Nat
    BY <1>1
  <2> HIDE DEF best
  <2> QED
    BY <1>7, <2>1, MinIs
<1> DEFINE b == Min(best)
<1>9. ~HasId(dgNodes, ref.id)
  BY DEF ProperGraph
<1>10. resolveNodeRef(dgNodes, ref, stack) = dgNodes[b].id
  BY <1>6, <1>9 DEF resolveNodeRef
<1>11. b \in DOMAIN dgNodes /\ rank(b) < 2 /\ worth(b) >= 299
  <2>1. b \in candidates /\ worth(b) >= worth(h)
    BY <1>6, <1>8
  <2>2. worth(b) \in Int /\ worth(h) \in Int
    BY <1>2, <1>6, <2>1
  <2> HIDE DEF b, worth
  <2> QED
    BY <1>6, <2>1, <2>2
<1> HIDE DEF b, best, candidates
<1>12. ById(dgNodes, dgNodes[b].id) = dgNodes[b]
  <2> DEFINE same == {i \in DOMAIN dgNodes : dgNodes[i].id = dgNodes[b].id}
  <2>1. same = {b}
    BY <1>11 DEF ProperGraph
  <2>2. same \in SUBSET Nat /\ same # {}
    BY <1>1, <1>11, <2>1
  <2>3. Min(same) \in same
    <3> HIDE DEF same
    <3> QED
      BY <2>2, MinIs
  <2> QED
    BY <2>1, <2>3 DEF ById
<1>13. HasId(dgNodes, dgNodes[b].id) /\ dgNodes[b] \in ToSet(dgNodes)
  BY <1>11 DEF HasId, ToSet
<1> DEFINE name == dgNodes[b].name
<1>14. name = base \/ NamedInStack(name, base, stack)
  BY <1>2, <1>11
<1> HIDE DEF name
<1>15. ASSUME NEW other \in stacks, name \in SameNames(other, base), name \notin SameNames(stack, base)
       PROVE  IsPrefix(Spelling[stack] \o <<Dash>>, Spelling[other])
  <2>1. name # base
    BY <1>15, SameIsNamed
  <2>2. name # SwarmName(stack, base)
    BY <1>15 DEF SameNames
  <2>3. IsPrefix(Spelling[stack] \o <<Dash>> \o base \o <<Dash>>, name)
    BY <1>14, <2>1, <2>2 DEF NamedInStack
  <2>4. \/ name = Spelling[other] \o <<Underscore>> \o base
        \/ name = Spelling[other] \o <<Dash>> \o base \o <<Dash, First>>
    BY <1>15 DEF SameNames, SwarmName, ComposeName
  <2>5. Spelling[stack] # Spelling[other]
    BY <1>15 DEF SameNames, SwarmName, ComposeName
  <2> QED
    BY <2>3, <2>4, <2>5, GoesOn
<1> QED
  BY <1>10, <1>12, <1>13, <1>14, <1>15 DEF name

-----------------------------------------------------------------------------
(* What stays lit.                                                         *)

\* What can be reached from each place by steps that go down.
Reaches(u, D, next) == u = [g \in D |-> next[g] \union UNION {u[h] : h \in next[g]}]
Descends(D, next, rank) ==
  /\ next \in [D -> SUBSET D] /\ rank \in [D -> Nat]
  /\ \A g \in D : \A h \in next[g] : rank[h] < rank[g]

LEMMA ReachExists ==
  ASSUME NEW D, NEW next, NEW rank, Descends(D, next, rank), NEW n \in Nat, \A g \in D : rank[g] <= n
  PROVE  \E u : Reaches(u, D, next)
<1> DEFINE low(k) == {g \in D : rank[g] <= k}
           Bad == {k \in 0..n : ~\E u : Reaches(u, low(k), next)}
<1>1. ASSUME NEW k \in Bad PROVE \E m \in Bad : m < k
  <2> SUFFICES ASSUME \A m \in 0..n : m < k => m \notin Bad PROVE FALSE
    OBVIOUS
  <2>1. CASE k = 0
    <3> DEFINE u == [g \in low(0) |-> {}]
    <3>1. \A g \in low(0) : next[g] = {}
      <4> SUFFICES ASSUME NEW g \in low(0), NEW h \in next[g] PROVE FALSE
        OBVIOUS
      <4>1. h \in D /\ rank[h] \in Nat /\ rank[h] < rank[g] /\ rank[g] \in Nat /\ rank[g] <= 0
        BY DEF Descends
      <4> QED
        BY <4>1
    <3>2. \A g \in low(0) : {} = next[g] \union UNION {u[h] : h \in next[g]}
      <4> TAKE g \in low(0)
      <4>1. UNION {u[h] : h \in {}} = {}
        OBVIOUS
      <4> QED
        BY <3>1, <4>1
    <3>3. Reaches(u, low(0), next)
      <4>1. [g \in low(0) |-> {}] = [g \in low(0) |-> next[g] \union UNION {u[h] : h \in next[g]}]
        <5> HIDE DEF u, low
        <5> QED
          BY <3>2
      <4> QED
        BY <4>1 DEF Reaches
    <3> QED
      BY <2>1, <3>3
  <2>2. CASE k # 0
    <3>1. k - 1 \in 0..n /\ k - 1 < k
      BY <2>2
    <3>2. PICK u : Reaches(u, low(k - 1), next)
      BY <3>1
    <3> DEFINE v == [g \in low(k) |-> next[g] \union UNION {u[h] : h \in next[g]}]
    <3>3. \A g \in low(k) : \A h \in next[g] : h \in low(k - 1) /\ h \in low(k)
      <4> SUFFICES ASSUME NEW g \in low(k), NEW h \in next[g] PROVE h \in low(k - 1) /\ h \in low(k)
        OBVIOUS
      <4>1. h \in D /\ rank[h] \in Nat /\ rank[h] < rank[g] /\ rank[g] \in Nat /\ rank[g] <= k
        BY DEF Descends
      <4> QED
        BY <3>1, <4>1
    <3>4. ASSUME NEW g \in low(k - 1) PROVE v[g] = u[g]
      <4>1. g \in low(k)
        <5>1. rank[g] \in Nat /\ rank[g] <= k - 1
          BY DEF Descends
        <5> QED
          BY <3>1, <5>1
      <4>2. u[g] = next[g] \union UNION {u[h] : h \in next[g]}
        BY <3>2 DEF Reaches
      <4> HIDE <3>2
      <4> QED
        BY <4>1, <4>2
    <3>5. ASSUME NEW g \in low(k) PROVE v[g] = next[g] \union UNION {v[h] : h \in next[g]}
      <4>1. \A h \in next[g] : v[h] = u[h]
        <5> HIDE DEF v
        <5> QED
          BY <3>3, <3>4
      <4>2. {v[h] : h \in next[g]} = {u[h] : h \in next[g]}
        <5> HIDE DEF v
        <5> QED
          BY <4>1
      <4>3. v[g] = next[g] \union UNION {u[h] : h \in next[g]}
        OBVIOUS
      <4> HIDE DEF v
      <4> QED
        BY <4>2, <4>3
    <3>6. v = [g \in low(k) |-> v[g]]
      OBVIOUS
    <3>7. Reaches(v, low(k), next)
      <4> HIDE DEF v, low
      <4> QED
        BY <3>5, <3>6 DEF Reaches
    <3> QED
      BY <3>7
  <2> QED
    BY <2>1, <2>2
<1>2. Bad = {}
  <2> HIDE DEF Bad
  <2>1. Bad \in SUBSET Nat
    BY DEF Bad
  <2> QED
    BY <1>1, <2>1, NoLeast
<1>3. n \in 0..n /\ low(n) = D
  OBVIOUS
<1> QED
  BY <1>2, <1>3

\* Whatever is true of a place when it is true of those a step away is true of all.
LEMMA GoingDown ==
  ASSUME NEW D, NEW next, NEW rank, Descends(D, next, rank),
         NEW Good, \A g \in D : (\A h \in next[g] : h \in Good) => g \in Good
  PROVE  D \subseteq Good
<1> DEFINE Bad == {rank[g] : g \in D \ Good}
<1>1. Bad \in SUBSET Nat
  BY DEF Descends
<1>2. ASSUME NEW n \in Bad PROVE \E m \in Bad : m < n
  <2>1. PICK g \in D \ Good : n = rank[g]
    OBVIOUS
  <2>2. PICK h \in next[g] : h \notin Good
    BY <2>1
  <2>3. h \in D /\ rank[h] < rank[g]
    BY DEF Descends
  <2> QED
    BY <2>1, <2>2, <2>3
<1>3. Bad = {}
  <2> HIDE DEF Bad
  <2> QED
    BY <1>1, <1>2, NoLeast
<1> QED
  BY <1>3

\* What is reached are places; from what is reached nothing more is.
LEMMA ReachIs ==
  ASSUME NEW D, NEW next, NEW rank, Descends(D, next, rank), NEW u, Reaches(u, D, next)
  PROVE  /\ \A g \in D : u[g] \subseteq D
         /\ \A g \in D : u[g] = next[g] \union UNION {u[h] : h \in next[g]}
         /\ \A g \in D : \A h \in u[g] : u[h] \subseteq u[g]
<1>1. \A g \in D : u[g] = next[g] \union UNION {u[h] : h \in next[g]}
  BY DEF Reaches
<1>2. \A g \in D : \A h \in next[g] : h \in D
  BY DEF Descends
<1>3. D \subseteq {g \in D : u[g] \subseteq D}
  <2> DEFINE Good == {g \in D : u[g] \subseteq D}
  <2>1. \A g \in D : (\A h \in next[g] : h \in Good) => g \in Good
    BY <1>1, <1>2
  <2> HIDE DEF Good
  <2>2. D \subseteq Good
    BY <2>1, GoingDown
  <2> QED
    BY <2>2 DEF Good
<1>4. D \subseteq {g \in D : \A h \in u[g] : u[h] \subseteq u[g]}
  <2> DEFINE Good == {g \in D : \A h \in u[g] : u[h] \subseteq u[g]}
  <2>1. ASSUME NEW g \in D, \A h \in next[g] : h \in Good PROVE g \in Good
    <3> SUFFICES ASSUME NEW h \in u[g] PROVE u[h] \subseteq u[g]
      OBVIOUS
    <3>1. CASE h \in next[g]
      BY <1>1, <3>1
    <3>2. CASE h \notin next[g]
      <4>1. PICK c \in next[g] : h \in u[c]
        BY <1>1, <3>2
      <4>2. u[h] \subseteq u[c] /\ u[c] \subseteq u[g]
        BY <1>1, <2>1, <4>1
      <4> QED
        BY <4>2
    <3> QED
      BY <3>1, <3>2
  <2> HIDE DEF Good
  <2>2. D \subseteq Good
    BY <2>1, GoingDown
  <2> QED
    BY <2>2 DEF Good
<1> QED
  BY <1>1, <1>3, <1>4

\* An element is found by its id, and its group is one drawn before it.
LEMMA ElementIs ==
  ASSUME NEW S, NEW nodes \in Seq(S), Nested(nodes), NEW i \in DOMAIN nodes
  PROVE  /\ HasId(nodes, nodes[i].id) /\ ById(nodes, nodes[i].id) = nodes[i]
         /\ Min({j \in DOMAIN nodes : nodes[j].id = nodes[i].id}) = i
<1> DEFINE same == {j \in DOMAIN nodes : nodes[j].id = nodes[i].id}
<1>1. same = {i}
  BY DEF Nested
<1>2. same \in SUBSET Nat /\ same # {}
  BY <1>1
<1>3. Min(same) \in same
  <2> HIDE DEF same
  <2> QED
    BY <1>2, MinIs
<1> QED
  BY <1>1, <1>3 DEF HasId, ById

ParentsOf(nodes, g) == IF HasId(nodes, g) THEN {ById(nodes, g).parent} \ {Undefined} ELSE {}
ParentIds(nodes) == Ids(nodes) \union {n.parent : n \in ToSet(nodes)}
Up(nodes, D) == [g \in D |-> ParentsOf(nodes, g)]

LEMMA ParentsAre ==
  ASSUME NEW S, NEW nodes \in Seq(S), Nested(nodes), NEW i \in DOMAIN nodes,
         NEW h \in ParentsOf(nodes, nodes[i].id)
  PROVE  /\ h = nodes[i].parent /\ h # Undefined
         /\ \E j \in DOMAIN nodes : j < i /\ nodes[j].id = h /\ isGroupType(nodes[j].type)
<1>1. h = nodes[i].parent /\ h # Undefined
  BY ElementIs DEF ParentsOf
<1>2. PICK j \in 1..(i - 1) : nodes[j].id = h /\ isGroupType(nodes[j].type)
  BY <1>1 DEF Nested
<1>3. j \in DOMAIN nodes /\ j < i
  OBVIOUS
<1> QED
  BY <1>1, <1>2, <1>3

LEMMA UpDescends ==
  ASSUME NEW S, NEW nodes \in Seq(S), Nested(nodes), NEW D, ParentIds(nodes) \subseteq D
  PROVE  \E rank : Descends(D, Up(nodes, D), rank) /\ \A g \in D : rank[g] <= Len(nodes)
<1> DEFINE place(g) == Min({j \in DOMAIN nodes : nodes[j].id = g})
           rank == [g \in D |-> IF HasId(nodes, g) THEN place(g) ELSE 0]
<1>1. \A i \in DOMAIN nodes : HasId(nodes, nodes[i].id) /\ place(nodes[i].id) = i
  BY ElementIs
<1>2. \A g : HasId(nodes, g) => \E i \in DOMAIN nodes : g = nodes[i].id
  BY DEF HasId
<1> HIDE DEF place
<1>3. \A g \in D : rank[g] \in Nat /\ rank[g] <= Len(nodes)
  <2> TAKE g \in D
  <2>1. CASE HasId(nodes, g)
    <3>1. PICK i \in DOMAIN nodes : g = nodes[i].id
      BY <1>2, <2>1
    <3> QED
      BY <1>1, <2>1, <3>1
  <2>2. CASE ~HasId(nodes, g)
    BY <2>2
  <2> QED
    BY <2>1, <2>2
<1>4. ASSUME NEW g \in D, NEW h \in Up(nodes, D)[g] PROVE h \in D /\ rank[h] < rank[g]
  <2>1. h \in ParentsOf(nodes, g)
    BY DEF Up
  <2>2. HasId(nodes, g)
    BY <2>1 DEF ParentsOf
  <2>3. PICK i \in DOMAIN nodes : g = nodes[i].id
    BY <1>2, <2>2
  <2>4. PICK j \in DOMAIN nodes : j < i /\ nodes[j].id = h
    BY <2>1, <2>3, ParentsAre
  <2>5. h \in D
    BY <2>4 DEF ParentIds, Ids
  <2>6. rank[g] = i /\ rank[h] = j
    BY <1>1, <2>3, <2>4, <2>5
  <2> QED
    BY <2>4, <2>5, <2>6
<1>5. Up(nodes, D) \in [D -> SUBSET D]
  <2>1. \A g \in D : Up(nodes, D)[g] \subseteq D
    BY <1>4
  <2> QED
    BY <2>1 DEF Up
<1>6. rank \in [D -> Nat]
  BY <1>3
<1> HIDE DEF rank
<1> QED
  BY <1>3, <1>4, <1>5, <1>6 DEF Descends

\* The groups around an element are those that going up reaches.
LEMMA AncestorsWith ==
  ASSUME NEW S, NEW nodes \in Seq(S), Nested(nodes), NEW id, NEW D, D = ParentIds(nodes) \union {id}
  PROVE  \E w : Reaches(w, D, Up(nodes, D)) /\ AncestorsOf(nodes, id) = w[id]
<1> DEFINE parents(g) == IF HasId(nodes, g) THEN {ById(nodes, g).parent} \ {Undefined} ELSE {}
           Above(u) == u = [g \in Ids(nodes) \union {n.parent : n \in ToSet(nodes)} \union {id} |->
                              parents(g) \union UNION {u[group] : group \in parents(g)}]
           w == CHOOSE u : Above(u)
<1>1. AncestorsOf(nodes, id) = w[id]
  BY DEF AncestorsOf
<1>2. \A u : Above(u) <=> Reaches(u, D, Up(nodes, D))
  <2> TAKE u
  <2>1. \A g \in D : Up(nodes, D)[g] = parents(g)
    BY DEF Up, ParentsOf
  <2> HIDE DEF parents
  <2>2. [g \in D |-> parents(g) \union UNION {u[h] : h \in parents(g)}]
        = [g \in D |-> Up(nodes, D)[g] \union UNION {u[h] : h \in Up(nodes, D)[g]}]
    <3>1. \A g \in D : parents(g) \union UNION {u[h] : h \in parents(g)}
                       = Up(nodes, D)[g] \union UNION {u[h] : h \in Up(nodes, D)[g]}
      BY <2>1
    <3> QED
      BY <3>1
  <2>3. D = Ids(nodes) \union {n.parent : n \in ToSet(nodes)} \union {id}
    BY DEF ParentIds
  <2> QED
    BY <2>2, <2>3 DEF Reaches
<1>3. \E u : Reaches(u, D, Up(nodes, D))
  <2>1. PICK rank : Descends(D, Up(nodes, D), rank) /\ \A g \in D : rank[g] <= Len(nodes)
    BY UpDescends
  <2>2. Len(nodes) \in Nat
    OBVIOUS
  <2> QED
    BY <2>1, <2>2, ReachExists
<1>4. Above(w)
  <2> HIDE DEF Above
  <2> QED
    BY <1>2, <1>3
<1> HIDE DEF Above, w
<1> QED
  BY <1>1, <1>2, <1>4

\* Elements have groups around them, those of their parent and the parent; what the graph
\* does not have has none.
LEMMA AncestorsAre ==
  ASSUME NEW S, NEW nodes \in Seq(S), Nested(nodes)
  PROVE  /\ \A id : id \notin Ids(nodes) => AncestorsOf(nodes, id) = {}
         /\ \A id \in Ids(nodes) :
              /\ AncestorsOf(nodes, id)
                 = ParentsOf(nodes, id) \union UNION {AncestorsOf(nodes, h) : h \in ParentsOf(nodes, id)}
              /\ \A a \in AncestorsOf(nodes, id) :
                   /\ AncestorsOf(nodes, a) \subseteq AncestorsOf(nodes, id)
                   /\ \E n \in ToSet(nodes) : n.id = a /\ isGroupType(n.type)
<1> DEFINE D == ParentIds(nodes)
           up == Up(nodes, D)
<1>1. PICK rank : Descends(D, up, rank) /\ \A g \in D : rank[g] <= Len(nodes)
  BY UpDescends
<1>2. Len(nodes) \in Nat
  OBVIOUS
<1>3. PICK u : Reaches(u, D, up)
  BY <1>1, <1>2, ReachExists
<1>4. /\ \A g \in D : u[g] = up[g] \union UNION {u[h] : h \in up[g]}
      /\ \A g \in D : \A h \in u[g] : u[h] \subseteq u[g]
      /\ \A g \in D : u[g] \subseteq D
  BY <1>1, <1>3, ReachIs
<1>5. \A g \in D : up[g] = ParentsOf(nodes, g) /\ up[g] \subseteq Ids(nodes)
  <2> TAKE g \in D
  <2>1. up[g] = ParentsOf(nodes, g)
    BY DEF Up
  <2>2. CASE HasId(nodes, g)
    <3>1. PICK i \in DOMAIN nodes : g = nodes[i].id
      BY <2>2 DEF HasId
    <3>2. \A h \in ParentsOf(nodes, g) : h \in Ids(nodes)
      BY <3>1, ParentsAre DEF Ids
    <3> QED
      BY <2>1, <3>2
  <2>3. CASE ~HasId(nodes, g)
    BY <2>1, <2>3 DEF ParentsOf
  <2> QED
    BY <2>2, <2>3
<1>6. Ids(nodes) \subseteq D
  BY DEF ParentIds
<1>7. ASSUME NEW id \in Ids(nodes) PROVE AncestorsOf(nodes, id) = u[id]
  <2>1. D = ParentIds(nodes) \union {id}
    BY <1>6
  <2>2. PICK w : Reaches(w, D, up) /\ AncestorsOf(nodes, id) = w[id]
    BY <2>1, AncestorsWith
  <2>3. \A g \in D : w[g] = up[g] \union UNION {w[h] : h \in up[g]}
    BY <1>1, <2>2, ReachIs
  <2> DEFINE Good == {g \in D : w[g] = u[g]}
  <2>4. \A g \in D : (\A h \in up[g] : h \in Good) => g \in Good
    <3> SUFFICES ASSUME NEW g \in D, \A h \in up[g] : w[h] = u[h] PROVE w[g] = u[g]
      OBVIOUS
    <3>1. {w[h] : h \in up[g]} = {u[h] : h \in up[g]}
      OBVIOUS
    <3> HIDE DEF D, up
    <3> QED
      BY <1>4, <2>3, <3>1
  <2> HIDE DEF Good
  <2>5. D \subseteq Good
    BY <1>1, <2>4, GoingDown
  <2> QED
    BY <1>6, <2>2, <2>5 DEF Good
<1>8. ASSUME NEW id, id \notin Ids(nodes) PROVE AncestorsOf(nodes, id) = {}
  <2> DEFINE E == ParentIds(nodes) \union {id}
  <2>1. PICK w : Reaches(w, E, Up(nodes, E)) /\ AncestorsOf(nodes, id) = w[id]
    BY AncestorsWith
  <2>2. Up(nodes, E)[id] = {}
    BY <1>8, HasIdIs DEF Up, ParentsOf
  <2>3. w[id] = Up(nodes, E)[id] \union UNION {w[h] : h \in Up(nodes, E)[id]}
    BY <2>1 DEF Reaches
  <2>4. UNION {w[h] : h \in {}} = {}
    OBVIOUS
  <2> HIDE DEF E
  <2> QED
    BY <2>1, <2>2, <2>3, <2>4
<1> HIDE DEF D, up
<1> DEFINE groups == {n.id : n \in {m \in ToSet(nodes) : isGroupType(m.type)}}
<1>9. \A g \in Ids(nodes) : ParentsOf(nodes, g) \subseteq groups
  <2> SUFFICES ASSUME NEW g \in Ids(nodes), NEW h \in ParentsOf(nodes, g) PROVE h \in groups
    OBVIOUS
  <2>1. PICK i \in DOMAIN nodes : g = nodes[i].id
    BY DEF Ids
  <2>2. PICK j \in DOMAIN nodes : nodes[j].id = h /\ isGroupType(nodes[j].type)
    BY <2>1, ParentsAre
  <2> QED
    BY <2>2 DEF ToSet
<1> DEFINE Good == {g \in D : g \in Ids(nodes) => u[g] \subseteq groups}
<1>10. D \subseteq Good
  <2>1. \A g \in D : (\A h \in up[g] : h \in Good) => g \in Good
    BY <1>4, <1>5, <1>9
  <2> HIDE DEF Good
  <2> QED
    BY <1>1, <2>1, GoingDown
<1>11. groups \subseteq Ids(nodes)
  BY DEF Ids, ToSet
<1>12. ASSUME NEW id \in Ids(nodes)
       PROVE  /\ AncestorsOf(nodes, id)
                 = ParentsOf(nodes, id) \union UNION {AncestorsOf(nodes, h) : h \in ParentsOf(nodes, id)}
              /\ \A a \in AncestorsOf(nodes, id) :
                   /\ AncestorsOf(nodes, a) \subseteq AncestorsOf(nodes, id)
                   /\ \E n \in ToSet(nodes) : n.id = a /\ isGroupType(n.type)
  <2>1. u[id] \subseteq groups
    BY <1>6, <1>10
  <2>2. \A h \in ParentsOf(nodes, id) : AncestorsOf(nodes, h) = u[h]
    BY <1>5, <1>6, <1>7
  <2>3. {AncestorsOf(nodes, h) : h \in ParentsOf(nodes, id)} = {u[h] : h \in up[id]}
    BY <1>5, <1>6, <2>2
  <2>4. \A a \in u[id] : AncestorsOf(nodes, a) = u[a]
    BY <1>7, <1>11, <2>1
  <2> HIDE DEF groups
  <2>5. AncestorsOf(nodes, id) = u[id]
    BY <1>7
  <2>6. \A a \in u[id] : \E n \in ToSet(nodes) : n.id = a /\ isGroupType(n.type)
    BY <2>1 DEF groups
  <2> QED
    BY <1>4, <1>5, <1>6, <2>3, <2>4, <2>5, <2>6
<1> QED
  BY <1>8, <1>12

ChildrenOf(nodes, g) == {n.id : n \in {m \in ToSet(nodes) : m.parent = g}}
Down(nodes, D) == [g \in D |-> ChildrenOf(nodes, g)]

LEMMA DownDescends ==
  ASSUME NEW S, NEW nodes \in Seq(S), Nested(nodes)
  PROVE  LET D == Ids(nodes)
         IN \E rank : Descends(D, Down(nodes, D), rank) /\ \A g \in D : rank[g] <= Len(nodes)
<1> DEFINE D == Ids(nodes)
           place(g) == Min({j \in DOMAIN nodes : nodes[j].id = g})
           rank == [g \in D |-> Len(nodes) - place(g)]
<1>1. \A i \in DOMAIN nodes : place(nodes[i].id) = i
  BY ElementIs
<1>2. DOMAIN nodes = 1..Len(nodes) /\ Len(nodes) \in Nat
  OBVIOUS
<1>3. \A g \in D : \E i \in DOMAIN nodes : g = nodes[i].id
  BY DEF Ids
<1> HIDE DEF place
<1>4. \A g \in D : rank[g] \in Nat /\ rank[g] <= Len(nodes)
  <2> TAKE g \in D
  <2>1. PICK i \in DOMAIN nodes : g = nodes[i].id
    BY <1>3
  <2> QED
    BY <1>1, <1>2, <2>1
<1>5. ASSUME NEW g \in D, NEW h \in Down(nodes, D)[g] PROVE h \in D /\ rank[h] < rank[g]
  <2>1. h \in ChildrenOf(nodes, g)
    BY DEF Down
  <2>2. PICK i \in DOMAIN nodes : nodes[i].id = h /\ nodes[i].parent = g
    BY <2>1 DEF ChildrenOf, ToSet
  <2>3. g # Undefined
    BY <1>3 DEF Nested
  <2>4. PICK j \in 1..(i - 1) : nodes[j].id = g
    BY <2>2, <2>3 DEF Nested
  <2>5. j \in DOMAIN nodes /\ j < i /\ h \in D
    BY <1>2, <2>2 DEF Ids
  <2>6. rank[g] = Len(nodes) - j /\ rank[h] = Len(nodes) - i
    BY <1>1, <2>2, <2>4, <2>5
  <2> QED
    BY <1>2, <2>5, <2>6
<1>6. Down(nodes, D) \in [D -> SUBSET D]
  <2>1. \A g \in D : Down(nodes, D)[g] \subseteq D
    BY <1>5
  <2> QED
    BY <2>1 DEF Down
<1>7. rank \in [D -> Nat]
  BY <1>4
<1> HIDE DEF rank
<1> QED
  BY <1>4, <1>5, <1>6, <1>7 DEF Descends

\* What is nested under an element has its parent there too.
LEMMA DescendantsAre ==
  ASSUME NEW S, NEW nodes \in Seq(S), Nested(nodes), NEW id \in Ids(nodes)
  PROVE  /\ descendantIds(nodes, id) \subseteq Ids(nodes)
         /\ \A i \in DOMAIN nodes :
              nodes[i].id \in descendantIds(nodes, id) =>
                nodes[i].parent \in {id} \union descendantIds(nodes, id)
<1> DEFINE D == Ids(nodes)
           down == Down(nodes, D)
           children(g) == {n.id : n \in {m \in ToSet(nodes) : m.parent = g}}
           Below(v) == v = [g \in Ids(nodes) \union {id} |->
                              children(g) \union UNION {v[child] : child \in children(g)}]
           w == CHOOSE v : Below(v)
<1>1. descendantIds(nodes, id) = w[id]
  BY DEF descendantIds
<1>2. PICK rank : Descends(D, down, rank) /\ \A g \in D : rank[g] <= Len(nodes)
  BY DownDescends
<1>3. \E v : Reaches(v, D, down)
  <2>1. Len(nodes) \in Nat
    OBVIOUS
  <2> HIDE DEF D, down
  <2> QED
    BY <1>2, <2>1, ReachExists
<1>4. \A v : Below(v) <=> Reaches(v, D, down)
  <2> TAKE v
  <2>1. \A g \in D : down[g] = children(g)
    BY DEF Down, ChildrenOf
  <2> HIDE DEF children, down
  <2>2. [g \in D |-> children(g) \union UNION {v[h] : h \in children(g)}]
        = [g \in D |-> down[g] \union UNION {v[h] : h \in down[g]}]
    <3>1. \A g \in D : children(g) \union UNION {v[h] : h \in children(g)}
                       = down[g] \union UNION {v[h] : h \in down[g]}
      BY <2>1
    <3> QED
      BY <3>1
  <2>3. D = Ids(nodes) \union {id}
    OBVIOUS
  <2> QED
    BY <2>2, <2>3 DEF Reaches
<1>5. Reaches(w, D, down)
  <2> HIDE DEF Below, D, down
  <2> QED
    BY <1>3, <1>4
<1>6. /\ \A g \in D : w[g] \subseteq D
      /\ \A g \in D : w[g] = down[g] \union UNION {w[h] : h \in down[g]}
  <2> HIDE DEF D, down, w
  <2> QED
    BY <1>2, <1>5, ReachIs
<1> HIDE DEF w
<1> DEFINE Good == {g \in D : \A i \in DOMAIN nodes :
                      nodes[i].id \in w[g] => nodes[i].parent \in {g} \union w[g]}
<1>7. ASSUME NEW g \in D, \A h \in down[g] : h \in Good PROVE g \in Good
  <2> SUFFICES ASSUME NEW i \in DOMAIN nodes, nodes[i].id \in w[g]
               PROVE  nodes[i].parent \in {g} \union w[g]
    OBVIOUS
  <2>1. CASE nodes[i].id \in down[g]
    <3>1. PICK n \in ToSet(nodes) : n.id = nodes[i].id /\ n.parent = g
      BY <2>1 DEF Down, ChildrenOf
    <3>2. n = nodes[i]
      BY <3>1 DEF Nested, ToSet
    <3> QED
      BY <3>1, <3>2
  <2>2. CASE nodes[i].id \notin down[g]
    <3>1. PICK h \in down[g] : nodes[i].id \in w[h]
      <4> HIDE DEF D, down
      <4> QED
        BY <1>6, <2>2
    <3>2. nodes[i].parent \in {h} \union w[h]
      BY <1>7, <3>1
    <3>3. {h} \union w[h] \subseteq w[g]
      <4> HIDE DEF D, down
      <4> QED
        BY <1>6, <3>1
    <3> QED
      BY <3>2, <3>3
  <2> QED
    BY <2>1, <2>2
<1>8. D \subseteq Good
  <2> HIDE DEF Good, D, down
  <2> QED
    BY <1>2, <1>7, GoingDown
<1> QED
  BY <1>1, <1>6, <1>8

\* The groups around what is nested under an element are nested there, or are that element
\* and those around it.
LEMMA AroundNested ==
  ASSUME NEW S, NEW nodes \in Seq(S), Nested(nodes), NEW id \in Ids(nodes)
  PROVE  LET inside == {id} \union descendantIds(nodes, id)
         IN \A b \in inside : AncestorsOf(nodes, b) \subseteq inside \union AncestorsOf(nodes, id)
<1> DEFINE inside == {id} \union descendantIds(nodes, id)
           bound == inside \union AncestorsOf(nodes, id)
           Bad == {i \in DOMAIN nodes : nodes[i].id \in inside /\ ~(AncestorsOf(nodes, nodes[i].id) \subseteq bound)}
<1>1. Bad \in SUBSET Nat
  OBVIOUS
<1>2. ASSUME NEW i \in Bad PROVE \E j \in Bad : j < i
  <2> DEFINE b == nodes[i].id
  <2>1. b \in Ids(nodes) /\ b \in inside
    BY DEF Ids
  <2>2. b # id
    OBVIOUS
  <2>3. nodes[i].parent \in inside
    BY <2>1, <2>2, DescendantsAre
  <2>4. AncestorsOf(nodes, b)
        = ParentsOf(nodes, b) \union UNION {AncestorsOf(nodes, h) : h \in ParentsOf(nodes, b)}
    BY <2>1, AncestorsAre
  <2>5. \A h \in ParentsOf(nodes, b) :
          h = nodes[i].parent /\ \E j \in DOMAIN nodes : j < i /\ nodes[j].id = h
    <3>1. i \in DOMAIN nodes
      OBVIOUS
    <3> HIDE DEF Bad
    <3>2. ASSUME NEW h \in ParentsOf(nodes, nodes[i].id)
          PROVE  h = nodes[i].parent /\ \E j \in DOMAIN nodes : j < i /\ nodes[j].id = h
      <4>1. \E j \in DOMAIN nodes : j < i /\ nodes[j].id = h /\ isGroupType(nodes[j].type)
        BY <3>1, ParentsAre
      <4>2. h = nodes[i].parent
        BY <3>1, ParentsAre
      <4> QED
        BY <4>1, <4>2
    <3> QED
      BY <3>2
  <2> HIDE DEF b, inside
  <2>6. PICK h \in ParentsOf(nodes, b) : ~(AncestorsOf(nodes, h) \subseteq bound)
    <3>1. ParentsOf(nodes, b) \subseteq bound
      BY <2>3, <2>5
    <3>2. ~(AncestorsOf(nodes, b) \subseteq bound)
      BY DEF b
    <3> HIDE DEF bound
    <3> QED
      BY <2>4, <3>1, <3>2
  <2>7. PICK j \in DOMAIN nodes : j < i /\ nodes[j].id = h
    BY <2>5
  <2>8. nodes[j].id \in inside
    BY <2>3, <2>5, <2>7
  <2> QED
    BY <2>6, <2>7, <2>8
<1>3. Bad = {}
  <2> HIDE DEF Bad
  <2> QED
    BY <1>1, <1>2, NoLeast
<1>4. ASSUME NEW b \in inside PROVE AncestorsOf(nodes, b) \subseteq bound
  <2>1. b \in Ids(nodes)
    BY DescendantsAre
  <2>2. PICK i \in DOMAIN nodes : b = nodes[i].id
    BY <2>1 DEF Ids
  <2> HIDE DEF bound, inside
  <2> QED
    BY <1>3, <2>2
<1> QED
  BY <1>4

\* What is lit: the elements of some ids, and the groups among others.
LitNodes(nodes, ids, groups) ==
  {n.id : n \in {m \in ToSet(nodes) : m.id \in ids \/ (isGroupType(m.type) /\ m.id \in groups)}}

LEMMA LitIs ==
  ASSUME NEW nodes, NEW ids, NEW groups
  PROVE  /\ LitNodes(nodes, ids, groups) \subseteq Ids(nodes)
         /\ LitNodes(nodes, ids, groups) \subseteq ids \union groups
         /\ ids \intersect Ids(nodes) \subseteq LitNodes(nodes, ids, groups)
         /\ \A n \in ToSet(nodes) : isGroupType(n.type) /\ n.id \in groups => n.id \in LitNodes(nodes, ids, groups)
<1>1. \A x : x \in LitNodes(nodes, ids, groups) <=>
              \E n \in ToSet(nodes) : n.id = x /\ (n.id \in ids \/ (isGroupType(n.type) /\ n.id \in groups))
  BY DEF LitNodes
<1>2. \A x : x \in Ids(nodes) <=> \E n \in ToSet(nodes) : n.id = x
  BY HasIdIs
<1> QED
  BY <1>1, <1>2

\* With the groups around some ids, all around what is lit is.
LEMMA AroundLit ==
  ASSUME NEW S, NEW nodes \in Seq(S), Nested(nodes), NEW ids, NEW groups, Around(nodes, ids) \subseteq groups
  PROVE  \A id \in ids \union Around(nodes, ids) :
           AncestorsOf(nodes, id) \subseteq LitNodes(nodes, ids, groups)
<1> SUFFICES ASSUME NEW id \in ids \union Around(nodes, ids), NEW a \in AncestorsOf(nodes, id)
             PROVE  a \in LitNodes(nodes, ids, groups)
  OBVIOUS
<1>1. a \in Around(nodes, ids)
  <2>1. CASE id \in ids
    BY <2>1 DEF Around
  <2>2. CASE id \notin ids
    <3>1. PICK x \in ids : id \in AncestorsOf(nodes, x)
      BY <2>2 DEF Around
    <3>2. x \in Ids(nodes)
      BY <3>1, AncestorsAre
    <3>3. AncestorsOf(nodes, id) \subseteq AncestorsOf(nodes, x)
      BY <3>1, <3>2, AncestorsAre
    <3> QED
      BY <3>1, <3>3 DEF Around
  <2> QED
    BY <2>1, <2>2
<1>2. id \in Ids(nodes)
  BY AncestorsAre
<1>3. PICK n \in ToSet(nodes) : n.id = a /\ isGroupType(n.type)
  BY <1>2, AncestorsAre
<1> QED
  BY <1>1, <1>3, LitIs

\* What keeps LitClosed: the edges lit are of the graph, with their ends; the selection's
\* own are among them; and what is around what is lit is lit, or around the selection.
LEMMA ClosedWhen ==
  ASSUME NEW nodes, NEW all, ProperEdges(all), NEW chosen, isSelectionPresent(chosen, nodes, all),
         NEW edges, edges \subseteq ToSet(all), NEW ids, NEW groups, EndsOf(edges) \subseteq ids,
         NEW spared, spared = IF chosen.type = "node" THEN AncestorsOf(nodes, chosen.id) ELSE {},
         chosen.id \in LitNodes(nodes, ids, groups) \union {e.id : e \in edges},
         \A e \in ToSet(all) : chosen.id \in {e.source, e.target} => e \in edges,
         \A id \in LitNodes(nodes, ids, groups) :
           AncestorsOf(nodes, id) \subseteq LitNodes(nodes, ids, groups) \union spared
  PROVE  LitClosed(nodes, all, chosen,
                   [nodes |-> LitNodes(nodes, ids, groups), edges |-> {e.id : e \in edges}])
<1>1. ASSUME NEW e \in ToSet(all), e.id \in {x.id : x \in edges}
      PROVE  {e.source, e.target} \intersect Ids(nodes) \subseteq LitNodes(nodes, ids, groups)
  <2>1. PICK x \in edges : x.id = e.id
    BY <1>1
  <2>2. x = e
    BY <2>1 DEF ProperEdges, ToSet
  <2>3. {e.source, e.target} \subseteq ids
    BY <2>2 DEF EndsOf
  <2> QED
    BY <2>3, LitIs
<1> QED
  BY <1>1 DEF LitClosed

\* The touched edges are those of the graph with an end among some ids.
LEMMA TouchingIs ==
  ASSUME NEW edges, NEW ids
  PROVE  /\ Touching(edges, ids) \subseteq ToSet(edges)
         /\ \A e \in ToSet(edges) : \A id \in ids : id \in {e.source, e.target} => e \in Touching(edges, ids)
BY DEF Touching

LEMMA GroupLit ==
  ASSUME NEW S, NEW nodes \in Seq(S), Nested(nodes), NEW all, ProperEdges(all),
         NEW chosen, chosen.type = "node", HasId(nodes, chosen.id),
         isGroupType(ById(nodes, chosen.id).type)
  PROVE  LET found == GroupConnections(nodes, all, chosen.id)
         IN LitClosed(nodes, all, chosen,
                      [nodes |-> LitNodes(nodes, found.nodes, found.groups), edges |-> {e.id : e \in found.edges}])
<1> DEFINE id == chosen.id
           inside == {id} \union descendantIds(nodes, id)
           links == Touching(all, inside)
           far == EndsOf(links) \ inside
           ids == (inside \ {id}) \union EndsOf(links)
           groups == {g \in inside : isGroupType(ById(nodes, g).type)} \union Around(nodes, far)
           lit == LitNodes(nodes, ids, groups)
<1>1. GroupConnections(nodes, all, id) = [edges |-> links, nodes |-> ids, groups |-> groups]
  BY DEF GroupConnections
<1>2. id \in Ids(nodes) /\ inside \subseteq Ids(nodes)
  BY HasIdIs, DescendantsAre
<1>3. PICK i \in DOMAIN nodes : nodes[i].id = id
  BY <1>2 DEF Ids
<1>4. nodes[i] \in ToSet(nodes) /\ isGroupType(nodes[i].type) /\ id \in groups
  BY <1>3, ElementIs DEF ToSet
<1>5. links \subseteq ToSet(all) /\ \A e \in ToSet(all) : id \in {e.source, e.target} => e \in links
  BY TouchingIs
<1> HIDE DEF links, groups
<1>6. inside \subseteq lit
  <2>1. id \in lit
    BY <1>3, <1>4, LitIs
  <2>2. inside \ {id} \subseteq lit
    BY <1>2, LitIs
  <2> QED
    BY <2>1, <2>2
<1>7. far \subseteq ids /\ Around(nodes, far) \subseteq groups
  BY DEF groups
<1>8. LitNodes(nodes, far, groups) \subseteq lit
  BY <1>7 DEF LitNodes
<1>9. ASSUME NEW x \in lit PROVE AncestorsOf(nodes, x) \subseteq lit \union AncestorsOf(nodes, id)
  <2>1. x \in inside \/ x \in far \union Around(nodes, far)
    <3>1. x \in ids \union groups
      BY LitIs
    <3> QED
      BY <3>1 DEF groups
  <2>2. CASE x \in inside
    BY <1>2, <1>6, <2>2, AroundNested
  <2>3. CASE x \in far \union Around(nodes, far)
    <3> HIDE DEF far, lit
    <3> QED
      BY <1>7, <1>8, <2>3, AroundLit
  <2> QED
    BY <2>1, <2>2, <2>3
<1>10. id \in lit /\ isSelectionPresent(chosen, nodes, all) /\ EndsOf(links) \subseteq ids
  BY <1>6 DEF isSelectionPresent
<1> HIDE DEF inside, far, ids
<1>11. LitClosed(nodes, all, chosen, [nodes |-> lit, edges |-> {e.id : e \in links}])
  BY <1>5, <1>9, <1>10, ClosedWhen
<1> QED
  BY <1>1, <1>11

LEMMA NodeLit ==
  ASSUME NEW S, NEW nodes \in Seq(S), Nested(nodes), NEW all, ProperEdges(all),
         NEW chosen, chosen.type = "node", HasId(nodes, chosen.id)
  PROVE  LET found == NodeConnections(nodes, all, chosen.id)
         IN LitClosed(nodes, all, chosen,
                      [nodes |-> LitNodes(nodes, found.nodes, found.groups), edges |-> {e.id : e \in found.edges}])
<1> DEFINE id == chosen.id
           service == serviceIdOf(ById(nodes, id))
           origins == {id} \union {n.id : n \in {m \in ToSet(nodes) : service # Undefined /\ serviceIdOf(m) = service}}
           links == Touching(all, origins)
           ids == origins \union EndsOf(links)
           groups == Around(nodes, ids)
           lit == LitNodes(nodes, ids, groups)
<1>1. NodeConnections(nodes, all, id) = [edges |-> links, nodes |-> ids, groups |-> groups]
  BY DEF NodeConnections
<1>2. links \subseteq ToSet(all) /\ \A e \in ToSet(all) : id \in {e.source, e.target} => e \in links
  BY TouchingIs
<1>3. id \in ids /\ EndsOf(links) \subseteq ids /\ id \in Ids(nodes)
  BY HasIdIs
<1> HIDE DEF links, ids
<1>4. id \in lit
  BY <1>3, LitIs
<1>5. ASSUME NEW x \in lit PROVE AncestorsOf(nodes, x) \subseteq lit \union AncestorsOf(nodes, id)
  <2>1. x \in ids \union Around(nodes, ids)
    BY LitIs
  <2> QED
    BY <2>1, AroundLit
<1>6. isSelectionPresent(chosen, nodes, all)
  BY DEF isSelectionPresent
<1>7. LitClosed(nodes, all, chosen, [nodes |-> lit, edges |-> {e.id : e \in links}])
  <2> HIDE DEF groups
  <2> QED
    BY <1>2, <1>3, <1>4, <1>5, <1>6, ClosedWhen
<1> QED
  BY <1>1, <1>7

LEMMA EdgeLit ==
  ASSUME NEW S, NEW nodes \in Seq(S), Nested(nodes), NEW E, NEW all \in Seq(E), ProperEdges(all),
         NEW chosen, chosen.type # "node", HasId(all, chosen.id)
  PROVE  LET found == EdgeConnections(nodes, all, chosen.id)
         IN LitClosed(nodes, all, chosen,
                      [nodes |-> LitNodes(nodes, found.nodes, found.groups), edges |-> {e.id : e \in found.edges}])
<1> DEFINE id == chosen.id
           edge == ById(all, id)
           ends == {edge.source, edge.target}
           held == {g \in ends : HasId(nodes, g) /\ isGroupType(ById(nodes, g).type)}
           ids == ends \union {n.id : n \in {m \in ToSet(nodes) : m.parent \in held}}
           groups == Around(nodes, ids)
           lit == LitNodes(nodes, ids, groups)
<1>1. EdgeConnections(nodes, all, id) = [edges |-> {edge}, nodes |-> ids, groups |-> groups]
  BY DEF EdgeConnections
<1>2. edge \in ToSet(all) /\ edge.id = id
  <2> DEFINE same == {i \in DOMAIN all : all[i].id = id}
  <2>1. same \in SUBSET Nat /\ same # {}
    BY DEF HasId
  <2>2. Min(same) \in same
    <3> HIDE DEF same
    <3> QED
      BY <2>1, MinIs
  <2>3. edge = all[Min(same)]
    BY DEF ById
  <2> QED
    BY <2>2, <2>3 DEF ToSet
<1> HIDE DEF edge
<1>3. EndsOf({edge}) \subseteq ids
  BY DEF EndsOf
<1>4. \A e \in ToSet(all) : id \notin {e.source, e.target}
  <2>1. id \in Ids(all)
    BY HasIdIs
  <2> QED
    BY <2>1 DEF ProperEdges
<1> HIDE DEF ids
<1>5. ASSUME NEW x \in lit PROVE AncestorsOf(nodes, x) \subseteq lit
  <2>1. x \in ids \union Around(nodes, ids)
    BY LitIs
  <2> QED
    BY <2>1, AroundLit
<1>6. isSelectionPresent(chosen, nodes, all)
  BY DEF isSelectionPresent
<1>7. LitClosed(nodes, all, chosen, [nodes |-> lit, edges |-> {e.id : e \in {edge}}])
  <2>1. {edge} \subseteq ToSet(all) /\ id \in {e.id : e \in {edge}}
    BY <1>2
  <2> HIDE DEF groups
  <2> QED
    BY <1>3, <1>4, <1>5, <1>6, <2>1, ClosedWhen
<1> QED
  BY <1>1, <1>7

\* "so children don't appear highlighted inside a faded-out group" (selectionGraph.ts:151), "so
\* the nodes they reach stay lit" (useSelectionHighlight.ts:46), "ignored rather than fading
\* the full new graph" (useSelectionHighlight.ts:63): for any elements nested in groups at
\* any depth, any edges and links between them, and any selection, present or gone.
THEOREM SelectionStaysLit ==
  ASSUME NEW S, NEW nodes \in Seq(S), Nested(nodes),
         NEW E, NEW edges \in Seq(E), NEW links \in Seq(E), ProperEdges(edges \o links), NEW none,
         NEW chosen, chosen # Undefined, chosen.type \in {"node", "edge"}
  PROVE  LitClosed(nodes, edges \o links, chosen,
                   useSelectionHighlight(chosen, nodes, edges,
                                         [selected |-> links, none |-> none], Undefined))
<1> DEFINE all == edges \o links
           choice == [selected |-> links, none |-> none]
           lit == useSelectionHighlight(chosen, nodes, edges, choice, Undefined)
<1>1. all \in Seq(E)
  OBVIOUS
<1>2. CASE ~isSelectionPresent(chosen, nodes, all)
  <2>1. ActiveSelection(chosen, nodes, edges, choice) = Undefined
    BY <1>2 DEF ActiveSelection
  <2>2. lit.nodes = {n.id : n \in {m \in ToSet(nodes) : TRUE}}
    BY <2>1 DEF useSelectionHighlight
  <2>3. lit.nodes = Ids(nodes)
    BY <2>2 DEF Ids, ToSet
  <2> HIDE DEF lit, all
  <2> QED
    BY <1>2, <2>3 DEF LitClosed, all, lit
<1>3. CASE isSelectionPresent(chosen, nodes, all)
  <2> DEFINE found == resolveConnectedElements(chosen, nodes, all)
  <2>1. ActiveSelection(chosen, nodes, edges, choice) = chosen
    BY <1>3 DEF ActiveSelection
  <2>2. lit = [nodes |-> LitNodes(nodes, found.nodes, found.groups), edges |-> {e.id : e \in found.edges}]
    <3>1. lit = [nodes |-> {n.id : n \in {m \in ToSet(nodes) :
                              \/ m.id \in found.nodes
                              \/ isGroupType(m.type) /\ m.id \in found.groups}},
                 edges |-> {e.id : e \in found.edges}]
      BY <2>1 DEF useSelectionHighlight
    <3> HIDE DEF lit, found
    <3> QED
      BY <3>1 DEF LitNodes
  <2> HIDE DEF lit, all
  <2>3. CASE chosen.type = "edge"
    <3>1. found = EdgeConnections(nodes, all, chosen.id)
      BY <2>3 DEF resolveConnectedElements
    <3>2. HasId(all, chosen.id)
      BY <1>3, <2>3 DEF isSelectionPresent
    <3>3. ProperEdges(all)
      BY DEF all
    <3> HIDE DEF found
    <3> QED
      BY <1>1, <2>2, <2>3, <3>1, <3>2, <3>3, EdgeLit DEF all, lit
  <2>4. CASE chosen.type = "node"
    <3>1. HasId(nodes, chosen.id)
      BY <1>3, <2>4 DEF isSelectionPresent
    <3>2. ProperEdges(all)
      BY DEF all
    <3>3. CASE isGroupType(ById(nodes, chosen.id).type)
      <4>1. found = GroupConnections(nodes, all, chosen.id)
        BY <2>4, <3>3 DEF resolveConnectedElements
      <4> HIDE DEF found
      <4> QED
        BY <2>2, <2>4, <3>1, <3>2, <3>3, <4>1, GroupLit DEF all, lit
    <3>4. CASE ~isGroupType(ById(nodes, chosen.id).type)
      <4>1. found = NodeConnections(nodes, all, chosen.id)
        BY <2>4, <3>4 DEF resolveConnectedElements
      <4> HIDE DEF found
      <4> QED
        BY <2>2, <2>4, <3>1, <3>2, <4>1, NodeLit DEF all, lit
    <3> QED
      BY <3>3, <3>4
  <2> QED
    BY <2>3, <2>4
<1> QED
  BY <1>2, <1>3
=============================================================================
