-------------------------- MODULE CollectorsProofs --------------------------
(***************************************************************************)
(* Proofs about the Compose collector and the discovery of agents, for any *)
(* directories, files, nodes and addresses: a change of a compose file in  *)
(* a watched directory is not forgotten, and an agent is used for a node   *)
(* only if the swarm said so once.                                         *)
(***************************************************************************)
EXTENDS ComposeCollector, AgentDiscovery, SequenceTheorems, WellFoundedInduction, TLAPS

\* An event other than a rename starts the debouncer's timer.
Stirring == \E e \in events : e # "rename"

\* What leads to another read of a file.  That a rename waits to be handled is not
\* enough: the event loop drops it.
Reread(f) == Stirring \/ timer \/ notify \/ phase = "resolving" \/ f \in todo

\* No change of a file that nothing will read again is missing from what the
\* collector has; a scan that is over left nothing to parse and is kept as it was sent.
ComposeInv ==
    /\ ComposeTypeOK
    /\ phase # "scanning" => todo = {}
    /\ phase = "sending" => parsed = draft
    /\ ~ctxDone =>
          \A f \in File : DirOf[f] \in watched /\ f \notin excused \union moved =>
                              Latest(f) = Shown(disk[f]) \/ Reread(f)

\* Everything the pool believes was true of the swarm once.
DiscoveryInv ==
    /\ DiscoveryTypeOK
    /\ \A a \in Addr : <<a, runs[a]>> \in history
    /\ \A a \in Addr : verified[a] # None => <<a, verified[a]>> \in history
    /\ \A n \in Node : agents[n] # None => verified[agents[n]] = n

----------------------------------------------------------------------------
(* The Compose collector.                                                  *)

\* What the channel holds and what was taken from it are graphs.
LEMMA ChannelTyped ==
    ASSUME ComposeTypeOK
    PROVE  /\ HasRoom => /\ Append(updates, draft) \in Seq(Graphs)
                         /\ Len(Append(updates, draft)) <= UpdateCap
           /\ updates # << >> => /\ <<Head(updates)>> \in Seq(Graphs)
                                 /\ Tail(updates) \in Seq(Graphs)
                                 /\ Len(Tail(updates)) <= UpdateCap
<1>1. updates \in Seq(Graphs) /\ draft \in Graphs /\ Len(updates) \in Nat
      /\ Len(updates) <= UpdateCap /\ UpdateCap \in Nat
  BY LenProperties, ComposeAssumption DEF ComposeTypeOK
<1>2. ASSUME HasRoom
      PROVE  Append(updates, draft) \in Seq(Graphs) /\ Len(Append(updates, draft)) <= UpdateCap
  BY <1>1, <1>2, AppendProperties DEF HasRoom
<1>3. ASSUME updates # << >>
      PROVE  /\ <<Head(updates)>> \in Seq(Graphs) /\ Tail(updates) \in Seq(Graphs)
             /\ Len(Tail(updates)) <= UpdateCap
  <2>1. Head(updates) \in Graphs /\ Tail(updates) \in Seq(Graphs) /\ Len(Tail(updates)) = Len(updates) - 1
    BY <1>1, <1>3, HeadTailProperties
  <2> QED
    BY <1>1, <2>1
<1> QED
  BY <1>2, <1>3

\* The watcher starts typed, placing its watches.
LEMMA ComposeInitTyped == ComposeInit => ComposeInv
<1> SUFFICES ASSUME ComposeInit PROVE ComposeInv
  OBVIOUS
<1>1. NoGraph \in Graphs
  BY DEF NoGraph, Graphs
<1>2. updates \in Seq(Graphs) /\ Len(updates) = 0 /\ taken \in Seq(Graphs)
  BY DEF ComposeInit
<1>3. /\ dirs \subseteq Dir /\ watched \subseteq Dir /\ disk \in [File -> Version \union {Bad, Absent}]
      /\ edits \in 0 .. MaxEdits /\ failures \in 0 .. MaxFailures
  BY ComposeAssumption DEF ComposeInit
<1>4. /\ events = {} /\ todo = {} /\ excused = {} /\ moved = {} /\ phase = "placing"
      /\ timer \in BOOLEAN /\ notify \in BOOLEAN /\ ctxDone \in BOOLEAN
      /\ draft \in Graphs /\ parsed \in Graphs
  BY <1>1 DEF ComposeInit
<1>5. Len(updates) <= UpdateCap
  BY <1>2, ComposeAssumption
<1>6. ComposeTypeOK
  BY <1>2, <1>3, <1>4, <1>5 DEF ComposeTypeOK
<1> QED
  BY <1>6 DEF ComposeInit, ComposeInv

\* Every step keeps the types: a scan is of what the files hold, a send finds room.
LEMMA ComposeStepTyped ==
    ASSUME ComposeTypeOK, ComposeNext
    PROVE  ComposeTypeOK'
<1> USE ComposeAssumption
<1>1. CASE PlaceWatches \/ Fire \/ Notified \/ Exit \/ Stop
  BY <1>1 DEF PlaceWatches, Fire, Notified, Exit, Stop, ComposeTypeOK, diskVars, scanVars, watchVars
<1>2. CASE ResolveComposePaths
  <2>1. NoGraph \in Graphs
    BY DEF NoGraph, Graphs
  <2>2. /\ todo' \subseteq File /\ draft' \in Graphs /\ excused' \subseteq File
        /\ failures' \in 0 .. MaxFailures /\ phase' \in {"scanning", "idle"}
    BY <1>2, <2>1 DEF ResolveComposePaths, ComposeTypeOK
  <2> QED
    BY <1>2, <2>2 DEF ResolveComposePaths, ComposeTypeOK, diskVars, watchVars
<1>3. ASSUME NEW x \in File, ParseFile(x) PROVE ComposeTypeOK'
  <2>1. Shown(disk[x]) \in Version \union {Absent} /\ parsed[x] \in Version \union {Absent}
    BY DEF Shown, ComposeTypeOK, Graphs
  <2>2. draft' \in Graphs
    <3>1. PICK v \in Version \union {Absent} : draft' = [draft EXCEPT ![x] = v]
      BY <1>3, <2>1 DEF ParseFile
    <3> QED
      BY <3>1 DEF ComposeTypeOK, Graphs
  <2>3. excused' \subseteq File /\ failures' \in 0 .. MaxFailures
    BY <1>3 DEF ParseFile, ComposeTypeOK
  <2> QED
    BY <1>3, <2>2, <2>3 DEF ParseFile, ComposeTypeOK, diskVars, watchVars
<1>4. CASE ScanDone
  BY <1>4 DEF ScanDone, ComposeTypeOK, diskVars, watchVars
<1>5. CASE Send
  <2>1. updates' \in Seq(Graphs) /\ Len(updates') <= UpdateCap
    BY <1>5, ChannelTyped DEF Send, ComposeTypeOK
  <2> QED
    BY <1>5, <2>1 DEF Send, ComposeTypeOK, diskVars, watchVars
<1>6. ASSUME NEW e \in events, HandleEvent(e) PROVE ComposeTypeOK'
  BY <1>6 DEF HandleEvent, ComposeTypeOK, diskVars, scanVars
<1>7. ASSUME NEW x \in File, MoveOut(x) PROVE ComposeTypeOK'
  <2>1. disk' \in [File -> Version \union {Bad, Absent}]
    BY <1>7 DEF MoveOut, ComposeTypeOK
  <2>2. edits' \in 0 .. MaxEdits /\ events' \subseteq Dir \union {"change", "rename"}
    BY <1>7 DEF MoveOut, Edit, ComposeTypeOK
  <2> QED
    BY <1>7, <2>1, <2>2 DEF MoveOut, Edit, ComposeTypeOK
<1>8. ASSUME NEW x \in File, NEW v \in Version \union {Bad, Absent}, WriteFile(x, v)
      PROVE  ComposeTypeOK'
  <2>1. disk' \in [File -> Version \union {Bad, Absent}]
    BY <1>8 DEF WriteFile, ComposeTypeOK
  <2>2. edits' \in 0 .. MaxEdits /\ events' \subseteq Dir \union {"change", "rename"}
    BY <1>8 DEF WriteFile, Edit, ComposeTypeOK
  <2> QED
    BY <1>8, <2>1, <2>2 DEF WriteFile, Edit, ComposeTypeOK
<1>9. ASSUME NEW d \in Dir, MakeDir(d) PROVE ComposeTypeOK'
  <2>1. edits' \in 0 .. MaxEdits /\ events' \subseteq Dir \union {"change", "rename"}
    BY <1>9 DEF MakeDir, Edit, ComposeTypeOK
  <2> QED
    BY <1>9, <2>1 DEF MakeDir, Edit, ComposeTypeOK
<1>10. CASE Consume
  BY <1>10, ChannelTyped DEF Consume, ComposeTypeOK, diskVars, watchVars
<1> QED
  BY <1>1, <1>2, <1>3, <1>4, <1>5, <1>6, <1>7, <1>8, <1>9, <1>10 DEF ComposeNext, Scan

\* Files apart from the one that is written keep their content.
LEMMA Rewritten ==
    ASSUME ComposeTypeOK, NEW x \in File, NEW v, disk' = [disk EXCEPT ![x] = v]
    PROVE  \A y \in File : disk'[y] = IF y = x THEN v ELSE disk[y]
BY DEF ComposeTypeOK

\* Every step keeps the changes that are not shown yet in view: each action with the one
\* thing that could lose one.
LEMMA ComposeStep == ComposeInv /\ [ComposeNext]_composeVars => ComposeInv'
<1> SUFFICES ASSUME ComposeInv, [ComposeNext]_composeVars PROVE ComposeInv'
  OBVIOUS
<1>1. CASE UNCHANGED composeVars
  <2>1. ComposeTypeOK'
    BY <1>1 DEF ComposeInv, ComposeTypeOK, composeVars
  <2> QED
    BY <1>1, <2>1 DEF ComposeInv, composeVars, Latest, Reread, Stirring
<1>2. CASE ComposeNext
  <2> USE ComposeAssumption
  <2>0. ComposeTypeOK /\ ComposeTypeOK'
    BY <1>2, ComposeStepTyped DEF ComposeInv
  <2> DEFINE Kept == ~ctxDone' =>
                \A f \in File : (DirOf[f] \in watched /\ f \notin excused \union moved)' =>
                                    (Latest(f) = Shown(disk[f]) \/ Reread(f))'
             Rest == (phase # "scanning" => todo = {})' /\ (phase = "sending" => parsed = draft)'
  <2> SUFFICES Kept /\ Rest
    BY <2>0 DEF ComposeInv
  <2>1. CASE PlaceWatches \/ Notified \/ Fire \/ Exit \/ Stop
    BY <2>1 DEF PlaceWatches, Notified, Fire, Exit, Stop, diskVars, watchVars, scanVars,
       ComposeInv, Latest, Reread, Stirring
  <2>2. CASE ResolveComposePaths
    <3>1. CASE phase' = "scanning" /\ todo' = {y \in File : disk[y] # Absent} /\ draft' = NoGraph
      <4>1. \A y \in File : disk[y] = Absent => Shown(disk[y]) = Absent
        BY DEF Shown
      <4> QED
        BY <2>2, <3>1, <4>1 DEF ResolveComposePaths, diskVars, watchVars, ComposeInv, Latest, Reread,
           NoGraph
    <3>2. CASE phase' = "idle" /\ excused' = File /\ todo' = todo
      BY <2>2, <3>2 DEF ResolveComposePaths, diskVars, watchVars, ComposeInv
    <3> QED
      BY <2>2, <3>1, <3>2 DEF ResolveComposePaths
  <2>3. ASSUME NEW x \in File, ParseFile(x) PROVE Kept /\ Rest
    <3>1. /\ phase = "scanning" /\ phase' = "scanning" /\ todo' = todo \ {x} /\ ctxDone' = ctxDone
          /\ UNCHANGED <<disk, watched, events, timer, notify, moved, parsed>>
      BY <2>3 DEF ParseFile, diskVars, watchVars
    <3>2. PICK v : /\ draft' = [draft EXCEPT ![x] = v]
                   /\ v = Shown(disk[x]) \/ x \in excused'
                   /\ \A y \in File \ {x} : y \in excused' <=> y \in excused
      BY <2>3 DEF ParseFile
    <3>3. draft'[x] = v /\ \A y \in File \ {x} : draft'[y] = draft[y]
      BY <2>0, <3>2 DEF ComposeTypeOK, Graphs
    <3>4. ASSUME NEW y \in File, ~ctxDone', (DirOf[y] \in watched /\ y \notin excused \union moved)'
          PROVE  (Latest(y) = Shown(disk[y]) \/ Reread(y))'
      <4>1. CASE y = x
        BY <3>1, <3>4, <3>2, <3>3, <4>1 DEF Latest, Shown
      <4>2. CASE y # x
        BY <3>1, <3>4, <3>2, <3>3, <4>2 DEF ComposeInv, Latest, Shown, Reread, Stirring
      <4> QED
        BY <4>1, <4>2
    <3> QED
      BY <3>1, <3>4
  <2>4. CASE ScanDone
    BY <2>4 DEF ScanDone, diskVars, watchVars, ComposeInv, Latest, Reread, Stirring, Shown
  <2>5. CASE Send
    BY <2>5 DEF Send, diskVars, watchVars, ComposeInv, Latest, Reread, Stirring, Shown
  <2>6. ASSUME NEW e \in events, HandleEvent(e) PROVE Kept /\ Rest
    <3>1. phase' = phase /\ UNCHANGED <<disk, todo, draft, parsed, excused, moved, notify, ctxDone>>
      BY <2>6 DEF HandleEvent, diskVars, scanVars
    <3>2. CASE e = "rename"
      <4>1. watched' = watched /\ (Stirring => Stirring') /\ timer' = timer
        BY <2>0, <2>6, <3>2 DEF HandleEvent, Stirring, ComposeTypeOK
      <4> QED
        BY <3>1, <4>1 DEF ComposeInv, Latest, Reread, Shown
    <3>3. CASE e # "rename"
      <4>1. timer'
        BY <2>6, <3>3 DEF HandleEvent
      <4> QED
        BY <3>1, <4>1 DEF ComposeInv, Reread
    <3> QED
      BY <3>2, <3>3
  <2>7. ASSUME NEW x \in File, MoveOut(x) PROVE Kept /\ Rest
    <3>1. /\ x \in moved' /\ moved \subseteq moved' /\ (Stirring => Stirring')
          /\ \A y \in File \ {x} : disk'[y] = disk[y]
          /\ UNCHANGED <<phase, todo, draft, parsed, excused, watched, timer, notify, ctxDone>>
      BY <2>7, Rewritten DEF MoveOut, Edit, Stirring
    <3> QED
      BY <3>1 DEF ComposeInv, Latest, Reread, Shown
  <2>8. ASSUME NEW x \in File, NEW v \in Version \union {Bad, Absent}, WriteFile(x, v)
        PROVE  Kept /\ Rest
    <3>1. /\ (Stirring => Stirring') /\ (DirOf[x] \in watched => Stirring')
          /\ \A y \in File \ {x} : disk'[y] = disk[y]
          /\ UNCHANGED <<phase, todo, draft, parsed, excused, moved, watched, timer, notify, ctxDone>>
      BY <2>8, Rewritten DEF WriteFile, Edit, Stirring
    <3> QED
      BY <3>1 DEF ComposeInv, Latest, Reread, Shown
  <2>9. ASSUME NEW d \in Dir, MakeDir(d) PROVE Kept /\ Rest
    <3>1. /\ (Stirring => Stirring') /\ disk' = disk
          /\ UNCHANGED <<phase, todo, draft, parsed, excused, moved, watched, timer, notify, ctxDone>>
      BY <2>9 DEF MakeDir, Edit, Stirring
    <3> QED
      BY <3>1 DEF ComposeInv, Latest, Reread, Shown
  <2>10. CASE Consume
    BY <2>10 DEF Consume, diskVars, watchVars, ComposeInv, Latest, Reread, Stirring, Shown
  <2> QED
    BY <1>2, <2>1, <2>2, <2>3, <2>4, <2>5, <2>6, <2>7, <2>8, <2>9, <2>10 DEF ComposeNext, Scan
<1> QED
  BY <1>1, <1>2

\* The watcher's state keeps its types: the updates channel never holds more than its
\* capacity (compose.go), and a scan only what parsed.
THEOREM ComposeTyped == ComposeSpec => []ComposeTypeOK
<1>1. ComposeInv => ComposeTypeOK
  BY DEF ComposeInv
<1> QED
  BY <1>1, ComposeInitTyped, ComposeStep, PTL DEF ComposeSpec

\* No change of a file in a watched directory is lost to a scan that runs while it is made,
\* nor to the debouncer (compose.go:113-157, 222-236).
THEOREM ComposeKept == ComposeSpec => []NoChangeForgotten
<1>1. ComposeInv => NoChangeForgotten
  BY DEF ComposeInv, NoChangeForgotten, Reread, Stirring
<1> QED
  BY <1>1, ComposeInitTyped, ComposeStep, PTL DEF ComposeSpec

----------------------------------------------------------------------------
(* The discovery of agents.                                                *)

\* The pool's agent of a node is an address verified for that node.
LEMMA FirstVerified ==
    ASSUME NEW v, NEW n \in Node, FirstOf(v)[n] # None
    PROVE  FirstOf(v)[n] \in Addr /\ v[FirstOf(v)[n]] = n
<1> USE DiscoveryAssumption
<1> DEFINE Claiming == {a \in Addr : v[a] = n}
           First(a) == a \in Addr /\ v[a] = n /\ \A b \in Addr : v[b] = n => a <= b
<1>1. Claiming # {} /\ Claiming \subseteq Nat
  BY DEF FirstOf
<1>2. PICK a \in Claiming : \A b \in Claiming : ~(<<b, a>> \in OpToRel(<, Nat))
  BY <1>1, NatLessThanWellFounded, WFMin
<1>3. \A b \in Claiming : a <= b
  <2> HIDE DEF Claiming
  <2>1. ASSUME NEW b \in Claiming PROVE ~(b < a)
    <3>1. a \in Nat /\ b \in Nat
      BY <1>1
    <3>2. b < a => <<b, a>> \in OpToRel(<, Nat)
      BY <3>1 DEF OpToRel
    <3> QED
      BY <1>2, <3>2
  <2> QED
    BY <1>1, <2>1
<1>4. FirstOf(v)[n] = CHOOSE c \in Addr : v[c] = n /\ \A b \in Addr : v[b] = n => c <= b
  BY <1>1 DEF FirstOf
<1> QED
  BY <1>3, <1>4

\* The pool starts empty.
LEMMA DiscoveryStart == DiscoveryInit => DiscoveryInv
<1> SUFFICES ASSUME DiscoveryInit PROVE DiscoveryInv
  OBVIOUS
<1> USE DiscoveryAssumption DEF DiscoveryInit, NoInfos
<1>1. DiscoveryTypeOK
  BY DEF DiscoveryTypeOK, Claim
<1> QED
  BY <1>1 DEF DiscoveryInv

\* Every step keeps it: an address is verified by the task list or by an earlier one.
LEMMA DiscoveryStep == DiscoveryInv /\ [DiscoveryNext]_discoveryVars => DiscoveryInv'
<1> SUFFICES ASSUME DiscoveryInv, [DiscoveryNext]_discoveryVars PROVE DiscoveryInv'
  OBVIOUS
<1> USE DiscoveryAssumption DEF DiscoveryInv
<1>1. CASE UNCHANGED discoveryVars
  BY <1>1 DEF DiscoveryTypeOK, discoveryVars, envVars, poolVars
<1>2. CASE BeginRefresh
  BY <1>2 DEF BeginRefresh, Resolve, NoInfos, Claim, DiscoveryTypeOK, envVars, poolVars
<1>3. ASSUME NEW a \in Addr, AskInfo(a) PROVE DiscoveryInv'
  <2>1. Answers(a) \subseteq Claim
    BY DEF Answers, Claim, DiscoveryTypeOK
  <2>2. infos' \in [Addr -> Claim] /\ faults' \in 0 .. MaxFaults
    BY <1>3, <2>1 DEF AskInfo, DiscoveryTypeOK
  <2> QED
    BY <1>3, <2>2 DEF AskInfo, DiscoveryTypeOK, envVars, poolVars
<1>4. ASSUME NEW listed \in BOOLEAN, EndRefresh(listed) PROVE DiscoveryInv'
  <2>1. /\ verified' \in [Addr -> Node \union {None}]
        /\ \A a \in Addr : verified'[a] # None => runs[a] = verified'[a] \/ verified[a] = verified'[a]
    <3>1. \A a \in Addr : TaskHolds(a, infos[a]) => infos[a] \in Node
      BY DEF TaskHolds, DiscoveryTypeOK
    <3> QED
      BY <1>4, <3>1 DEF EndRefresh, VerifyNodes, TaskHolds, DiscoveryTypeOK
  <2>2. \A n \in Node : agents'[n] # None => agents'[n] \in Addr /\ verified'[agents'[n]] = n
    BY <1>4, FirstVerified DEF EndRefresh
  <2>3. agents' \in [Node -> Addr \union {None}]
    BY <1>4, <2>2 DEF EndRefresh, FirstOf
  <2>4. faults' \in 0 .. MaxFaults
    BY <1>4 DEF EndRefresh, DiscoveryTypeOK
  <2>5. DiscoveryTypeOK'
    BY <1>4, <2>1, <2>3, <2>4 DEF EndRefresh, DiscoveryTypeOK, NoInfos, Claim, envVars
  <2> QED
    BY <1>4, <2>1, <2>2, <2>5 DEF EndRefresh, envVars
<1>5. ASSUME NEW a \in Addr, NEW n \in Node \union {None}, Move(a, n) PROVE DiscoveryInv'
  <2>1. /\ runs' \in [Addr -> Node \union {None}] /\ moves' \in 0 .. MaxMoves
        /\ \A b \in Addr : runs'[b] = IF b = a THEN n ELSE runs[b]
    BY <1>5 DEF Move, DiscoveryTypeOK
  <2> QED
    BY <1>5, <2>1 DEF Move, DiscoveryTypeOK, poolVars
<1> QED
  BY <1>1, <1>2, <1>3, <1>4, <1>5 DEF DiscoveryNext

\* The pool holds addresses and nodes of the swarm only, whatever an agent claims.
THEOREM DiscoveryTyped == DiscoverySpec => []DiscoveryTypeOK
<1>1. DiscoveryInv => DiscoveryTypeOK
  BY DEF DiscoveryInv
<1> QED
  BY <1>1, DiscoveryStart, DiscoveryStep, PTL DEF DiscoverySpec

\* An agent the pool uses for a node had its address on that node (agent_pool.go:340-344),
\* whatever agents claim, lookups fail and addresses change hands.
THEOREM AgentsConfirmed == DiscoverySpec => []ConfirmedOnly
<1>1. DiscoveryInv => ConfirmedOnly
  <2> SUFFICES ASSUME DiscoveryInv, NEW n \in Node, agents[n] # None
               PROVE  <<agents[n], n>> \in history
    BY DEF ConfirmedOnly
  <2>1. agents[n] \in Addr /\ verified[agents[n]] = n /\ n # None
    BY DiscoveryAssumption DEF DiscoveryInv, DiscoveryTypeOK
  <2> QED
    BY <2>1 DEF DiscoveryInv
<1> QED
  BY <1>1, DiscoveryStart, DiscoveryStep, PTL DEF DiscoverySpec
=============================================================================
