----------------------- MODULE DockerCollectorProofs -----------------------
(***************************************************************************)
(* Proofs about the Docker collector, for any numbers of changes, failures *)
(* and buffered snapshots, in swarm mode or not: its snapshots are         *)
(* published in the order they were observed, and neither of its two ways  *)
(* to skip a poll forgets a change.                                        *)
(***************************************************************************)
EXTENDS DockerCollector, SequenceTheorems, TLAPS

Polling == {"reading", "sending"}

\* pollMu is held by the one poller that queries or sends.
Locked == \A p \in Poller : phase[p] \in Polling <=> lock = p

\* The goroutines start once main's own poll is over.
Started ==
    /\ phase["main"] \in {"waiting", "exited"} \union Polling
    /\ phase["main"] # "exited" => \A p \in Loop : phase[p] = "off"

\* A poll starts from nothing and has read what is no older than what was sent before,
\* and no newer than the daemon.
Drafted ==
    \A p \in Poller, x \in Part :
        /\ phase[p] \notin Polling \union {"checking"} => draft[p][x] = Unread
        /\ phase[p] = "sending" => draft[p][x] # Unread
        /\ phase[p] \in Polling /\ draft[p][x] # Unread =>
              /\ draft[p][x] <= daemon[x]
              /\ Sent # << >> => Sent[1][x] <= draft[p][x]

SentSeen == Sent # << >> => \A x \in Part : Sent[1][x] <= daemon[x]

CollectorInv ==
    /\ TypeOK /\ pending <= daemon["local"]
    /\ Locked /\ Started /\ Drafted /\ SentSeen
    /\ NothingForgotten

----------------------------------------------------------------------------
(* Types.                                                                  *)

\* The parts of the daemon, and who polls them.
LEMMA Names ==
    /\ "local" \in Part /\ (Swarm => "tasks" \in Part)
    /\ Loop \subseteq Poller /\ Poller = Loop \union {"main"} /\ "main" \notin Loop
    /\ "event" \in Loop /\ "periodic" \in Loop /\ (Swarm => "task" \in Loop)
    /\ "none" \notin Poller
BY DEF Part, Loop, Poller

\* What the constants bound.
LEMMA Bounds ==
    /\ Unread \in Nat /\ Versions \subseteq 0 .. Unread /\ Unread \notin Versions
    /\ 0 .. Unread = Versions \union {Unread}
    /\ UpdateCap \in Nat \ {0} /\ MaxChanges \in Nat /\ MaxTaskChanges \in Nat
    /\ MaxTaskChanges <= MaxChanges /\ MaxFailures \in Nat /\ Swarm \in BOOLEAN
BY CollectorAssumption DEF Unread, Versions

\* The end of a poll, of main's own or of a loop's.
LEMMA PollDoneTyped ==
    ASSUME TypeOK, NEW p \in Poller, PollDone(p)
    PROVE  /\ phase' \in [Poller -> Stage] /\ lock' = "none"
           /\ draft' \in [Poller -> [Part -> 0 .. Unread]]
<1>1. Blank \in [Part -> 0 .. Unread]
  BY Bounds DEF Blank
<1> QED
  BY <1>1 DEF TypeOK, PollDone, Stage

\* What the channel holds and what was taken from it.
LEMMA UpdatesTyped ==
    ASSUME TypeOK
    PROVE  /\ \A s \in Snapshot : /\ Append(updates, s) \in Seq(Snapshot)
                                  /\ HasRoom => Len(Append(updates, s)) <= UpdateCap
           /\ updates # << >> => /\ Head(updates) \in Snapshot /\ <<Head(updates)>> \in Seq(Snapshot)
                                 /\ Tail(updates) \in Seq(Snapshot) /\ Len(Tail(updates)) <= UpdateCap
<1>1. updates \in Seq(Snapshot) /\ Len(updates) \in Nat /\ Len(updates) <= UpdateCap
  BY LenProperties DEF TypeOK
<1>2. ASSUME NEW s \in Snapshot
      PROVE  /\ Append(updates, s) \in Seq(Snapshot)
             /\ HasRoom => Len(Append(updates, s)) <= UpdateCap
  BY <1>1, AppendProperties, Bounds DEF HasRoom
<1>3. ASSUME updates # << >>
      PROVE  /\ Head(updates) \in Snapshot /\ <<Head(updates)>> \in Seq(Snapshot)
             /\ Tail(updates) \in Seq(Snapshot) /\ Len(Tail(updates)) <= UpdateCap
  <2>1. /\ Head(updates) \in Snapshot /\ Tail(updates) \in Seq(Snapshot)
        /\ Len(Tail(updates)) = Len(updates) - 1
    BY <1>1, <1>3, HeadTailProperties
  <2> QED
    BY <1>1, <2>1, Bounds
<1> QED
  BY <1>2, <1>3

\* The daemon, the stream and the poll state stay in their sets.
Typed == TypeOK /\ pending <= daemon["local"]

\* It starts typed.
LEMMA InitTyped == Init => Typed
<1> SUFFICES ASSUME Init PROVE Typed
  OBVIOUS
<1>1. daemon \in Snapshot /\ base \in Versions /\ taskFP \in 0 .. Unread /\ failures \in 0 .. MaxFailures
  BY Bounds DEF Init, Snapshot, Versions
<1>2. phase \in [Poller -> Stage]
  BY DEF Init, Stage
<1>3. draft \in [Poller -> [Part -> 0 .. Unread]]
  BY Bounds DEF Init, Blank
<1>4. /\ updates \in Seq(Snapshot) /\ Len(updates) <= UpdateCap /\ taken \in Seq(Snapshot)
      /\ pending \in 0 .. MaxChanges /\ pending <= daemon["local"]
  BY Bounds, Names DEF Init
<1>5. /\ stream \in {"backoff", "up", "broken"} /\ lock \in Poller \union {"none"}
      /\ timer \in BOOLEAN /\ notify \in BOOLEAN /\ ctxDone \in BOOLEAN /\ stopped \in BOOLEAN
      /\ excused \in BOOLEAN
  BY DEF Init
<1> QED
  BY <1>1, <1>2, <1>3, <1>4, <1>5 DEF Typed, TypeOK

\* A full draft is a snapshot.
LEMMA DraftIsSnapshot ==
    ASSUME TypeOK, NEW p \in Poller, \A x \in Part : draft[p][x] # Unread
    PROVE  draft[p] \in Snapshot
BY Bounds DEF TypeOK, Snapshot

\* Every step keeps the types: a send finds a full draft and room in the channel.
LEMMA StepTyped ==
    ASSUME Typed, Drafted, Next
    PROVE  Typed'
<1> USE Names, Bounds DEF Typed
<1>1. ASSUME NEW p \in Poller, Lock(p) PROVE Typed'
  BY <1>1 DEF Lock, TypeOK, Stage, watchVars, envVars
<1>2. ASSUME NEW p \in Poller, NEW x \in Part, Read(p, x) PROVE Typed'
  <2>1. daemon[x] \in 0 .. Unread
    BY DEF TypeOK, Snapshot
  <2>2. draft' \in [Poller -> [Part -> 0 .. Unread]]
    BY <1>2, <2>1 DEF Read, TypeOK
  <2> QED
    BY <1>2, <2>2 DEF Read, TypeOK, watchVars, envVars
<1>3. ASSUME NEW p \in Poller, Fetched(p) PROVE Typed'
  <2>1. taskFP' \in 0 .. Unread
    BY <1>3 DEF Fetched, TypeOK
  <2> QED
    BY <1>3, <2>1 DEF Fetched, TypeOK, Stage, watchVars, envVars
<1>4. ASSUME NEW p \in Poller, Send(p) PROVE Typed'
  <2>1. draft[p] \in Snapshot
    BY <1>4, DraftIsSnapshot DEF Send, Drafted
  <2>2. updates' \in Seq(Snapshot) /\ Len(updates') <= UpdateCap
    <3>1. CASE updates' = updates
      BY <3>1 DEF TypeOK
    <3>2. CASE HasRoom /\ updates' = Append(updates, draft[p])
      BY <2>1, <3>2, UpdatesTyped
    <3> QED
      BY <1>4, <3>1, <3>2 DEF Send
  <2> QED
    BY <1>4, <2>2, PollDoneTyped DEF Send, TypeOK, watchVars, envVars
<1>5. ASSUME NEW p \in Poller, PollFails(p) PROVE Typed'
  <2>1. failures' \in 0 .. MaxFailures /\ excused' \in BOOLEAN
    BY <1>5 DEF PollFails, TypeOK
  <2> QED
    BY <1>5, <2>1, PollDoneTyped DEF PollFails, TypeOK, watchVars
<1>6. CASE Tick
  BY <1>6 DEF Tick, TypeOK, Stage, watchVars, envVars
<1>7. CASE TaskTick
  <2>1. daemon["tasks"] \in 0 .. Unread
    BY <1>7 DEF TaskTick, TypeOK, Snapshot
  <2>2. draft' \in [Poller -> [Part -> 0 .. Unread]]
    BY <1>7, <2>1 DEF TaskTick, TypeOK
  <2> QED
    BY <1>7, <2>2 DEF TaskTick, TypeOK, Stage, watchVars, envVars
<1>8. CASE CompareTasks
  <2>1. Blank \in [Part -> 0 .. Unread]
    BY DEF Blank
  <2>2. phase' \in [Poller -> Stage] /\ draft' \in [Poller -> [Part -> 0 .. Unread]]
    BY <1>8, <2>1 DEF CompareTasks, TypeOK, Stage
  <2> QED
    BY <1>8, <2>2 DEF CompareTasks, TypeOK, watchVars, envVars
<1>9. CASE ReceiveEvent \/ StreamError \/ Subscribe
  <2>1. daemon["local"] \in Versions /\ daemon["local"] \in Nat /\ pending \in Nat /\ pending <= MaxChanges
    BY DEF TypeOK, Snapshot, Versions
  <2>2. pending' \in Nat /\ pending' <= pending /\ UNCHANGED <<pollVars, envVars>>
    BY <1>9, <2>1 DEF ReceiveEvent, StreamError, Subscribe
  <2>3. pending' \in 0 .. MaxChanges /\ pending' <= daemon["local"]
    BY <2>1, <2>2
  <2>4. /\ stream' \in {"backoff", "up", "broken"} /\ timer' \in BOOLEAN /\ notify' \in BOOLEAN
        /\ base' \in Versions /\ excused' \in BOOLEAN
    BY <1>9, <2>1 DEF ReceiveEvent, StreamError, Subscribe, TypeOK
  <2> QED
    BY <2>2, <2>3, <2>4 DEF TypeOK, pollVars, envVars
<1>10. CASE Notified \/ Fire
  <2>1. CASE Notified
    <3>1. phase' \in [Poller -> Stage]
      BY <2>1 DEF Notified, TypeOK, Stage
    <3> QED
      BY <2>1, <3>1 DEF Notified, TypeOK, envVars
  <2>2. CASE Fire
    BY <2>2 DEF Fire, TypeOK, pollVars, envVars
  <2> QED
    BY <1>10, <2>1, <2>2
<1>11. ASSUME NEW x \in Part, DaemonChanges(x) PROVE Typed'
  <2>1. daemon[x] \in Nat /\ daemon[x] < MaxChanges /\ daemon \in [Part -> 0 .. MaxChanges]
    BY <1>11 DEF DaemonChanges, TypeOK, Snapshot, Versions
  <2>2. daemon' \in Snapshot /\ daemon'[x] = daemon[x] + 1
        /\ (x # "local" => daemon'["local"] = daemon["local"])
    BY <1>11, <2>1 DEF DaemonChanges, Snapshot, Versions
  <2>3. /\ pending \in Nat /\ pending' \in Nat /\ pending' <= daemon'["local"]
        /\ pending' <= MaxChanges
    <3>1. pending \in Nat /\ pending <= MaxChanges /\ pending <= daemon["local"]
      BY DEF TypeOK
    <3>2. daemon["local"] \in Nat /\ daemon["local"] <= MaxChanges
      BY <2>1 DEF Part
    <3>3. pending' = pending \/ (x = "local" /\ pending' = pending + 1)
      BY <1>11 DEF DaemonChanges
    <3>4. x = "local" => daemon["local"] < MaxChanges
      BY <2>1
    <3>5. MaxChanges \in Nat
      BY <1>11, <2>1
    <3> QED
      BY <2>2, <3>1, <3>2, <3>3, <3>4, <3>5
  <2> QED
    BY <1>11, <2>2, <2>3 DEF DaemonChanges, TypeOK, pollVars
<1>12. CASE StreamBreaks
  <2>1. daemon["local"] \in Nat /\ pending \in Nat /\ pending <= MaxChanges
    BY DEF TypeOK, Snapshot, Versions
  <2>2. pending' \in 0 .. pending
    BY <1>12 DEF StreamBreaks
  <2>3. pending' \in 0 .. MaxChanges /\ pending' <= daemon["local"]
    BY <2>1, <2>2
  <2> QED
    BY <1>12, <2>3 DEF StreamBreaks, TypeOK, pollVars
<1>13. CASE Consume
  BY <1>13, UpdatesTyped DEF Consume, TypeOK, watchVars
<1>14. CASE Cancel \/ Stop
  BY <1>14 DEF Cancel, Stop, TypeOK, watchVars, pollVars
<1>15. ASSUME NEW p \in Loop, Exit(p) PROVE Typed'
  BY <1>15 DEF Exit, TypeOK, Stage, watchVars, envVars
<1> QED
  BY <1>1, <1>2, <1>3, <1>4, <1>5, <1>6, <1>7, <1>8, <1>9, <1>10, <1>11, <1>12, <1>13, <1>14, <1>15
  DEF Next, Poll, Watch

----------------------------------------------------------------------------
(* Polls one at a time, of what is no older than what was sent.            *)

\* What was sent last is the last snapshot of the channel, or the one taken when the
\* channel is empty.
LEMMA SentTyped ==
    ASSUME TypeOK, Sent # << >>
    PROVE  Sent[1] \in Snapshot
<1>1. updates \in Seq(Snapshot) /\ taken \in Seq(Snapshot) /\ Len(updates) \in Nat
  BY LenProperties DEF TypeOK
<1>2. CASE updates # << >>
  <2>1. Len(updates) \in 1 .. Len(updates)
    BY <1>1, <1>2, EmptySeq
  <2> QED
    BY <1>1, <1>2, <2>1, ElementOfSeq DEF Sent
<1>3. CASE updates = << >>
  <2>1. taken # << >> /\ Sent = taken
    BY <1>3 DEF Sent
  <2>2. 1 \in 1 .. Len(taken)
    BY <1>1, <2>1, EmptySeq, LenProperties
  <2> QED
    BY <1>1, <2>1, <2>2, ElementOfSeq
<1> QED
  BY <1>2, <1>3

\* It is the draft when one is sent,
LEMMA SentAppended ==
    ASSUME TypeOK, NEW s \in Snapshot, updates' = Append(updates, s)
    PROVE  Sent' = <<s>> /\ Sent' # << >> /\ Sent'[1] = s
<1>1. /\ updates' # << >> /\ Len(updates') = Len(updates) + 1
      /\ updates'[Len(updates) + 1] = s
  BY AppendProperties DEF TypeOK
<1> QED
  BY <1>1 DEF Sent

\* and stays when pipeUpdates takes one.
LEMMA SentTaken ==
    ASSUME TypeOK, Consume
    PROVE  Sent' = Sent
<1>1. /\ updates \in Seq(Snapshot) /\ updates # << >> /\ Len(updates) \in Nat /\ Len(updates) >= 1
      /\ taken' = <<Head(updates)>> /\ updates' = Tail(updates) /\ Head(updates) = updates[1]
  BY LenProperties, EmptySeq DEF TypeOK, Consume
<1> DEFINE t == Tail(updates)
<1>2. /\ t \in Seq(Snapshot) /\ Len(t) = Len(updates) - 1
      /\ \A i \in 1 .. Len(t) : t[i] = updates[i + 1]
      /\ updates' = t
  BY <1>1, HeadTailProperties
<1>3. t # << >> => Len(t) \in Nat \ {0}
  BY <1>2, EmptySeq
<1>4. Len(<< >>) = 0
  OBVIOUS
<1> HIDE DEF t
<1>5. CASE t = << >>
  <2>1. Len(t) = 0
    BY <1>4, <1>5
  <2>2. Len(updates) = 1
    BY <1>1, <1>2, <2>1
  <2> QED
    BY <1>1, <1>2, <1>5, <2>2 DEF Sent
<1>6. CASE t # << >>
  <2>1. Len(t) \in 1 .. Len(t) /\ Len(t) + 1 = Len(updates)
    BY <1>1, <1>2, <1>3, <1>6
  <2>2. t[Len(t)] = updates[Len(t) + 1]
    BY <1>2, <2>1
  <2> QED
    BY <1>1, <1>2, <1>6, <2>1, <2>2 DEF Sent
<1> QED
  BY <1>5, <1>6

\* The part of the invariant that keeps the polls apart and in order.
Polls == Locked /\ Started /\ Drafted /\ SentSeen

\* A step that leaves what the polls have read, the lock and what was sent alone, and
\* brings no poller in or out of its poll.
Aside ==
    /\ UNCHANGED <<lock, draft, daemon>> /\ Sent' = Sent
    /\ \A p \in Poller : \/ phase'[p] = phase[p]
                         \/ /\ phase["main"] = "exited" /\ p # "main"
                           /\ phase[p] = "idle" /\ phase'[p] \in {"waiting", "exited"}

\* Such a step disturbs no poll.
LEMMA AsideStays == TypeOK /\ Polls /\ Aside => Polls'
<1> SUFFICES ASSUME TypeOK, Polls, Aside PROVE Polls'
  OBVIOUS
<1>1. Locked'
  BY DEF Polls, Locked, Aside, Polling
<1>2. Started'
  BY Names DEF Polls, Started, Aside, Polling
<1>3. Drafted' /\ SentSeen'
  BY DEF Polls, Drafted, SentSeen, Aside, Polling
<1> QED
  BY <1>1, <1>2, <1>3 DEF Polls

\* The end of a poll leaves no draft behind, and after main's own the loops start.
LEMMA PollDoneStays ==
    ASSUME TypeOK, Polls, NEW p \in Poller, phase[p] \in Polling, PollDone(p), UNCHANGED daemon,
           \/ Sent' = Sent
           \/ Sent' # << >> /\ draft[p] \in Snapshot /\ Sent'[1] = draft[p]
    PROVE  Polls'
<1>1. lock = p /\ lock' = "none" /\ \A q \in Poller \ {p} : phase[q] \notin Polling
  BY DEF Polls, Locked, PollDone
<1>2. /\ \A q \in Poller : phase'[q] \in {"idle", "exited"} \/ (q # p /\ phase'[q] = phase[q])
      /\ p # "main" => /\ phase'["main"] = phase["main"] /\ phase["main"] = "exited"
      /\ p = "main" => phase'["main"] = "exited"
  <2>1. CASE p = "main"
    BY <2>1, Names DEF PollDone, TypeOK
  <2>2. CASE p # "main"
    BY <2>2, Names DEF PollDone, TypeOK, Polls, Started, Polling
  <2> QED
    BY <2>1, <2>2
<1>3. Locked'
  BY <1>1, <1>2, Names DEF Locked, Polling
<1>4. Started'
  BY <1>2 DEF Started
<1>5. /\ \A x \in Part : draft'[p][x] = Unread
      /\ \A q \in Poller \ {p} : draft'[q] = draft[q]
  BY DEF PollDone, TypeOK, Blank
<1>6. \A q \in Poller : phase'[q] \notin Polling
  BY <1>1, <1>2 DEF Polling
<1>7. ASSUME NEW q \in Poller, NEW x \in Part, phase'[q] # "checking"
      PROVE  draft'[q][x] = Unread
  <2>1. CASE q = p
    BY <1>5, <2>1
  <2>2. CASE q # p
    <3>1. phase[q] \notin Polling
      BY <1>1, <2>2
    <3>2. phase[q] # "checking"
      <4>1. CASE p = "main"
        BY <2>2, <4>1, Names DEF Polls, Started, Polling
      <4>2. CASE p # "main"
        BY <1>7, <2>2, <4>2 DEF PollDone, TypeOK
      <4> QED
        BY <4>1, <4>2
    <3> QED
      BY <1>5, <2>2, <3>1, <3>2 DEF Polls, Drafted
  <2> QED
    BY <2>1, <2>2
<1>8. Drafted'
  BY <1>6, <1>7 DEF Drafted, Polling
<1>9. SentSeen'
  <2>1. CASE Sent' = Sent
    BY <2>1 DEF Polls, SentSeen
  <2>2. CASE Sent' # << >> /\ draft[p] \in Snapshot /\ Sent'[1] = draft[p]
    <3>1. \A x \in Part : draft[p][x] # Unread
      BY <2>2, Bounds DEF Snapshot
    <3> QED
      BY <2>2, <3>1 DEF Polls, Drafted, SentSeen
  <2> QED
    BY <2>1, <2>2
<1> QED
  BY <1>3, <1>4, <1>8, <1>9 DEF Polls

\* Every step keeps the polls apart and in order.
LEMMA StepPolls ==
    ASSUME Typed, Polls, Next
    PROVE  Polls'
<1> USE Names, Bounds DEF Typed
<1>1. ASSUME NEW p \in Poller, Lock(p) PROVE Polls'
  <2>1. /\ phase[p] = "waiting" /\ lock = "none" /\ lock' = p
        /\ phase' = [phase EXCEPT ![p] = "reading"]
        /\ UNCHANGED <<daemon, draft>> /\ Sent' = Sent
    BY <1>1 DEF Lock, envVars, Sent
  <2>2. Locked'
    BY <2>1 DEF Polls, Locked, Polling, TypeOK
  <2>3. Started'
    BY <2>1 DEF Polls, Started, Polling, TypeOK
  <2>4. \A x \in Part : draft[p][x] = Unread
    BY <2>1 DEF Polls, Drafted, Polling
  <2>5. Drafted' /\ SentSeen'
    BY <2>1, <2>4 DEF Polls, Drafted, SentSeen, Polling, TypeOK
  <2> QED
    BY <2>2, <2>3, <2>5 DEF Polls
<1>2. ASSUME NEW p \in Poller, NEW x \in Part, Read(p, x) PROVE Polls'
  <2>1. /\ phase[p] = "reading"
        /\ draft' = [draft EXCEPT ![p] = [draft[p] EXCEPT ![x] = daemon[x]]]
        /\ UNCHANGED <<daemon, phase, lock>> /\ Sent' = Sent
    BY <1>2 DEF Read, envVars, Sent
  <2>2. /\ draft'[p][x] = daemon[x] /\ daemon[x] \in Nat
        /\ \A q \in Poller, y \in Part : q # p \/ y # x => draft'[q][y] = draft[q][y]
    BY <2>1 DEF TypeOK, Snapshot, Versions
  <2>3. Locked' /\ Started' /\ SentSeen'
    BY <2>1 DEF Polls, Locked, Started, SentSeen
  <2>4. Drafted'
    BY <2>1, <2>2 DEF Polls, Drafted, SentSeen, Polling
  <2> QED
    BY <2>3, <2>4 DEF Polls
<1>3. ASSUME NEW p \in Poller, Fetched(p) PROVE Polls'
  <2>1. /\ phase[p] = "reading" /\ \A x \in Part : draft[p][x] # Unread
        /\ phase' = [phase EXCEPT ![p] = "sending"]
        /\ UNCHANGED <<daemon, draft, lock>> /\ Sent' = Sent
    BY <1>3 DEF Fetched, envVars, Sent
  <2>2. Locked' /\ Started' /\ SentSeen'
    BY <2>1 DEF Polls, Locked, Started, SentSeen, Polling, TypeOK
  <2>3. Drafted'
    BY <2>1 DEF Polls, Drafted, Polling, TypeOK
  <2> QED
    BY <2>2, <2>3 DEF Polls
<1>4. ASSUME NEW p \in Poller, Send(p) PROVE Polls'
  <2>1. phase[p] \in Polling /\ PollDone(p) /\ UNCHANGED <<daemon, taken>>
    BY <1>4 DEF Send, envVars, Polling
  <2>2. draft[p] \in Snapshot
    BY <1>4, DraftIsSnapshot DEF Send, Polls, Drafted
  <2>3. Sent' = Sent \/ (Sent' # << >> /\ Sent'[1] = draft[p])
    <3>1. CASE updates' = updates
      BY <2>1, <3>1 DEF Sent
    <3>2. CASE updates' = Append(updates, draft[p])
      BY <2>2, <3>2, SentAppended
    <3> QED
      BY <1>4, <3>1, <3>2 DEF Send
  <2> QED
    BY <2>1, <2>2, <2>3, PollDoneStays
<1>5. ASSUME NEW p \in Poller, PollFails(p) PROVE Polls'
  <2>1. phase[p] \in Polling /\ PollDone(p) /\ UNCHANGED daemon /\ Sent' = Sent
    BY <1>5 DEF PollFails, Polling, Sent
  <2> QED
    BY <2>1, PollDoneStays
<1>6. CASE Tick
  <2>1. phase["main"] = "exited" /\ "periodic" # "main"
    BY <1>6 DEF Tick, Polls, Started
  <2> QED
    BY <1>6, <2>1, AsideStays DEF Tick, Aside, TypeOK, watchVars, envVars, Sent
<1>7. CASE TaskTick
  <2>1. /\ "task" \in Poller /\ phase["task"] = "idle" /\ phase' = [phase EXCEPT !["task"] = "checking"]
        /\ draft' = [draft EXCEPT !["task"]["tasks"] = daemon["tasks"]]
        /\ UNCHANGED <<lock, daemon>> /\ Sent' = Sent
    BY <1>7 DEF TaskTick, envVars, Sent
  <2>2. \A q \in Poller \ {"task"} : draft'[q] = draft[q] /\ phase'[q] = phase[q]
    BY <2>1 DEF TypeOK
  <2>3. phase'["task"] = "checking" /\ phase["main"] = "exited"
    BY <1>7, <2>1 DEF Polls, Started, TypeOK, TaskTick
  <2> QED
    BY <2>1, <2>2, <2>3 DEF Polls, Locked, Started, Drafted, SentSeen, Polling
<1>8. CASE CompareTasks
  <2>1. /\ "task" \in Poller /\ phase["task"] = "checking"
        /\ draft' = [draft EXCEPT !["task"] = Blank]
        /\ \E h \in {"waiting", "idle"} : phase' = [phase EXCEPT !["task"] = h]
        /\ UNCHANGED <<lock, daemon>> /\ Sent' = Sent
    BY <1>8 DEF CompareTasks, envVars, Sent
  <2>2. \A q \in Poller \ {"task"} : draft'[q] = draft[q] /\ phase'[q] = phase[q]
    BY <2>1 DEF TypeOK
  <2>3. phase'["task"] \in {"waiting", "idle"} /\ phase["main"] = "exited"
        /\ \A x \in Part : draft'["task"][x] = Unread
    BY <1>8, <2>1 DEF Polls, Started, TypeOK, CompareTasks, Blank
  <2> QED
    BY <2>1, <2>2, <2>3 DEF Polls, Locked, Started, Drafted, SentSeen, Polling
<1>9. CASE ReceiveEvent \/ StreamError \/ Subscribe \/ Fire \/ StreamBreaks \/ Cancel \/ Stop
  BY <1>9, AsideStays DEF ReceiveEvent, StreamError, Subscribe, Fire, StreamBreaks, Cancel, Stop,
       Aside, pollVars, envVars, Sent
<1>10. CASE Notified
  <2>1. phase["main"] = "exited"
    BY <1>10 DEF Notified, Watching, Polls, Started
  <2> QED
    BY <1>10, <2>1, AsideStays DEF Notified, Watching, Aside, TypeOK, envVars, Sent
<1>11. ASSUME NEW x \in Part, DaemonChanges(x) PROVE Polls'
  <2>1. UNCHANGED <<phase, lock, draft>> /\ Sent' = Sent
    BY <1>11 DEF DaemonChanges, pollVars, Sent
  <2>2. \A y \in Part : daemon[y] \in Nat /\ daemon'[y] \in Nat /\ daemon[y] <= daemon'[y]
    <3>1. daemon \in [Part -> 0 .. MaxChanges] /\ daemon' = [daemon EXCEPT ![x] = daemon[x] + 1]
      BY <1>11 DEF DaemonChanges, TypeOK, Snapshot, Versions
    <3>2. \A y \in Part : daemon[y] \in Nat /\ daemon'[y] = IF y = x THEN daemon[y] + 1 ELSE daemon[y]
      BY <3>1
    <3> QED
      BY <3>2
  <2>3. Drafted'
    <3>1. \A p \in Poller, y \in Part : draft[p][y] \in Nat
      BY DEF TypeOK
    <3> QED
      BY <2>1, <2>2, <3>1 DEF Polls, Drafted
  <2>4. SentSeen'
    <3>1. Sent # << >> => \A y \in Part : Sent[1][y] \in Nat
      BY SentTyped DEF Snapshot, Versions
    <3> QED
      BY <2>1, <2>2, <3>1 DEF Polls, SentSeen
  <2> QED
    BY <2>1, <2>3, <2>4 DEF Polls, Locked, Started
<1>12. CASE Consume
  BY <1>12, SentTaken, AsideStays DEF Consume, Aside
<1>13. ASSUME NEW p \in Loop, Exit(p) PROVE Polls'
  <2>1. phase["main"] = "exited"
    BY <1>13 DEF Exit, Polls, Started
  <2> QED
    BY <1>13, <2>1, AsideStays DEF Exit, Aside, TypeOK, watchVars, envVars, Sent
<1> QED
  BY <1>1, <1>2, <1>3, <1>4, <1>5, <1>6, <1>7, <1>8, <1>9, <1>10, <1>11, <1>12, <1>13
  DEF Next, Poll, Watch

\* What was sent last changes with the send of a full draft, and with nothing else.
LEMMA SentMoves ==
    ASSUME Typed, Polls, [Next]_vars
    PROVE  \/ Sent' = Sent
           \/ \E p \in Poller : /\ Send(p) /\ draft[p] \in Snapshot
                                /\ Sent' # << >> /\ Sent'[1] = draft[p]
<1> USE DEF Typed
<1>1. ASSUME NEW p \in Poller, Send(p)
      PROVE  Sent' = Sent \/ (draft[p] \in Snapshot /\ Sent' # << >> /\ Sent'[1] = draft[p])
  <2>1. draft[p] \in Snapshot
    BY <1>1, DraftIsSnapshot DEF Send, Polls, Drafted
  <2>2. CASE updates' = updates
    BY <1>1, <2>2 DEF Send, envVars, Sent
  <2>3. CASE updates' = Append(updates, draft[p])
    BY <2>1, <2>3, SentAppended
  <2> QED
    BY <1>1, <2>1, <2>2, <2>3 DEF Send
<1>2. CASE Consume
  BY <1>2, SentTaken
<1>3. CASE UNCHANGED <<updates, taken>>
  BY <1>3 DEF Sent
<1>4. UNCHANGED <<updates, taken>> \/ Consume \/ \E p \in Poller : Send(p)
  BY DEF vars, Next, Poll, Watch, Lock, Read, Fetched, PollFails, Tick, TaskTick, CompareTasks,
         ReceiveEvent, Notified, StreamError, Subscribe, Fire, DaemonChanges, StreamBreaks,
         Cancel, Stop, Exit, envVars, pollVars
<1> QED
  BY <1>1, <1>2, <1>3, <1>4

\* ... and never back to an older state of a part.
LEMMA SentGrows ==
    ASSUME Typed, Polls, [Next]_vars, Sent # << >>
    PROVE  Sent' # << >> /\ \A x \in Part : Sent'[1][x] >= Sent[1][x]
<1>1. CASE Sent' = Sent
  <2>1. \A x \in Part : Sent[1][x] \in Nat
    BY Bounds, SentTyped DEF Typed, Snapshot, Versions
  <2> QED
    BY <1>1, <2>1
<1>2. ASSUME NEW p \in Poller, Send(p), draft[p] \in Snapshot, Sent' # << >>, Sent'[1] = draft[p]
      PROVE  \A x \in Part : Sent'[1][x] >= Sent[1][x]
  <2>1. \A x \in Part : /\ Sent[1][x] \in Nat /\ draft[p][x] \in Nat /\ draft[p][x] # Unread
    BY <1>2, Bounds, SentTyped DEF Typed, Snapshot, Versions
  <2>2. \A x \in Part : Sent[1][x] <= draft[p][x]
    BY <1>2, <2>1 DEF Send, Polls, Drafted, Polling
  <2> QED
    BY <1>2, <2>1, <2>2
<1> QED
  BY <1>1, <1>2, SentMoves

----------------------------------------------------------------------------
(* Nothing is forgotten.                                                   *)

\* A task change is never skipped before it was sent.
LEMMA StepFingerprint ==
    ASSUME Typed, Polls, FingerprintSent, Next
    PROVE  FingerprintSent'
<1> SUFFICES ASSUME Swarm, taskFP' # Unread, ~ctxDone'
             PROVE  IF lock' # "none" /\ phase'[lock'] = "sending"
                    THEN taskFP' = draft'[lock']["tasks"]
                    ELSE Sent' # << >> /\ taskFP' = Sent'[1]["tasks"]
  BY DEF FingerprintSent
<1> USE Names DEF Typed
<1> DEFINE Ready == lock # "none" /\ phase[lock] = "sending"
           Goal == IF lock' # "none" /\ phase'[lock'] = "sending"
                   THEN taskFP' = draft'[lock']["tasks"]
                   ELSE Sent' # << >> /\ taskFP' = Sent'[1]["tasks"]
<1>1. ~ctxDone
  BY DEF Next, Poll, Watch, Lock, Read, Fetched, Send, PollFails, Tick, TaskTick, CompareTasks,
         ReceiveEvent, Notified, StreamError, Subscribe, Fire, DaemonChanges, StreamBreaks,
         Consume, Cancel, Stop, Exit, envVars, pollVars, TypeOK
<1>2. taskFP # Unread => IF Ready THEN taskFP = draft[lock]["tasks"]
                         ELSE Sent # << >> /\ taskFP = Sent[1]["tasks"]
  BY <1>1 DEF FingerprintSent
<1>3. ASSUME UNCHANGED <<taskFP, lock>>, Sent' = Sent,
             \A p \in Poller : phase[p] = "sending" \/ phase'[p] = "sending" =>
                              phase'[p] = phase[p] /\ draft'[p] = draft[p]
      PROVE  Goal
  BY <1>2, <1>3 DEF TypeOK
<1>4. ASSUME NEW p \in Poller, Lock(p) PROVE Goal
  <2>1. lock = "none" /\ lock' = p /\ phase'[p] = "reading" /\ UNCHANGED taskFP /\ Sent' = Sent
    BY <1>4 DEF Lock, envVars, TypeOK, Sent
  <2> QED
    BY <1>2, <2>1
<1>5. ASSUME NEW p \in Poller, NEW x \in Part, Read(p, x) PROVE Goal
  BY <1>3, <1>5 DEF Read, envVars, TypeOK, Sent
<1>6. ASSUME NEW p \in Poller, Fetched(p) PROVE Goal
  <2>1. lock = p /\ lock' = p /\ phase'[p] = "sending" /\ taskFP' = draft[p]["tasks"] /\ draft' = draft
    BY <1>6 DEF Fetched, Polls, Locked, Polling, TypeOK
  <2> QED
    BY <2>1
<1>7. ASSUME NEW p \in Poller, Send(p) PROVE Goal
  <2>1. lock = p /\ lock' = "none" /\ phase[p] = "sending" /\ UNCHANGED <<taskFP, ctxDone>>
    BY <1>7 DEF Send, PollDone, Polls, Locked, Polling, envVars
  <2>2. Sent' # << >> /\ Sent'[1] = draft[p]
    <3>1. draft[p] \in Snapshot /\ updates' = Append(updates, draft[p])
      BY <1>1, <1>7, DraftIsSnapshot DEF Send, Polls, Drafted
    <3> QED
      BY <3>1, SentAppended
  <2> QED
    BY <1>2, <2>1, <2>2
<1>8. ASSUME NEW p \in Poller, PollFails(p) PROVE Goal
  <2>1. lock = p /\ lock' = "none" /\ phase[p] = "reading" /\ UNCHANGED taskFP /\ Sent' = Sent
    BY <1>8 DEF PollFails, PollDone, Polls, Locked, Polling, Sent
  <2> QED
    BY <1>2, <2>1
<1>9. CASE Tick \/ TaskTick \/ CompareTasks \/ Notified
  BY <1>3, <1>9 DEF Tick, TaskTick, CompareTasks, Notified, Watching, watchVars, envVars, TypeOK, Sent
<1>10. CASE ReceiveEvent \/ StreamError \/ Subscribe \/ Fire \/ StreamBreaks \/ Stop \/ Cancel
            \/ \E x \in Part : DaemonChanges(x)
  BY <1>3, <1>10 DEF ReceiveEvent, StreamError, Subscribe, Fire, StreamBreaks, Stop, Cancel,
       DaemonChanges, pollVars, envVars, Sent
<1>11. CASE Consume
  BY <1>3, <1>11, SentTaken DEF Consume
<1>12. ASSUME NEW p \in Loop, Exit(p) PROVE Goal
  BY <1>3, <1>12 DEF Exit, watchVars, envVars, TypeOK, Sent
<1> QED
  BY <1>4, <1>5, <1>6, <1>7, <1>8, <1>9, <1>10, <1>11, <1>12 DEF Next, Poll, Watch

\* Neither is a local change the event stream reports.
LEMMA StepEvents ==
    ASSUME Typed, Polls, NoEventForgotten, Next
    PROVE  NoEventForgotten'
<1> DEFINE Due == stream = "up" /\ daemon["local"] > base /\ ~excused /\ ~ctxDone /\ ~stopped
           Shown == Sent # << >> /\ Sent[1]["local"] = daemon["local"]
<1> SUFFICES ASSUME Due'
             PROVE  pending' > 0 \/ timer' \/ notify' \/ EventPollAhead' \/ Shown'
  BY DEF NoEventForgotten
<1> USE Names, Bounds DEF Typed
<1> DEFINE Goal == pending' > 0 \/ timer' \/ notify' \/ EventPollAhead' \/ Shown'
<1>1. Due => pending > 0 \/ timer \/ notify \/ EventPollAhead \/ Shown
  BY DEF NoEventForgotten
<1>2. "event" \in Poller /\ "event" # "main" /\ "event" # "task" /\ "event" # "periodic"
  OBVIOUS
<1>3. ASSUME UNCHANGED <<daemon, ctxDone, stopped>>, Shown PROVE Shown'
  <2>1. Sent' # << >> /\ Sent'[1]["local"] >= Sent[1]["local"] /\ daemon["local"] \in Nat
    BY <1>3, SentGrows DEF TypeOK, Snapshot, Versions
  <2>2. Polls' /\ TypeOK'
    BY StepPolls, StepTyped DEF Polls
  <2>3. Sent'[1] \in Snapshot
    BY <1>3, SentMoves, SentTyped
  <2>4. Sent'[1]["local"] <= daemon'["local"] /\ Sent'[1]["local"] \in Nat
    BY <2>1, <2>2, <2>3 DEF Polls, SentSeen, Snapshot, Versions
  <2> QED
    BY <1>3, <2>1, <2>4
\* What is still to happen stays to happen, if the event loop is left alone.
<1>4. ASSUME UNCHANGED <<daemon, ctxDone, stopped, excused, stream, base>>,
             UNCHANGED <<pending, timer, notify>>,
             EventPollAhead => EventPollAhead' \/ Shown'
      PROVE  Goal
  BY <1>1, <1>3, <1>4
<1>5. ASSUME NEW p \in Poller, Lock(p) PROVE Goal
  <2>1. p = "event" => EventPollAhead'
    <3>1. ASSUME p = "event" PROVE phase'["event"] = "reading" /\ draft'["event"]["local"] = Unread
      BY <1>5, <3>1 DEF Lock, TypeOK, Polls, Drafted, Polling
    <3> QED
      BY <3>1 DEF EventPollAhead
  <2>2. p # "event" => (EventPollAhead => EventPollAhead')
    BY <1>2, <1>5 DEF Lock, TypeOK, EventPollAhead, envVars
  <2> QED
    BY <1>4, <1>5, <2>1, <2>2 DEF Lock, envVars, watchVars
<1>6. ASSUME NEW p \in Poller, NEW x \in Part, Read(p, x) PROVE Goal
  <2>1. EventPollAhead => EventPollAhead'
    BY <1>2, <1>6 DEF Read, TypeOK, EventPollAhead, envVars
  <2> QED
    BY <1>4, <1>6, <2>1 DEF Read, envVars, watchVars
<1>7. ASSUME NEW p \in Poller, Fetched(p) PROVE Goal
  <2>1. EventPollAhead => EventPollAhead'
    BY <1>2, <1>7 DEF Fetched, TypeOK, EventPollAhead, envVars
  <2> QED
    BY <1>4, <1>7, <2>1 DEF Fetched, envVars, watchVars
<1>8. ASSUME NEW p \in Poller, Send(p) PROVE Goal
  <2>1. ~ctxDone /\ updates' = Append(updates, draft[p]) /\ PollDone(p) /\ phase[p] = "sending"
        /\ UNCHANGED <<daemon, ctxDone, stopped, excused, stream, base, pending, timer, notify>>
    BY <1>8 DEF Send, envVars, watchVars
  <2>2. ASSUME p # "event", EventPollAhead PROVE EventPollAhead'
    <3>1. p # "main"
      BY <1>2, <2>1, <2>2 DEF EventPollAhead, Polls, Started, Polling
    <3> QED
      BY <1>2, <2>1, <2>2, <3>1 DEF EventPollAhead, PollDone, TypeOK
  <2>3. ASSUME p = "event", EventPollAhead PROVE Shown'
    <3>1. draft[p] \in Snapshot
      BY <2>1, DraftIsSnapshot DEF Polls, Drafted
    <3>2. draft[p]["local"] # Unread /\ draft[p]["local"] = daemon["local"]
      BY <2>1, <2>3, <3>1 DEF EventPollAhead, Snapshot
    <3> QED
      BY <2>1, <3>1, <3>2, SentAppended
  <2> QED
    BY <1>4, <2>1, <2>2, <2>3
<1>9. ASSUME NEW p \in Poller, PollFails(p) PROVE Goal
  <2>1. p # "event" /\ PollDone(p) /\ phase[p] = "reading" /\ ~excused
        /\ UNCHANGED <<daemon, ctxDone, stopped, excused, stream, base, pending, timer, notify>>
    BY <1>9 DEF PollFails, watchVars, TypeOK
  <2>2. ASSUME EventPollAhead PROVE EventPollAhead'
    <3>1. p # "main"
      BY <1>2, <2>1, <2>2 DEF EventPollAhead, Polls, Started, Polling
    <3> QED
      BY <1>2, <2>1, <2>2, <3>1 DEF EventPollAhead, PollDone, TypeOK
  <2> QED
    BY <1>4, <2>1, <2>2
<1>10. CASE Tick \/ TaskTick \/ CompareTasks
  <2>1. EventPollAhead => EventPollAhead'
    BY <1>2, <1>10 DEF Tick, TaskTick, CompareTasks, TypeOK, EventPollAhead, envVars
  <2> QED
    BY <1>4, <1>10, <2>1 DEF Tick, TaskTick, CompareTasks, envVars, watchVars
<1>11. CASE ReceiveEvent \/ Fire
  BY <1>1, <1>3, <1>11 DEF ReceiveEvent, Fire, EventPollAhead, pollVars, envVars, TypeOK
<1>12. CASE Notified
  <2>1. EventPollAhead'
    BY <1>12 DEF Notified, EventPollAhead, TypeOK
  <2> QED
    BY <2>1
<1>13. CASE StreamError \/ Subscribe \/ StreamBreaks \/ Cancel \/ Stop
  BY <1>13 DEF StreamError, Subscribe, StreamBreaks, Cancel, Stop, envVars, TypeOK, Snapshot, Versions
<1>14. ASSUME NEW x \in Part, DaemonChanges(x) PROVE Goal
  <2>1. CASE x = "local"
    BY <1>14, <2>1 DEF DaemonChanges, TypeOK
  <2>2. CASE x # "local"
    <3>1. daemon'["local"] = daemon["local"] /\ UNCHANGED <<phase, draft, pending>> /\ Sent' = Sent
      BY <1>14, <2>2 DEF DaemonChanges, pollVars, TypeOK, Snapshot, Sent
    <3> QED
      BY <1>1, <1>14, <3>1 DEF DaemonChanges, EventPollAhead
  <2> QED
    BY <2>1, <2>2
<1>15. CASE Consume
  BY <1>4, <1>15 DEF Consume, EventPollAhead, watchVars
<1>16. ASSUME NEW p \in Loop, Exit(p) PROVE Goal
  BY <1>16 DEF Exit, envVars
<1> QED
  BY <1>5, <1>6, <1>7, <1>8, <1>9, <1>10, <1>11, <1>12, <1>13, <1>14, <1>15, <1>16
  DEF Next, Poll, Watch

----------------------------------------------------------------------------
(* The theorems.                                                           *)

\* The collector starts with nothing read, sent or reported.
LEMMA InitInv == Init => CollectorInv
<1> SUFFICES ASSUME Init PROVE CollectorInv
  OBVIOUS
<1>1. Typed
  BY InitTyped
<1>2. Locked /\ Started
  BY Names DEF Init, Locked, Started, Polling
<1>3. Sent = << >> /\ \A p \in Poller, x \in Part : draft[p][x] = Unread
  BY DEF Init, Sent, Blank
<1>4. Drafted /\ SentSeen
  BY <1>2, <1>3, Names DEF Init, Drafted, SentSeen
<1>5. NothingForgotten
  BY DEF Init, NothingForgotten, FingerprintSent, NoEventForgotten
<1> QED
  BY <1>1, <1>2, <1>4, <1>5 DEF CollectorInv, Typed

\* Every step of a goroutine, of the daemon and of the consumer keeps the invariant.
LEMMA StepInv == CollectorInv /\ [Next]_vars => CollectorInv'
<1> SUFFICES ASSUME CollectorInv, [Next]_vars PROVE CollectorInv'
  OBVIOUS
<1>1. Typed /\ Polls /\ FingerprintSent /\ NoEventForgotten
  BY DEF CollectorInv, Typed, Polls, NothingForgotten
<1>2. CASE Next
  <2>1. Typed' /\ Polls'
    BY <1>1, <1>2, StepTyped, StepPolls DEF Polls
  <2>2. FingerprintSent' /\ NoEventForgotten'
    BY <1>1, <1>2, StepFingerprint, StepEvents
  <2> QED
    BY <2>1, <2>2 DEF CollectorInv, Typed, Polls, NothingForgotten
<1>3. CASE UNCHANGED vars
  BY <1>3 DEF CollectorInv, TypeOK, Locked, Started, Drafted, SentSeen, NothingForgotten,
     FingerprintSent, NoEventForgotten, EventPollAhead, HasRoom, Sent, vars
<1> QED
  BY <1>2, <1>3

\* The invariant of the collector.
LEMMA Invariant == Spec => []CollectorInv
<1> QED
  BY InitInv, StepInv, PTL DEF Spec

\* The poll state, the channel and the event loop keep their types: the updates channel
\* never holds more than its capacity (docker.go:46), whoever sends.
THEOREM TypeCorrect == Spec => []TypeOK
<1>1. CollectorInv => TypeOK
  BY DEF CollectorInv
<1> QED
  BY <1>1, Invariant, PTL

\* The fingerprint that lets checkTasks skip a poll (docker.go, checkTasks and poll) and
\* the debouncer's single signal (debounce.go) forget no change, however the polls of
\* the goroutines and the changes of the daemon interleave.
THEOREM ChangesKept == Spec => []NothingForgotten
<1>1. CollectorInv => NothingForgotten
  BY DEF CollectorInv
<1> QED
  BY <1>1, Invariant, PTL

\* Snapshots are published in the order they were observed (docker.go:103-104).
THEOREM SnapshotsInOrder == Spec => NoRollback
<1>1. CollectorInv /\ [Next]_vars =>
        [Sent # << >> => \A x \in Part : Sent'[1][x] >= Sent[1][x]]_vars
  BY SentGrows DEF CollectorInv, Typed, Polls
<1> QED
  BY <1>1, Invariant, PTL DEF Spec, NoRollback
=============================================================================
