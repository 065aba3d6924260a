-------------------------- MODULE DockerCollector --------------------------
(***************************************************************************)
(* backend/collector/docker.go and debounce.go: the collector of the       *)
(* daemon's topology.  Three goroutines poll: one on a ticker, one on the  *)
(* daemon's events, debounced, and one (swarm only) when the fingerprint   *)
(* of the cluster's tasks changed, which no local event reports.  A poll   *)
(* holds pollMu, queries the daemon's resources concurrently and sends     *)
(* the snapshot on a bounded channel, which pipeUpdates takes from.        *)
(*                                                                         *)
(* The daemon's state is the number of changes of each of its parts; a     *)
(* snapshot is the number of each it saw.  `base' and `excused' are        *)
(* history.                                                                *)
(***************************************************************************)
EXTENDS Naturals, Sequences

CONSTANTS
    Swarm,          \* BOOLEAN: task polling is enabled
    UpdateCap,      \* capacity of the updates channel (16)
    MaxChanges,     \* bound: local changes of the daemon
    MaxTaskChanges, \* bound: changes of the cluster's tasks and nodes
    MaxFailures     \* bound: queries that fail

ASSUME CollectorAssumption ==
    /\ Swarm \in BOOLEAN
    /\ UpdateCap \in Nat \ {0}
    /\ MaxChanges \in Nat /\ MaxTaskChanges \in 0 .. MaxChanges
    /\ MaxFailures \in Nat

\* What the events report, and the tasks and nodes of the cluster.
Part == IF Swarm THEN {"local", "tasks"} ELSE {"local"}

Loop == {"periodic", "event"} \union (IF Swarm THEN {"task"} ELSE {})
Poller == Loop \union {"main"}      \* main polls once in Start

Unread == MaxChanges + 1
Versions == 0 .. MaxChanges
Snapshot == [Part -> Versions]

VARIABLES
    daemon,     \* how often each part of the daemon changed
    failures,   \* how many queries failed
    stream,     \* the event stream: none yet or in backoff, up, broken
    pending,    \* topology events the stream has still to deliver
    timer,      \* the debouncer's timer runs
    notify,     \* the debouncer's channel holds a signal
    phase,      \* per poller: off, idle, checking, waiting, reading, sending, exited
    lock,       \* who holds pollMu, or "none"
    draft,      \* per poller, the version of each part it read
    taskFP,     \* the fingerprint of the task set last snapshotted, or Unread
    updates,    \* the snapshots in the updates channel
    taken,      \* the snapshots pipeUpdates took last, if any
    ctxDone,    \* the process is told to end: pipeUpdates ends, sends give up
    stopped,    \* Stop closed stopCh
    base,       \* history: local changes made before the stream was opened
    excused     \* history: an event-triggered poll failed since the last event

vars == <<daemon, failures, stream, pending, timer, notify, phase, lock, draft, taskFP,
          updates, taken, ctxDone, stopped, base, excused>>

pollVars == <<phase, lock, draft, taskFP, updates>>
watchVars == <<stream, pending, timer, notify, base>>
envVars == <<daemon, failures, taken, ctxDone, stopped>>

Blank == [x \in Part |-> Unread]

Init ==
    /\ daemon = [x \in Part |-> 0]
    /\ failures = 0
    /\ stream = "backoff" /\ pending = 0
    /\ timer = FALSE /\ notify = FALSE
    /\ phase = [p \in Poller |-> IF p = "main" THEN "waiting" ELSE "off"]
    /\ lock = "none"
    /\ draft = [p \in Poller |-> Blank]
    /\ taskFP = Unread
    /\ updates = << >> /\ taken = << >>
    /\ ctxDone = FALSE /\ stopped = FALSE
    /\ base = 0
    /\ excused = FALSE

\* The unlock at the end of a poll.  After its poll, main starts the goroutines.
PollDone(p) ==
    /\ lock' = "none"
    /\ draft' = [draft EXCEPT ![p] = Blank]
    /\ phase' = IF p = "main"
                THEN [q \in Poller |-> IF q = "main" THEN "exited" ELSE "idle"]
                ELSE [phase EXCEPT ![p] = "idle"]

----------------------------------------------------------------------------
(* A poll.                                                                 *)

\* Mutant: polls may overlap.
LockNothing(p) ==
    /\ phase[p] = "waiting"
    /\ lock' = p
    /\ phase' = [phase EXCEPT ![p] = "reading"]
    /\ UNCHANGED <<watchVars, envVars, draft, taskFP, updates, excused>>

Lock(p) ==
    /\ phase[p] = "waiting"
    /\ lock = "none"
    /\ lock' = p
    /\ phase' = [phase EXCEPT ![p] = "reading"]
    /\ UNCHANGED <<watchVars, envVars, draft, taskFP, updates, excused>>

\* One of the concurrent queries returns.
Read(p, x) ==
    /\ phase[p] = "reading"
    /\ ~ctxDone
    /\ draft[p][x] = Unread
    /\ draft' = [draft EXCEPT ![p][x] = daemon[x]]
    /\ UNCHANGED <<watchVars, envVars, phase, lock, taskFP, updates, excused>>

\* All returned: the task fingerprint is stored, then the snapshot is sent.
Fetched(p) ==
    /\ phase[p] = "reading"
    /\ \A x \in Part : draft[p][x] # Unread
    /\ taskFP' = IF Swarm THEN draft[p]["tasks"] ELSE taskFP
    /\ phase' = [phase EXCEPT ![p] = "sending"]
    /\ UNCHANGED <<watchVars, envVars, lock, draft, updates, excused>>

HasRoom == Len(updates) < UpdateCap

\* Mutant: the send waits for room alone.
SendBlocks(p) ==
    /\ phase[p] = "sending"
    /\ HasRoom
    /\ updates' = Append(updates, draft[p])
    /\ PollDone(p)
    /\ UNCHANGED <<watchVars, envVars, taskFP, excused>>

\* The send waits for room, and gives up only when the process ends.
Send(p) ==
    /\ phase[p] = "sending"
    /\ \/ HasRoom /\ updates' = Append(updates, draft[p])
       \/ ctxDone /\ updates' = updates
    /\ PollDone(p)
    /\ UNCHANGED <<watchVars, envVars, taskFP, excused>>

\* Mutant: the error path keeps the lock.
PollFailsLocked(p) ==
    /\ phase[p] = "reading"
    /\ p # "main" /\ failures < MaxFailures /\ failures' = failures + 1
    /\ phase' = [phase EXCEPT ![p] = "idle"]
    /\ excused' = (excused \/ p = "event")
    /\ UNCHANGED <<watchVars, daemon, taken, ctxDone, stopped, lock, draft, taskFP, updates>>

\* A query fails or times out, or the process ends.  (main exits the process when
\* its poll fails: not modelled.)
PollFails(p) ==
    /\ phase[p] = "reading"
    /\ \/ p # "main" /\ failures < MaxFailures /\ failures' = failures + 1
       \/ ctxDone /\ failures' = failures
    /\ PollDone(p)
    /\ excused' = (excused \/ p = "event")
    /\ UNCHANGED <<watchVars, daemon, taken, ctxDone, stopped, taskFP, updates>>

----------------------------------------------------------------------------
(* What starts a poll.                                                     *)

\* pollLoop's ticker.
Tick ==
    /\ phase["periodic"] = "idle"
    /\ phase' = [phase EXCEPT !["periodic"] = "waiting"]
    /\ UNCHANGED <<watchVars, envVars, lock, draft, taskFP, updates, excused>>

\* checkTasks asks for the tasks, without pollMu ...
TaskTick ==
    /\ Swarm
    /\ phase["task"] = "idle"
    /\ phase' = [phase EXCEPT !["task"] = "checking"]
    /\ draft' = [draft EXCEPT !["task"]["tasks"] = daemon["tasks"]]
    /\ UNCHANGED <<watchVars, envVars, lock, taskFP, updates, excused>>

\* Mutant: the new fingerprint is stored before the poll it asks for.
CompareTasksStores ==
    /\ Swarm
    /\ phase["task"] = "checking"
    /\ phase' = [phase EXCEPT !["task"] = IF draft["task"]["tasks"] # taskFP
                                          THEN "waiting" ELSE "idle"]
    /\ taskFP' = draft["task"]["tasks"]
    /\ draft' = [draft EXCEPT !["task"] = Blank]
    /\ UNCHANGED <<watchVars, envVars, lock, updates, excused>>

\* ... and polls if their fingerprint is not the one last snapshotted.
CompareTasks ==
    /\ Swarm
    /\ phase["task"] = "checking"
    /\ phase' = [phase EXCEPT !["task"] = IF draft["task"]["tasks"] # taskFP
                                          THEN "waiting" ELSE "idle"]
    /\ draft' = [draft EXCEPT !["task"] = Blank]
    /\ UNCHANGED <<watchVars, envVars, lock, taskFP, updates, excused>>

\* watchEvents waits in its select.
Watching == phase["event"] = "idle"

\* A topology event (re)starts the debouncer's timer.
ReceiveEvent ==
    /\ Watching /\ stream # "backoff"
    /\ pending > 0
    /\ pending' = pending - 1
    /\ timer' = TRUE
    /\ excused' = FALSE
    /\ UNCHANGED <<pollVars, envVars, stream, notify, base>>

\* The timer fires: one signal is buffered, a second one dropped.
Fire ==
    /\ timer
    /\ timer' = FALSE /\ notify' = TRUE
    /\ UNCHANGED <<pollVars, envVars, stream, pending, base, excused>>

\* Mutant: no poll while another one is running.
NotifiedSkipsBusy ==
    /\ Watching /\ stream # "backoff"
    /\ notify
    /\ notify' = FALSE
    /\ phase' = IF lock = "none" THEN [phase EXCEPT !["event"] = "waiting"] ELSE phase
    /\ UNCHANGED <<envVars, stream, pending, timer, base, lock, draft, taskFP, updates,
                   excused>>

Notified ==
    /\ Watching /\ stream # "backoff"
    /\ notify
    /\ notify' = FALSE
    /\ phase' = [phase EXCEPT !["event"] = "waiting"]
    /\ UNCHANGED <<envVars, stream, pending, timer, base, lock, draft, taskFP, updates,
                   excused>>

\* The stream's error: the timer is stopped, a running trigger lost, and the stream
\* opened again after a delay.
StreamError ==
    /\ Watching
    /\ stream = "broken" /\ pending = 0
    /\ timer' = FALSE
    /\ stream' = "backoff"
    /\ UNCHANGED <<pollVars, envVars, pending, notify, base, excused>>

\* Opens the stream, the first time or again: it reports changes from now on.
Subscribe ==
    /\ Watching
    /\ stream = "backoff"
    /\ stream' = "up"
    /\ base' = daemon["local"]
    /\ UNCHANGED <<pollVars, envVars, pending, timer, notify, excused>>

----------------------------------------------------------------------------
(* The daemon, the consumer, and the end.                                  *)

\* External: a part of the daemon changes; local changes come with an event.
DaemonChanges(x) ==
    /\ daemon[x] < IF x = "local" THEN MaxChanges ELSE MaxTaskChanges
    /\ daemon' = [daemon EXCEPT ![x] = @ + 1]
    /\ pending' = IF x = "local" /\ stream = "up" THEN pending + 1 ELSE pending
    /\ UNCHANGED <<pollVars, failures, taken, ctxDone, stopped, stream, timer, notify,
                   base, excused>>

\* External: the stream breaks, with some of its events undelivered.
StreamBreaks ==
    /\ stream = "up"
    /\ failures < MaxFailures
    /\ failures' = failures + 1
    /\ stream' = "broken"
    /\ \E left \in 0 .. pending : pending' = left
    /\ UNCHANGED <<pollVars, daemon, taken, ctxDone, stopped, timer, notify, base, excused>>

\* pipeUpdates takes a snapshot.
Consume ==
    /\ ~ctxDone
    /\ updates # << >>
    /\ taken' = <<Head(updates)>>
    /\ updates' = Tail(updates)
    /\ UNCHANGED <<watchVars, daemon, failures, ctxDone, stopped, phase, lock, draft,
                   taskFP, excused>>

\* A signal ends the process.
Cancel ==
    /\ ~ctxDone
    /\ ctxDone' = TRUE
    /\ UNCHANGED <<watchVars, pollVars, daemon, failures, taken, stopped, excused>>

Stop ==
    /\ phase["main"] = "exited"
    /\ ~stopped
    /\ stopped' = TRUE
    /\ UNCHANGED <<watchVars, pollVars, daemon, failures, taken, ctxDone, excused>>

\* A goroutine in its select sees the end.
Exit(p) ==
    /\ ctxDone \/ stopped
    /\ phase[p] = "idle"
    /\ phase' = [phase EXCEPT ![p] = "exited"]
    /\ UNCHANGED <<watchVars, envVars, lock, draft, taskFP, updates, excused>>

----------------------------------------------------------------------------

Poll(p) ==
    Lock(p) \/ (\E x \in Part : Read(p, x)) \/ Fetched(p) \/ Send(p)

Watch == ReceiveEvent \/ Notified \/ StreamError \/ Subscribe

Next ==
    \/ \E p \in Poller : Poll(p) \/ PollFails(p)
    \/ Tick \/ TaskTick \/ CompareTasks \/ Watch \/ Fire
    \/ \E x \in Part : DaemonChanges(x)
    \/ StreamBreaks \/ Consume \/ Cancel \/ Stop
    \/ \E p \in Loop : Exit(p)

Spec == Init /\ [][Next]_vars

\* Goroutines run, pollMu is handed to every waiter, a select with several ready
\* cases takes each of them again and again, and a query returns or fails.
Fairness ==
    /\ \A p \in Poller : /\ SF_vars(Lock(p))
                         /\ WF_vars(Poll(p) \/ (ctxDone /\ PollFails(p)))
    /\ \A p \in Loop : SF_vars(Exit(p))
    /\ WF_vars(Tick) /\ WF_vars(TaskTick) /\ WF_vars(CompareTasks) /\ WF_vars(Fire)
    /\ SF_vars(ReceiveEvent) /\ SF_vars(Notified) /\ SF_vars(StreamError) /\ SF_vars(Subscribe)
    /\ WF_vars(Consume)

FairSpec == Spec /\ Fairness

----------------------------------------------------------------------------

Stage == {"off", "idle", "checking", "waiting", "reading", "sending", "exited"}

TypeOK ==
    /\ daemon \in Snapshot
    /\ failures \in 0 .. MaxFailures
    /\ stream \in {"backoff", "up", "broken"}
    /\ pending \in 0 .. MaxChanges
    /\ timer \in BOOLEAN /\ notify \in BOOLEAN
    /\ phase \in [Poller -> Stage]
    /\ lock \in Poller \union {"none"}
    /\ draft \in [Poller -> [Part -> 0 .. Unread]]
    /\ taskFP \in 0 .. Unread
    /\ updates \in Seq(Snapshot) /\ Len(updates) <= UpdateCap
    /\ taken \in Seq(Snapshot)
    /\ ctxDone \in BOOLEAN /\ stopped \in BOOLEAN
    /\ base \in Versions /\ excused \in BOOLEAN

\* The snapshot sent last, if any.
Sent == IF updates # << >> THEN <<updates[Len(updates)]>> ELSE taken

\* "Polls never overlap, so snapshots are published in the order they were
\* observed" (docker.go:103-104): of no part does a snapshot show an older state
\* than the one sent before it, whichever goroutines polled.
NoRollback ==
    [][Sent # << >> => \A x \in Part : Sent'[1][x] >= Sent[1][x]]_vars

\* The fingerprint that lets the task poller skip a poll is that of the task set
\* last sent, or about to be: a task change is never skipped before it was sent.
FingerprintSent ==
    Swarm /\ taskFP # Unread /\ ~ctxDone =>
        IF lock # "none" /\ phase[lock] = "sending" THEN taskFP = draft[lock]["tasks"]
        ELSE Sent # << >> /\ taskFP = Sent[1]["tasks"]

\* The event loop has still to poll, or is polling and has not queried yet.
EventPollAhead ==
    \/ phase["event"] = "waiting"
    \/ phase["event"] \in {"reading", "sending"} /\ draft["event"]["local"] \in {Unread, daemon["local"]}

\* No event is forgotten: while the stream is up, a local change since it was opened
\* is in a snapshot sent, or an event, the timer, the signal or a poll that has not
\* queried yet will lead to one; unless the poll failed.  This is what a
\* debouncer with one signal must get right when events arrive during a poll.
NoEventForgotten ==
    stream = "up" /\ daemon["local"] > base /\ ~excused /\ ~ctxDone /\ ~stopped =>
        \/ pending > 0 \/ timer \/ notify \/ EventPollAhead
        \/ Sent # << >> /\ Sent[1]["local"] = daemon["local"]

\* Neither of the two ways to skip a poll forgets a change: no task change by its
\* fingerprint, no event by the debouncer.
NothingForgotten == FingerprintSent /\ NoEventForgotten

\* Once the daemon is at rest and answers, what pipeUpdates took last is its state,
\* even when events were lost with a stream or came before it was opened.
CatchesUp == <>[](ctxDone \/ stopped \/ taken = <<daemon>>)

\* "Stop signals all background goroutines to exit and waits for them" (docker.go:96):
\* it returns, whatever they are doing, a send on the full channel included.
StopReturns == stopped ~> \A p \in Poller : phase[p] = "exited"
=============================================================================
