---------------------------- MODULE EventHistory ----------------------------
(***************************************************************************)
(* The history of Docker events behind the dashboard: the circular buffer  *)
(* of collector/event_history.go and pipeEvents of main.go, which fills it *)
(* from a stream of the daemon and opens a new stream when one fails.      *)
(*                                                                         *)
(* The buffer is indexed from 0 as in the code.  An event is a model value *)
(* here: what Add cuts and masks is left out.                              *)
(***************************************************************************)
EXTENDS Integers, Sequences

CONSTANTS
  Event,      \* the events worth keeping
  Noise,      \* the events of execs, health checks and dockgraph itself
  capacity,   \* the size of the buffer
  NoEvent,    \* an empty place of the buffer
  MaxSent     \* bound of this model: events on their way

ASSUME HistoryAssumption ==
  /\ capacity \in Nat \ {0}
  /\ NoEvent \notin Event \cup Noise

VARIABLES
  buf, head, count,   \* EventHistory
  stream              \* what the daemon has sent and pipeEvents not read, or
                      \* Failed when the stream has ended with an error

eventVars == <<buf, head, count, stream>>

Failed == <<NoEvent>>

EventsInit ==
  /\ buf = [i \in 0..(capacity - 1) |-> NoEvent]
  /\ head = 0
  /\ count = 0
  /\ stream = <<>>

AddFromStart(e) ==      \* a mutant: a full buffer is written from its start
  /\ buf' = [buf EXCEPT ![head] = e]
  /\ head' = IF head + 1 = capacity THEN 1 % capacity ELSE head + 1
  /\ count' = IF count < capacity THEN count + 1 ELSE count

\* EventHistory.Add.
Add(e) ==
  /\ buf' = [buf EXCEPT ![head] = e]
  /\ head' = (head + 1) % capacity
  /\ count' = IF count < capacity THEN count + 1 ELSE count

RecentFromHead(n) ==    \* a mutant: starts at the place written next
  [i \in 1..(IF n > count THEN count ELSE n) |->
     buf[(head - i + 1 + capacity) % capacity]]

\* EventHistory.Recent: the last n events, the newest first.
Recent(n) ==
  [i \in 1..(IF n > count THEN count ELSE n) |->
     buf[(head - i + capacity) % capacity]]

\* The daemon emits an event; one that finds no open stream is never seen.
Emit(e) ==
  /\ stream # Failed /\ Len(stream) < MaxSent
  /\ stream' = Append(stream, e)
  /\ UNCHANGED <<buf, head, count>>

\* The stream fails, with what was not read of it.
Fail ==
  /\ stream # Failed
  /\ stream' = Failed
  /\ UNCHANGED <<buf, head, count>>

\* pipeEvents waits and opens another stream, which starts at present.
Reconnect ==
  /\ stream = Failed
  /\ stream' = <<>>
  /\ UNCHANGED <<buf, head, count>>

\* pipeEvents reads an event and keeps it,
Keep ==
  /\ stream # Failed /\ stream # <<>> /\ Head(stream) \in Event
  /\ Add(Head(stream))
  /\ stream' = Tail(stream)

\* or skips it.
Skip ==
  /\ stream # Failed /\ stream # <<>> /\ Head(stream) \notin Event
  /\ stream' = Tail(stream)
  /\ UNCHANGED <<buf, head, count>>

EventsNext ==
  \/ \E e \in Event \cup Noise : Emit(e)
  \/ Keep \/ Skip \/ Fail \/ Reconnect

EventsSpec == EventsInit /\ [][EventsNext]_eventVars

-----------------------------------------------------------------------------
(* Properties.                                                             *)

EventsTypeOK ==
  /\ buf \in [0..(capacity - 1) -> Event \cup {NoEvent}]
  /\ head \in 0..(capacity - 1)
  /\ count \in 0..capacity

\* The buffer read from its oldest event to its newest.
At(h, c, i) == (h - c + i - 1 + capacity) % capacity
Place(i) == At(head, count, i)
OldestFirst == [i \in 1..count |-> buf[Place(i)]]

RL == INSTANCE RecentLog WITH log <- OldestFirst

\* Read in order, the circular buffer is the log of the last events, whatever
\* was skipped and however often the stream broke (event_history.go:19-20).
ImplementsLog == RL!Spec

\* Recent(n) is the last n of that log, newest first, for every n: no event is
\* missing, repeated or read from a place never written.
RecentIsNewest ==
  \A n \in 0..(capacity + 1) :
    LET m == IF n > count THEN count ELSE n
    IN /\ Len(Recent(n)) = m
       /\ \A i \in 1..m : Recent(n)[i] = OldestFirst[count - i + 1]
                          /\ Recent(n)[i] \in Event
=============================================================================
