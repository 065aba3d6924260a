----------------------------- MODULE RecentLog ------------------------------
(***************************************************************************)
(* What the event history of the dashboard promises: the last events that  *)
(* were added, in the order they were added, and no more than `capacity'.  *)
(***************************************************************************)
EXTENDS Naturals, Sequences

CONSTANTS
  Event,      \* the events that may be added
  capacity    \* how many are kept

VARIABLE log

\* The last n elements of s.
Last(s, n) ==
  IF Len(s) <= n THEN s ELSE SubSeq(s, Len(s) - n + 1, Len(s))

Init == log = <<>>

Add(e) == log' = Last(Append(log, e), capacity)

Next == \E e \in Event : Add(e)

Spec == Init /\ [][Next]_log
=============================================================================
