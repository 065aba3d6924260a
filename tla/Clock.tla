------------------------------- MODULE Clock -------------------------------
(***************************************************************************)
(* The time one server process reads, in ticks.                            *)
(***************************************************************************)
EXTENDS Integers

CONSTANTS
  second,     \* ticks in a second
  MaxClock    \* bound of this model: the last tick

ASSUME ClockAssumption ==
  /\ second \in Nat \ {0}
  /\ MaxClock \in Nat

VARIABLE clock
=============================================================================
