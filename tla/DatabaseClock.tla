---------------------------- MODULE DatabaseClock ----------------------------
(***************************************************************************)
(* The clock of PostgreSQL, and what the service keeps of it: a timestamp  *)
(* has microseconds (ticks of this clock), the Date of JavaScript that a   *)
(* row is read into has milliseconds.                                      *)
(***************************************************************************)
EXTENDS Integers

CONSTANTS
  Millisecond,  \* ticks in a millisecond
  MaxTime       \* bound of the model: the last tick

ASSUME ClockIsNatural == Millisecond \in Nat \ {0} /\ MaxTime \in Nat

VARIABLE now

Times == 0..MaxTime

\* A timestamp that the service has read, or taken from its own clock.
Date(t) == t - (t % Millisecond)

TimePasses == now < MaxTime /\ now' = now + 1

=============================================================================
