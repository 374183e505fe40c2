--------------------------- MODULE FailureDetector ---------------------------
(***************************************************************************)
(* FailureDetector (recovery_behaviors.cpp): a circular buffer of the last *)
(* commands, each normalised by the limits in force when it was given, and *)
(* the decision over all of it whether the robot oscillates in place.      *)
(* Normalised speeds are whole percents of a limit.                        *)
(***************************************************************************)
EXTENDS Integers, Sequences, SequencesExt

CONSTANTS
  Capacity,   \* setBufferLength()
  Epsilon     \* oscillation_v_eps and oscillation_omega_eps, in percent

Magnitude(x) == IF x < 0 THEN -x ELSE x
SignOf(x) == IF x > 0 THEN 1 ELSE IF x < 0 THEN -1 ELSE 0

\* A speed is compared with its own limit; without one it stays as it is.
Percent(x, limit) ==
  IF limit > 0 THEN SignOf(x) * ((100 * Magnitude(x)) \div limit) ELSE 100 * x

Measurement(c, forward, backward, angular) ==
  [v |-> IF c.surge > 0 THEN Percent(c.surge, forward) ELSE Percent(c.surge, backward),
   omega |-> Percent(c.yaw, angular)]

\* push_back() on a full circular buffer drops its oldest element.
Update(buffer, measurement) ==
  IF Capacity = 0 THEN buffer
  ELSE LET longer == Append(buffer, measurement)
       IN IF Len(longer) > Capacity THEN Tail(longer) ELSE longer

Total(values) == FoldLeft(LAMBDA sum, value : sum + value, 0, values)

ZeroCrossings(buffer) ==
  {i \in 2 .. Len(buffer) : SignOf(buffer[i].omega) # SignOf(buffer[i - 1].omega)}

\* detect(), over a buffer that is half full at least.
Oscillates(buffer) ==
  LET n == Len(buffer) IN
  /\ Capacity > 0 /\ n >= Capacity \div 2
  /\ Magnitude(Total([i \in 1 .. n |-> buffer[i].v])) < Epsilon * n
  /\ Magnitude(Total([i \in 1 .. n |-> buffer[i].omega])) < Epsilon * n
  /\ Cardinality(ZeroCrossings(buffer)) > 1
=============================================================================
