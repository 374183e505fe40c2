--------------------------- MODULE CommandReference ---------------------------
(***************************************************************************)
(* What command continuity promises to whoever follows the commands: one   *)
(* accepted reference at a time.  It is zero, or it follows the previous   *)
(* one of the same route within the horizon, and then it differs from it   *)
(* by no more than the acceleration allows in one control period, however  *)
(* long the pause was.                                                     *)
(***************************************************************************)
EXTENDS Integers

CONSTANTS
  Acc,         \* acceleration of the surge, per unit of time
  AngularAcc,  \* acceleration of the yaw rate
  Period       \* the control period

VARIABLES
  horizon,     \* age at which a reference is too old to be followed
  available,   \* there is a reference
  stamp,       \* when it was accepted
  previous     \* the reference

vars == <<horizon, available, stamp, previous>>

Commands == [surge : Int, yaw : Int]

Zero == [surge |-> 0, yaw |-> 0]

\* Elapsed time that counts for a change of the reference.
Budget(elapsed) == IF elapsed < Period THEN elapsed ELSE Period

\* c lies within the acceleration bounds around p after some elapsed time.
Near(c, p, elapsed) ==
  /\ c.surge \in (p.surge - Acc * Budget(elapsed))..(p.surge + Acc * Budget(elapsed))
  /\ c.yaw \in (p.yaw - AngularAcc * Budget(elapsed))..(p.yaw + AngularAcc * Budget(elapsed))

Follows(c, t) ==
  /\ available
  /\ t > stamp /\ t - stamp <= horizon
  /\ Near(c, previous, t - stamp)

Init == available = FALSE /\ stamp = 0 /\ previous = Zero /\ horizon \in Nat

\* A command becomes the reference.
Accept ==
  /\ available' = TRUE
  /\ stamp' > 0
  /\ previous' \in Commands
  /\ previous' = Zero \/ Follows(previous', stamp')
  /\ UNCHANGED horizon

\* The reference is forgotten, at any time; only then the horizon may change.
Forget ==
  /\ available' = FALSE /\ stamp' = 0 /\ previous' = Zero
  /\ horizon' \in Nat

Next == Accept \/ Forget

Spec == Init /\ [][Next]_vars
=============================================================================
