------------------------- MODULE MCCommandContinuity -------------------------
(* Values of the constants of CommandContinuity for TLC. *)
EXTENDS CommandContinuity

CONSTANTS r1, r2

MCRoutes == {r1, r2}
MCHorizons == {1, 3}
MCRequests ==
  {[surge |-> 2, yaw |-> 0], [surge |-> 2, yaw |-> -2], [surge |-> -1, yaw |-> 1], Zero}
MCLimits ==
  {[forward |-> 3, reverse |-> 3, angular |-> 3], [forward |-> 1, reverse |-> 0, angular |-> 1],
   [forward |-> 0, reverse |-> 0, angular |-> 0]}
=============================================================================
