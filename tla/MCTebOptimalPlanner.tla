------------------------ MODULE MCTebOptimalPlanner ------------------------
(***************************************************************************)
(* TebOptimalPlanner with one configuration per way through the code.      *)
(***************************************************************************)
EXTENDS TebOptimalPlanner

At(x, yaw) == [x |-> x, yaw |-> yaw]

Plans(starts, goals) == {<<start, goal>> : start \in starts, goal \in goals}

\* A car-like or holonomic robot, optimized with g2o.  One plan turns by more
\* than half a turn.
MCGraph ==
  [differential |-> FALSE, homotopy |-> FALSE, activate |-> TRUE, outer |-> 1,
   autosize |-> TRUE, minSamples |-> 3, maxSamples |-> 3, dtRef |-> 4, hysteresis |-> 1,
   reinitDistance |-> 2, reinitAngle |-> 3, tolerance |-> 2, backwards |-> FALSE,
   legacy |-> FALSE, dynamic |-> FALSE, ratio |-> TRUE, ordered |-> TRUE,
   station |-> FALSE, carlike |-> TRUE, rotdir |-> TRUE, freeGoal |-> FALSE, overwrite |-> TRUE,
   inclusion |-> 2, cutoff |-> 3, posesAffected |-> 2,
   preventLookAhead |-> 0, lookAhead |-> 1,
   plans |-> {<<At(0, 0), At(4, 0)>>, <<At(2, 0), At(2, 3), At(3, -2)>>}]

\* A robot that surges and turns on the spot.
MCDifferential ==
  [MCGraph EXCEPT !.differential = TRUE, !.backwards = TRUE, !.outer = 2, !.dtRef = 1,
                  !.ratio = FALSE, !.carlike = FALSE,
                  !.plans = Plans({At(0, 0), At(2, 0), At(0, -4)},
                                  {At(4, 0), At(4, -4), At(0, 2)})]

\* A candidate of the homotopy class planner, with the legacy association,
\* obstacles that move and repetitions of autoResize().
MCCandidate ==
  [MCGraph EXCEPT !.homotopy = TRUE, !.legacy = TRUE, !.dynamic = TRUE,
                  !.carlike = FALSE, !.ordered = FALSE, !.station = TRUE,
                  !.freeGoal = TRUE, !.overwrite = FALSE,
                  !.plans = {<<At(0, 0), At(1, 0), At(2, 0), At(3, 0), At(4, 0)>>,
                             <<At(0, 0), At(3, 0), At(6, 0), At(9, 0), At(10, 0)>>,
                             <<At(3, 0), At(4, 0)>>}]

\* A candidate towards a goal behind the robot.
MCBackwards ==
  [MCCandidate EXCEPT !.backwards = TRUE, !.dynamic = FALSE, !.overwrite = TRUE,
                      !.plans = {<<At(3, -4), At(4, -4), At(6, -4)>>}]

\* Optimization switched off.
MCInactive == [MCDifferential EXCEPT !.activate = FALSE, !.backwards = FALSE]

\* A candidate of a robot that surges and turns, over two iterations.
MCDifferentialCandidate == [MCDifferential EXCEPT !.homotopy = TRUE]
MCCandidateConfigs == {MCDifferentialCandidate}

MCConfigs == {MCGraph, MCDifferential, MCCandidate, MCBackwards, MCInactive}

MCObstacles == <<[x |-> 2, gap |-> 1, left |-> TRUE, dynamic |-> FALSE],
                 [x |-> 4, gap |-> 2, left |-> FALSE, dynamic |-> TRUE]>>
MCViaPoints == <<2, 4>>
=============================================================================
