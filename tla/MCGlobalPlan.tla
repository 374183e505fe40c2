----------------------------- MODULE MCGlobalPlan -----------------------------
(* Small instances of GlobalPlan: positions along a line, routes that turn in *)
(* place and come back, and a turn that is within the yaw tolerance.          *)
EXTENDS GlobalPlan

CONSTANTS e, n, w

MCPoints == 1..4
MCDist == [p \in MCPoints \X MCPoints |-> IF p[1] < p[2] THEN p[2] - p[1] ELSE p[1] - p[2]]
MCClose == {<<e, e>>, <<n, n>>, <<w, w>>, <<e, n>>, <<n, e>>}

P(x, y) == [at |-> x, yaw |-> y]

MCSame == {<<e, e>>, <<w, w>>}
MCAnyYaw == {e, n, w} \X {e, n, w}

\* Out, turn, and back over the same positions; two rotations at one
\* position; samples given twice and a last pose that turns.
OutAndBack == <<P(1, e), P(3, e), P(4, e), P(4, w), P(3, w), P(1, w)>>
TwiceAtOnePosition == <<P(1, e), P(3, e), P(3, n), P(3, w), P(4, w)>>
Straight == <<P(1, e), P(1, e), P(2, n), P(4, e), P(4, w)>>
MCPlans == {OutAndBack, TwiceAtOnePosition, Straight}
MCRoutes == {OutAndBack, <<P(1, e), P(3, e), P(3, w), P(3, e), P(4, e)>>}
=============================================================================
