--------------------------- MODULE CommandSelection ---------------------------
(***************************************************************************)
(* The arithmetic of CommandContinuity::select(): each component of a      *)
(* request is clamped to the interval that the speed limits and the change *)
(* allowed around the accepted reference have in common.                   *)
(* CommandContinuity has the times behind the change; ControlCycle has the *)
(* cycle that gives the limits and checks what is selected.                *)
(***************************************************************************)
EXTENDS Integers

Lower(a, b) == IF a < b THEN a ELSE b
Higher(a, b) == IF a > b THEN a ELSE b

\* The interval one component of the command is clamped to.
Low(cap, value, change) == Higher(-cap, value - change)
High(cap, value, change) == Lower(cap, value + change)

\* Limits (forward, reverse, angular) and the changes dx, dw around p have
\* something in common: continuity never overrules a tighter limit.
Fits(p, dx, dw, l) ==
  /\ Low(l.reverse, p.surge, dx) <= High(l.forward, p.surge, dx)
  /\ Low(l.angular, p.yaw, dw) <= High(l.angular, p.yaw, dw)

Clamp(c, p, dx, dw, l) ==
  [surge |-> Higher(Low(l.reverse, p.surge, dx),
                    Lower(High(l.forward, p.surge, dx), c.surge)),
   yaw |-> Higher(Low(l.angular, p.yaw, dw),
                  Lower(High(l.angular, p.yaw, dw), c.yaw))]
=============================================================================
