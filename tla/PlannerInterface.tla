-------------------------- MODULE PlannerInterface --------------------------
(***************************************************************************)
(* What planner_interface.h promises of every local planner: plan() is     *)
(* asked for a trajectory from a start to a goal, works for a while, and   *)
(* answers.  A trajectory is held only after an answer true, and it then   *)
(* connects the start and the goal that were asked for.  clearPlanner()    *)
(* forgets it.                                                             *)
(***************************************************************************)
CONSTANTS
  Places,   \* starts and goals
  Null      \* no trajectory, no request

VARIABLES
  asked,       \* the request plan() is working on, Null between two calls
  trajectory   \* the connection the last successful plan() made

interfaceVars == <<asked, trajectory>>

Requests == Places \X Places

InterfaceInit == asked = Null /\ trajectory = Null

Ask(request) ==
  /\ asked = Null
  /\ asked' = request /\ trajectory' = Null

Succeed ==
  /\ asked # Null
  /\ trajectory' = asked /\ asked' = Null

Fail ==
  /\ asked # Null
  /\ trajectory' = Null /\ asked' = Null

ClearPlanner ==
  /\ asked = Null
  /\ trajectory' = Null /\ UNCHANGED asked

InterfaceNext ==
  \/ \E request \in Requests : Ask(request)
  \/ Succeed \/ Fail \/ ClearPlanner

\* Every call of plan() returns.  Stated without ENABLED, which has no value
\* for TLC under a refinement mapping.
CallsReturn == asked # Null ~> asked = Null

InterfaceSpec ==
  InterfaceInit /\ [][InterfaceNext]_interfaceVars /\ CallsReturn
=============================================================================
