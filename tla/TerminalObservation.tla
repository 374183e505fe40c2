------------------------- MODULE TerminalObservation -------------------------
(***************************************************************************)
(* Arrival at the goal in TebLocalPlannerROS (teb_local_planner_ros.cpp,   *)
(* terminal_observation.h).  Three callers meet:                           *)
(*                                                                         *)
(*   - the control loop alternates isGoalReached() and                     *)
(*     computeVelocityCommands(), which holds the config mutex;            *)
(*   - setPlan() takes no config mutex: it stores the plan, clears         *)
(*     goal_reached_ and resets the observation, in this order;            *)
(*   - readers of terminalObservation() see the slot at any time.          *)
(*                                                                         *)
(* Only the slot terminal_observation_ has a mutex of its own.  The vector *)
(* global_plan_ has none: setPlan() empties it and copies the plan pose    *)
(* by pose, so that a cycle may meet it empty, or holding a prefix of the  *)
(* new plan, whose last pose is not the goal.  Plans are numbered in the   *)
(* order they are set, and -n stands for a prefix of plan n.               *)
(***************************************************************************)
EXTENDS Integers

CONSTANTS
  MaxPlans,      \* bound: calls of setPlan()
  MaxCycles      \* bound: calls of computeVelocityCommands()

ASSUME BoundsAssumption == MaxPlans \in Nat /\ MaxCycles \in Nat

VARIABLES
  global_plan,   \* number of the plan in global_plan_, 0: none
  slot,          \* terminal_observation_
  goal_reached,  \* goal_reached_: 0 is false, else the plan whose goal was evaluated
  persistent,    \* persistent_goal_
  setter,        \* what setPlan() does next
  control,       \* what the control loop does next
  goal,          \* local: the plan whose goal this cycle evaluates
  epoch,         \* local: terminal_epoch of this cycle
  overlapped     \* history: setPlan() ran during this cycle or the last one

cycleVars == <<goal, epoch>>
vars == <<global_plan, slot, goal_reached, persistent, setter, control, cycleVars, overlapped>>

Reasons == {"uninitialized", "plan_reset", "compute_reset", "robot_pose_unavailable_or_nonfinite",
            "global_plan_transform_failed", "route_phase_pending", "position_tolerance_not_met",
            "heading_tolerance_not_met", "via_points_pending", "motion_not_stopped",
            "arrival_conditions_met"}

Epochs == [event : 0..(MaxPlans + MaxCycles), plan : 0..MaxPlans, compute : 0..MaxCycles]

-----------------------------------------------------------------------------
(* The value snapshot.                                                     *)

\* The conditions TerminalObservation::evaluate() combines.
Conditions == [position_ok : BOOLEAN, yaw_ok : BOOLEAN, via_ok : BOOLEAN,
               route_phase_ok : BOOLEAN, stopped : BOOLEAN, free_goal_velocity : BOOLEAN]

Reset(e, why) == [epoch |-> e, reason |-> why, evaluated |-> FALSE, reached |-> FALSE, goal |-> 0]

Reached(c) ==
  /\ c.position_ok /\ c.yaw_ok /\ c.via_ok /\ c.route_phase_ok
  /\ c.stopped \/ c.free_goal_velocity

\* The first condition that fails, in the order of the code.
Reason(c) ==
  CASE ~c.route_phase_ok -> "route_phase_pending"
    [] c.route_phase_ok /\ ~c.position_ok -> "position_tolerance_not_met"
    [] c.route_phase_ok /\ c.position_ok /\ ~c.yaw_ok -> "heading_tolerance_not_met"
    [] c.route_phase_ok /\ c.position_ok /\ c.yaw_ok /\ ~c.via_ok -> "via_points_pending"
    [] c.route_phase_ok /\ c.position_ok /\ c.yaw_ok /\ c.via_ok
         /\ ~c.stopped /\ ~c.free_goal_velocity -> "motion_not_stopped"
    [] OTHER -> "arrival_conditions_met"

Evaluate(e, c, g) ==
  [epoch |-> e, reason |-> Reason(c), evaluated |-> TRUE, reached |-> Reached(c), goal |-> g]

\* resetTerminalObservation(), under the mutex of the slot.
NextEpoch(new_plan) ==
  LET e == slot.epoch
  IN  [event |-> e.event + 1,
       plan |-> IF new_plan THEN e.plan + 1 ELSE e.plan,
       compute |-> IF new_plan THEN e.compute ELSE e.compute + 1]

ResetTerminalObservation(new_plan) ==
  slot' = Reset(NextEpoch(new_plan), IF new_plan THEN "plan_reset" ELSE "compute_reset")

-----------------------------------------------------------------------------
(* setPlan().                                                              *)

BeginPlan ==
  /\ setter = "idle"
  /\ global_plan < MaxPlans
  /\ global_plan' = -(global_plan + 1)
  /\ setter' = "copying"
  /\ overlapped' = (overlapped \/ control \notin {"idle", "done"})
  /\ UNCHANGED <<slot, goal_reached, persistent, control, cycleVars>>

\* The plan is complete; its simplification keeps its last pose.
StorePlan ==
  /\ setter = "copying"
  /\ global_plan' = -global_plan
  /\ setter' = "stored"
  /\ overlapped' = (overlapped \/ control \notin {"idle", "done"})
  /\ UNCHANGED <<slot, goal_reached, persistent, control, cycleVars>>

\* Mutant: setPlan() leaves the flag of the old plan.
ClearGoalReachedMut ==
  /\ setter = "stored"
  /\ setter' = "cleared"
  /\ overlapped' = (overlapped \/ control \notin {"idle", "done"})
  /\ UNCHANGED <<global_plan, slot, goal_reached, persistent, control, cycleVars>>

ClearGoalReached ==
  /\ setter = "stored"
  /\ goal_reached' = 0
  /\ setter' = "cleared"
  /\ overlapped' = (overlapped \/ control \notin {"idle", "done"})
  /\ UNCHANGED <<global_plan, slot, persistent, control, cycleVars>>

\* The last step of setPlan(); a control loop that had ended follows the new plan.
ResetForPlan ==
  /\ setter = "cleared"
  /\ ResetTerminalObservation(TRUE)
  /\ setter' = "idle"
  /\ control' = IF control = "done" THEN "idle" ELSE control
  /\ overlapped' = (overlapped \/ control \notin {"idle", "done"})
  /\ UNCHANGED <<global_plan, goal_reached, persistent, cycleVars>>

SetPersistentGoal(enabled) ==
  /\ persistent' = enabled
  /\ UNCHANGED <<global_plan, slot, goal_reached, setter, control, cycleVars, overlapped>>

-----------------------------------------------------------------------------
(* computeVelocityCommands(), up to the optimization.                      *)

\* A cycle refused for its command scope or station envelope returns before
\* it touches the flag and the slot: it is not a step.
BeginCycle ==
  /\ control = "idle"
  /\ slot.epoch.compute < MaxCycles
  /\ goal_reached' = 0
  /\ goal' = 0
  /\ overlapped' = (setter # "idle")
  /\ control' = "begun"
  /\ UNCHANGED <<global_plan, slot, persistent, setter, epoch>>

ResetForCycle ==
  /\ control = "begun"
  /\ ResetTerminalObservation(FALSE)
  /\ control' = "reset"
  /\ UNCHANGED <<global_plan, goal_reached, persistent, setter, cycleVars, overlapped>>

\* No pose of the robot, or no transform of the plan (an empty one has none):
\* the reason is written to whatever snapshot is in the slot.
FailCycle(why) ==
  /\ control = "reset"
  /\ why \in {"robot_pose_unavailable_or_nonfinite", "global_plan_transform_failed"}
  /\ slot' = [slot EXCEPT !.reason = why]
  /\ control' = "idle"
  /\ UNCHANGED <<global_plan, goal_reached, persistent, setter, cycleVars, overlapped>>

ReadGoal ==
  /\ control = "reset"
  /\ global_plan # 0
  /\ goal' = global_plan
  /\ control' = "located"
  /\ UNCHANGED <<global_plan, slot, goal_reached, persistent, setter, epoch, overlapped>>

ReadEpoch ==
  /\ control = "located"
  /\ epoch' = slot.epoch
  /\ control' = "evaluating"
  /\ UNCHANGED <<global_plan, slot, goal_reached, persistent, setter, goal, overlapped>>

\* Mutant: the epoch is not compared before the slot is written.
OwnsSlotMutAlways == TRUE

OwnsSlot == slot.epoch.plan = epoch.plan /\ slot.epoch.compute = epoch.compute

\* The evaluation is committed unless a newer reset owns the slot.  The flag
\* is set afterwards, outside the mutex.
CommitObservation(c) ==
  /\ control = "evaluating"
  /\ IF OwnsSlot
     THEN /\ slot' = Evaluate(epoch, c, goal)
          /\ control' = IF Reached(c) THEN "committed" ELSE "planning"
     ELSE /\ UNCHANGED slot
          /\ control' = "planning"
  /\ UNCHANGED <<global_plan, goal_reached, persistent, setter, cycleVars, overlapped>>

SetGoalReached ==
  /\ control = "committed"
  /\ goal_reached' = goal
  /\ control' = IF persistent THEN "planning" ELSE "idle"
  /\ UNCHANGED <<global_plan, slot, persistent, setter, cycleVars, overlapped>>

\* The rest of the cycle plans; it touches neither the flag nor the slot.
FinishCycle ==
  /\ control = "planning"
  /\ control' = "idle"
  /\ UNCHANGED <<global_plan, slot, goal_reached, persistent, setter, cycleVars, overlapped>>

\* isGoalReached() returns true and the goal is not persistent: the loop ends.
IsGoalReached ==
  /\ control = "idle"
  /\ goal_reached # 0
  /\ ~persistent
  /\ control' = "done"
  /\ UNCHANGED <<global_plan, slot, goal_reached, persistent, setter, cycleVars, overlapped>>

-----------------------------------------------------------------------------
(* The specification.                                                      *)

Init ==
  /\ global_plan = 0
  /\ slot = Reset([event |-> 0, plan |-> 0, compute |-> 0], "uninitialized")
  /\ goal_reached = 0 /\ persistent = FALSE
  /\ setter = "idle" /\ control = "idle"
  /\ goal = 0 /\ epoch = slot.epoch
  /\ overlapped = FALSE

SetPlan == BeginPlan \/ StorePlan \/ ClearGoalReached \/ ResetForPlan

Cycle ==
  \/ BeginCycle \/ ResetForCycle
  \/ \E why \in Reasons : FailCycle(why)
  \/ ReadGoal \/ ReadEpoch
  \/ \E c \in Conditions : CommitObservation(c)
  \/ SetGoalReached \/ FinishCycle

Next ==
  \/ SetPlan
  \/ \E enabled \in BOOLEAN : SetPersistentGoal(enabled)
  \/ Cycle
  \/ IsGoalReached

Spec == Init /\ [][Next]_vars

-----------------------------------------------------------------------------
(* Properties.                                                             *)

\* The values every variable takes; in particular no counter of the epoch runs
\* ahead of the calls it counts.
TypeOK ==
  /\ global_plan \in -MaxPlans..MaxPlans
  /\ slot \in [epoch : Epochs, reason : Reasons, evaluated : BOOLEAN, reached : BOOLEAN,
               goal : -MaxPlans..MaxPlans]
  /\ goal_reached \in -MaxPlans..MaxPlans
  /\ persistent \in BOOLEAN
  /\ setter \in {"idle", "copying", "stored", "cleared"}
  /\ control \in {"idle", "begun", "reset", "located", "evaluating", "committed", "planning", "done"}
  /\ goal \in -MaxPlans..MaxPlans
  /\ epoch \in Epochs
  /\ overlapped \in BOOLEAN

\* Whoever writes the slot, its epoch never goes back: a reader that compares
\* sequence numbers sees resets and evaluations in the order they happened,
\* and a snapshot, once evaluated, is replaced only by a newer epoch.
EpochNeverGoesBack ==
  [][/\ slot'.epoch.event >= slot.epoch.event
     /\ slot'.epoch.plan >= slot.epoch.plan
     /\ slot'.epoch.compute >= slot.epoch.compute
     /\ slot.evaluated /\ slot' # slot => slot'.epoch.event > slot.epoch.event]_vars

\* The published reason and the published verdict, computed by two separate
\* chains of conditions, agree: the conditions are met exactly when the goal
\* is reached.
ReasonExplainsVerdict ==
  slot.evaluated => (slot.reached <=> slot.reason = "arrival_conditions_met")

\* As long as setPlan() does not run during a cycle, goal_reached_ is true
\* only for the plan in place.
ReachedGoalIsCurrent ==
  ~overlapped /\ setter = "idle" /\ goal_reached # 0 => goal_reached = global_plan
=============================================================================
