------------------------------ MODULE GlobalPlan ------------------------------
(***************************************************************************)
(* The global plan of TebLocalPlannerROS (teb_local_planner_ros.cpp): how  *)
(* setPlan() reduces it, how each cycle prunes it behind the robot and     *)
(* takes a local plan from it, and how the backup mode shortens that.      *)
(*                                                                         *)
(* A rotation in place inside the plan (two poses at one position) ends a  *)
(* phase.  With a command scope and no station envelope ("scoped") a phase *)
(* must be completed in order: the end of the rotation is a local goal,    *)
(* and neither pruning nor the local plan goes past it before.             *)
(*                                                                         *)
(* Positions are points with a table of distances; two yaws are Close when *)
(* they differ by no more than yaw_goal_tolerance.  setPlan() runs between *)
(* two cycles here: TerminalObservation has its interleavings.             *)
(***************************************************************************)
EXTENDS Integers, FiniteSets, SequencesExt, FiniteSetsExt

CONSTANTS
  Points,               \* positions of plan poses and of the robot
  Dist,                 \* their distances
  Yaws,                 \* orientations, any two of them more than 1e-6 apart
  Close,                \* pairs of yaws within yaw_goal_tolerance
  TerminalClose,        \* pairs that the tolerance of a command scope accepts at the goal
  Plans,                \* what setPlan() may be given
  PruneDistance,        \* global_plan_prune_distance
  NearDistance,         \* sqrt(0.05): "reached" in the search for the closest pose
  Window,               \* 85 % of half the local costmap
  Lookahead,            \* max_global_plan_lookahead_dist, 0: disabled
  XyTolerance,          \* xy_goal_tolerance
  SurgeYaw,             \* max_vel_y = 0 and min_turning_radius = 0
  OverwriteOrientation, \* global_plan_overwrite_orientation
  ShrinkHorizon,        \* shrink_horizon_backup
  MaxInfeasible,        \* bound: no_infeasible_plans_
  MaxPlans,             \* bound: calls of setPlan()
  MaxDrifts             \* bound: times the robot is moved off its local plan

Poses == [at : Points, yaw : Yaws]

ASSUME ConstantsAssumption ==
  /\ Dist \in [Points \X Points -> Nat]
  /\ Close \subseteq Yaws \X Yaws /\ TerminalClose \subseteq Yaws \X Yaws
  /\ Plans \subseteq Seq(Poses)
  /\ PruneDistance \in Nat /\ NearDistance \in Nat /\ Window \in Nat
  /\ Lookahead \in Nat /\ XyTolerance \in Nat
  /\ SurgeYaw \in BOOLEAN /\ OverwriteOrientation \in BOOLEAN /\ ShrinkHorizon \in BOOLEAN
  /\ MaxInfeasible \in Nat /\ MaxPlans \in Nat /\ MaxDrifts \in Nat

VARIABLES
  global_plan,  \* global_plan_
  scoped,       \* command continuity is enabled and the station envelope is not
  robot,        \* pose of the robot in the frame of the plan
  local_plan,   \* local: transformed_plan
  goal_idx,     \* local: goal_idx, counted from 0
  endpoint,     \* local: phase_endpoint_selected
  infeasible,   \* no_infeasible_plans_, saturated
  recent,       \* time_last_infeasible_plan_ is less than shrink_horizon_min_duration ago
  pc,           \* what the control loop does next
  stored,       \* history: global_plan_ as setPlan() left it
  taken,        \* history: rotations of stored that were seen completed
  guarded,      \* history: scoped ever since setPlan()
  plans, drifts \* bounds: steps so far

localVars == <<local_plan, goal_idx, endpoint>>
failureVars == <<infeasible, recent>>
historyVars == <<stored, taken, guarded>>
vars == <<global_plan, scoped, robot, localVars, failureVars, pc, historyVars, plans, drifts>>

-----------------------------------------------------------------------------
(* Rotations in place.                                                     *)

\* p turns in place from its pose i - 1 to its pose i.
TurnsAt(p, i) == p[i - 1].at = p[i].at /\ p[i - 1].yaw # p[i].yaw

\* Ends of the rotations that are not the last pose.
TurnEnds(p) == {i \in 2..(Len(p) - 1) : TurnsAt(p, i)}

\* firstIntermediateRotationEnd(), counted from 1; 0: there is none.
FirstTurnEnd(p) ==
  IF TurnEnds(p) = {} THEN 0 ELSE CHOOSE i \in TurnEnds(p) : \A j \in TurnEnds(p) : i <= j

\* The phase that binds pruning, the local plan and the arrival.
Phase == IF scoped THEN FirstTurnEnd(global_plan) ELSE 0

\* The robot has completed the rotation that ends in pose q.
Completed(q) == Dist[<<robot.at, q.at>>] <= XyTolerance /\ <<robot.yaw, q.yaw>> \in Close

-----------------------------------------------------------------------------
(* setPlan().                                                              *)

\* The subsequences of p that keep the positions in keep, and others only of
\* those in may, as increasing functions from their positions to those of p.
Selections(p, keep, may) ==
  {f \in UNION {[1..n -> may] : n \in 0..Len(p)} :
     /\ \A i, j \in DOMAIN f : i < j => f[i] < f[j]
     /\ keep \subseteq {f[i] : i \in DOMAIN f}}

\* Of equal consecutive samples the last one stays.
Distinct(p) ==
  LET lasts == {i \in DOMAIN p : i = Len(p) \/ p[i] # p[i + 1]}
  IN  {[i \in DOMAIN f |-> p[f[i]]] : f \in Selections(p, lasts, lasts)}

\* Mutant: only the end of a rotation is kept.
KeptMutEndOnly(p) == {1, Len(p)} \cup {i \in 2..Len(p) : p[i - 1].at = p[i].at}

\* What every simplification keeps: both ends, and both poses of a rotation.
Kept(p) == {1, Len(p)} \cup {i \in DOMAIN p : \/ i > 1 /\ p[i - 1].at = p[i].at
                                              \/ i < Len(p) /\ p[i + 1].at = p[i].at}

\* Samples within half a cell are dropped (which ones is geometry); one that
\* stays without need turns to the tangent of the reduced plan.
Reduced(p, f, tangent) ==
  [i \in DOMAIN f |-> IF f[i] \in Kept(p) THEN p[f[i]] ELSE [at |-> p[f[i]].at, yaw |-> tangent[i]]]

Simplified(p) ==
  IF SurgeYaw /\ Len(p) > 2
  THEN UNION {{Reduced(p, f, tangent) : tangent \in [DOMAIN f -> Yaws]} :
                f \in Selections(p, Kept(p), DOMAIN p)}
  ELSE {p}

\* What setPlan() may store for each plan it is given.
StoredPlans == [given \in Plans |-> UNION {Simplified(p) : p \in Distinct(given)}]

SetPlan(given) ==
  /\ pc \in {"idle", "arrived"}
  /\ plans < MaxPlans
  /\ global_plan' \in StoredPlans[given]
  /\ stored' = global_plan' /\ taken' = {} /\ guarded' = scoped
  /\ plans' = plans + 1
  /\ pc' = "idle"
  /\ UNCHANGED <<scoped, robot, localVars, failureVars, drifts>>

\* setCommandScope() and setStationEnvelope(), between two cycles.
SetScope(s) ==
  /\ pc \in {"idle", "arrived"}
  /\ scoped' = (s /\ SurgeYaw)
  /\ guarded' = (guarded /\ scoped')
  /\ UNCHANGED <<global_plan, robot, localVars, failureVars, pc, stored, taken, plans, drifts>>

-----------------------------------------------------------------------------
(* pruneGlobalPlan().                                                      *)

InPruneDistance(p) == {i \in DOMAIN p : Dist[<<robot.at, p[i].at>>] < PruneDistance}

\* Poses before the first one that is near; none if no pose is near.
Passed(p) ==
  IF InPruneDistance(p) = {} THEN 0
  ELSE (CHOOSE i \in InPruneDistance(p) : \A j \in InPruneDistance(p) : i <= j) - 1

Lower(a, b) == IF a < b THEN a ELSE b

\* Mutants: a pending rotation does not stop the pruning; a completed one is
\* not pruned.
ErasedMutUnbound(p) ==
  IF Phase # 0 /\ Completed(p[Phase]) THEN Phase - 1 ELSE Passed(p)

ErasedMutKeepTurn(p) == IF Phase = 0 THEN Passed(p) ELSE Lower(Passed(p), Phase - 2)

\* How many poses are erased: up to the end of a completed rotation, and not
\* beyond the begin of a pending one.
Erased(p) ==
  IF Phase = 0 THEN Passed(p)
  ELSE IF Completed(p[Phase]) THEN Phase - 1
  ELSE Lower(Passed(p), Phase - 2)

ErasedSoFar == Len(stored) - Len(global_plan)

\* Without a transform of the robot's pose nothing is erased, and the cycle
\* goes on.
PruneGlobalPlan(transform) ==
  /\ pc = "idle"
  /\ IF transform /\ global_plan # <<>>
     THEN /\ global_plan' = SubSeq(global_plan, Erased(global_plan) + 1, Len(global_plan))
          /\ taken' = IF Phase # 0 /\ Completed(global_plan[Phase])
                      THEN taken \cup {ErasedSoFar + Phase} ELSE taken
     ELSE UNCHANGED <<global_plan, taken>>
  /\ pc' = "pruned"
  /\ UNCHANGED <<scoped, robot, localVars, failureVars, stored, guarded, plans, drifts>>

-----------------------------------------------------------------------------
(* transformGlobalPlan().                                                  *)

DistanceTo(i) == Dist[<<robot.at, global_plan[i].at>>]

\* Once a pose is reached, the search goes on only while it gets closer.
SearchedFrom(first) ==
  {j \in DOMAIN global_plan :
     j >= first /\ \A k \in (first + 1)..j : DistanceTo(k) <= DistanceTo(k - 1)}

ReachedPoses == {i \in DOMAIN global_plan : DistanceTo(i) < NearDistance}

\* The first of the closest poses among those searched.
Closest ==
  LET all == IF ReachedPoses = {} THEN DOMAIN global_plan
             ELSE SearchedFrom(Min(ReachedPoses))
  IN  CHOOSE i \in all :
        /\ \A j \in all : DistanceTo(i) <= DistanceTo(j)
        /\ \A j \in all : j < i => DistanceTo(i) < DistanceTo(j)

Start == IF Phase = 0 THEN Closest ELSE Lower(Closest, Phase - 1)

HorizonEnd == IF Phase = 0 THEN Len(global_plan) ELSE Phase

\* Length along the plan up to pose i, from the pose before the start.
LengthTo(i) ==
  MapThenSumSet(LAMBDA j : IF j = 1 THEN 0 ELSE Dist[<<global_plan[j - 1].at, global_plan[j].at>>],
                Start..i)

\* The poses the loop takes: the first one if it is in the window, the others
\* while the one before is, and as long as the length allows.
Transformed ==
  {i \in Start..HorizonEnd :
     /\ DistanceTo(Start) <= Window
     /\ \A j \in Start..(i - 1) :
          DistanceTo(j) <= Window /\ (Lookahead > 0 => LengthTo(j) <= Lookahead)}

\* The last pose taken, or the end of the horizon if there is none.
GoalIdx == (IF Transformed = {} THEN HorizonEnd ELSE Max(Transformed)) - 1

\* Mutant: the end of a rotation is a local goal like any other.
PhaseEndpointSelectedMut(idx) == FALSE

PhaseEndpointSelected(idx) == Phase # 0 /\ idx = Phase - 1

TransformGlobalPlan ==
  /\ pc = "pruned"
  /\ global_plan # <<>>
  /\ local_plan' = IF Transformed = {} THEN <<global_plan[HorizonEnd]>>
                   ELSE SubSeq(global_plan, Start, Max(Transformed))
  /\ goal_idx' = GoalIdx
  /\ endpoint' = PhaseEndpointSelected(goal_idx')
  /\ pc' = "located"
  /\ UNCHANGED <<global_plan, scoped, robot, failureVars, historyVars, plans, drifts>>

EndCycle == local_plan' = <<>> /\ goal_idx' = 0 /\ endpoint' = FALSE

\* No transform, or no plan: the cycle fails.
TransformFails ==
  /\ pc = "pruned"
  /\ EndCycle
  /\ pc' = "idle"
  /\ UNCHANGED <<global_plan, scoped, robot, failureVars, historyVars, plans, drifts>>

-----------------------------------------------------------------------------
(* Arrival, and the rest of the cycle.                                     *)

\* Mutant: the rotations left in the plan do not matter.
ArrivalConditionsMut == Dist[<<robot.at, Last(global_plan).at>>] <= XyTolerance

\* At the goal, without a rotation left.  Under a station envelope the
\* tolerance may be that of a command scope too.
ArrivalConditions ==
  /\ Dist[<<robot.at, Last(global_plan).at>>] <= XyTolerance
  /\ <<robot.yaw, Last(global_plan).yaw>> \in
       IF scoped THEN TerminalClose ELSE Close \cup TerminalClose
  /\ Phase = 0

\* The robot has also stopped and has no via-points left: isGoalReached().
Arrive ==
  /\ pc = "located"
  /\ ArrivalConditions
  /\ EndCycle
  /\ pc' = "arrived"
  /\ UNCHANGED <<global_plan, scoped, robot, failureVars, historyVars, plans, drifts>>

\* The guard of the reduced horizon.
ShrinksHorizon ==
  /\ ~endpoint /\ ShrinkHorizon
  /\ goal_idx < Len(local_plan) - 1
  /\ infeasible > 0 \/ recent

HorizonReduction == IF infeasible > 9 THEN (goal_idx \div 2) \div 2 ELSE goal_idx \div 2

\* configureBackupModes(), the reduced horizon.
ConfigureBackupModes ==
  /\ pc = "located"
  /\ LET size == Len(local_plan) - HorizonReduction - 1
     IN  IF ShrinksHorizon /\ size > 0 /\ goal_idx - HorizonReduction >= 0
         THEN /\ local_plan' = SubSeq(local_plan, 1, size)
              /\ goal_idx' = goal_idx - HorizonReduction
         ELSE UNCHANGED <<local_plan, goal_idx>>
  /\ pc' = "planning"
  /\ UNCHANGED <<global_plan, scoped, robot, endpoint, failureVars, historyVars, plans, drifts>>

\* The orientation of the local goal is that of the plan or estimated.
KeepsGoalYaw == endpoint \/ ~OverwriteOrientation \/ goal_idx = Len(global_plan) - 1

LocalGoals ==
  {g \in Poses : /\ g.at = Last(local_plan).at
                 /\ KeepsGoalYaw => g.yaw = Last(local_plan).yaw}

\* The planner fails, diverges, or has no feasible trajectory or command.
PlanFails ==
  /\ pc = "planning"
  /\ infeasible' = Lower(infeasible + 1, MaxInfeasible)
  /\ recent' = TRUE
  /\ EndCycle
  /\ pc' = "idle"
  /\ UNCHANGED <<global_plan, scoped, robot, historyVars, plans, drifts>>

\* The command is refused: this is no infeasible plan.
CommandRefused ==
  /\ pc = "planning"
  /\ EndCycle
  /\ pc' = "idle"
  /\ UNCHANGED <<global_plan, scoped, robot, failureVars, historyVars, plans, drifts>>

\* A command; until the next cycle the robot gets to some pose of its local plan.
FollowLocalPlan(pose) ==
  /\ pc = "planning"
  /\ robot' = pose
  /\ infeasible' = 0
  /\ EndCycle
  /\ pc' = "idle"
  /\ UNCHANGED <<global_plan, scoped, recent, historyVars, plans, drifts>>

AlongLocalPlan == {robot} \cup {local_plan[i] : i \in 1..(Len(local_plan) - 1)} \cup LocalGoals

\* Disturbances move the robot anywhere.
Drift(pose) ==
  /\ pc = "idle"
  /\ drifts < MaxDrifts
  /\ robot' = pose
  /\ drifts' = drifts + 1
  /\ UNCHANGED <<global_plan, scoped, localVars, failureVars, pc, historyVars, plans>>

\* shrink_horizon_min_duration has passed.
Calm ==
  /\ pc = "idle"
  /\ recent' = FALSE
  /\ UNCHANGED <<global_plan, scoped, robot, localVars, infeasible, pc, historyVars, plans, drifts>>

-----------------------------------------------------------------------------
(* The specification.                                                      *)

Init ==
  /\ global_plan = <<>> /\ stored = <<>> /\ taken = {}
  /\ scoped = FALSE /\ guarded = FALSE
  /\ robot \in Poses
  /\ local_plan = <<>> /\ goal_idx = 0 /\ endpoint = FALSE
  /\ infeasible = 0 /\ recent \in BOOLEAN
  /\ pc = "idle" /\ plans = 0 /\ drifts = 0

ReachLocalGoal == pc = "planning" /\ \E pose \in LocalGoals : FollowLocalPlan(pose)

Caller ==
  \/ \E given \in Plans : SetPlan(given)
  \/ \E s \in BOOLEAN : SetScope(s)
  \/ Calm

Cycle ==
  \/ \E transform \in BOOLEAN : PruneGlobalPlan(transform)
  \/ TransformGlobalPlan \/ TransformFails
  \/ Arrive \/ ConfigureBackupModes
  \/ PlanFails \/ CommandRefused

Next ==
  \/ Caller
  \/ Cycle
  \/ pc = "planning" /\ \E pose \in AlongLocalPlan : FollowLocalPlan(pose)
  \/ \E pose \in Poses : Drift(pose)

Spec == Init /\ [][Next]_vars

\* A robot that stays where it is or reaches its local goal.
RouteNext == Caller \/ Cycle \/ ReachLocalGoal

\* The control loop calls again; transforms, planning and the motion to the
\* local goal succeed again and again, and a robot at its goal stops.
RouteSpec ==
  /\ Init /\ [][RouteNext]_vars
  /\ SF_vars(PruneGlobalPlan(TRUE))
  /\ SF_vars(TransformGlobalPlan)
  /\ SF_vars(Arrive)
  /\ WF_vars(ConfigureBackupModes)
  /\ SF_vars(ReachLocalGoal)

-----------------------------------------------------------------------------
(* Properties.                                                             *)

\* The values every variable takes.  In particular goal_idx is a position of
\* global_plan_ during the whole cycle: estimateLocalGoalOrientation() reads
\* the plan from there.
TypeOK ==
  /\ global_plan \in Seq(Poses) /\ stored \in Seq(Poses)
  /\ scoped \in BOOLEAN /\ guarded \in BOOLEAN
  /\ robot \in Poses
  /\ local_plan \in Seq(Poses)
  /\ goal_idx \in Nat
  /\ pc \in {"located", "planning"} => goal_idx < Len(global_plan) /\ local_plan # <<>>
  /\ endpoint \in BOOLEAN
  /\ infeasible \in 0..MaxInfeasible /\ recent \in BOOLEAN
  /\ pc \in {"idle", "pruned", "located", "planning", "arrived"}
  /\ taken \subseteq Nat
  /\ plans \in 0..MaxPlans /\ drifts \in 0..MaxDrifts

\* Pruning only takes poses from the front and never the last one, on which
\* the arrival is decided.
PlanKeepsItsGoal ==
  stored # <<>> =>
    /\ global_plan # <<>>
    /\ ErasedSoFar >= 0
    /\ \A i \in DOMAIN global_plan : global_plan[i] = stored[ErasedSoFar + i]

\* While a command scope is in force, an intermediate rotation leaves the
\* plan (its end becomes the first pose) only after a cycle saw the robot
\* complete it, and rotations are completed in the order of the route,
\* whatever the robot passes, overtakes or is pushed to.
TurnsAreTaken ==
  guarded => \A i \in TurnEnds(stored) :
               /\ i <= ErasedSoFar + 1 => i \in taken
               /\ i \in taken => \A j \in TurnEnds(stored) : j < i => j \in taken

\* In a scope the goal is reached only after all rotations.
ArrivalAfterTurns == guarded /\ pc = "arrived" => TurnEnds(stored) \subseteq taken

\* The local goal is a pose of the plan, it does not lie beyond a pending
\* rotation, and its yaw is kept when it is one.
LocalGoalBeforeTurn ==
  pc \in {"located", "planning"} =>
    /\ Last(local_plan) = global_plan[goal_idx + 1]
    /\ Phase # 0 => goal_idx < Phase /\ (goal_idx = Phase - 1 => KeepsGoalYaw)

\* Every rotation of the plan given to setPlan() is in the plan it stores.
RotationsRetained ==
  [][\A given \in Plans : SetPlan(given) =>
       \A i \in 2..Len(given) :
         TurnsAt(given, i) =>
           \E j \in 2..Len(global_plan') :
             global_plan'[j] = given[i] /\ global_plan'[j - 1] = given[i - 1]]_vars

\* A robot that keeps reaching its local goals arrives, if the scope does not
\* change for ever: no pose of the plan traps the local goal.
RouteIsCompleted ==
  (<>[]scoped \/ <>[]~scoped) => ((stored # <<>>) ~> (pc = "arrived"))
=============================================================================
