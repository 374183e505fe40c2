# A TLA+ verification of the timed-elastic-band planner core

This directory holds TLA+ modules that model the decision logic of
`teb_local_planner`: what is kept in which container, when it is replaced, who
may command the robot, what several callers see of each other, and the geometric
decisions that admit a motion. TLC checks the modules on small instances; TLAPS
proves the most important properties for every value of the constants. Paths
below are relative to the repository root (`src/...`), and short names stand for
these files:

| short | file |
|---|---|
| `ros.cpp`, `ros.h` | `src/src/teb_local_planner_ros.cpp`, `src/include/teb_local_planner/teb_local_planner_ros.h` |
| `hcp.cpp`, `hcp.h`, `hcp.hpp` | `src/src/homotopy_class_planner.cpp`, `src/include/teb_local_planner/homotopy_class_planner.h`, `.hpp` |
| `optimal.cpp`, `optimal.h` | `src/src/optimal_planner.cpp`, `src/include/teb_local_planner/optimal_planner.h` |
| `band.cpp`, `band.h`, `band.hpp` | `src/src/timed_elastic_band.cpp`, `src/include/teb_local_planner/timed_elastic_band.h`, `.hpp` |
| `graph.cpp`, `graph.h` | `src/src/graph_search.cpp`, `src/include/teb_local_planner/graph_search.h` |
| `swept.h`, `terminal.h`, `continuity.h`, `signature.h`, `distances.h` | `swept_footprint.h`, `terminal_observation.h`, `command_continuity.h`, `h_signature.h`, `distance_calculations.h` in `src/include/teb_local_planner/` |
| `obstacles.h`, `obstacles.cpp` | `src/include/teb_local_planner/obstacles.h`, `src/src/obstacles.cpp` |
| `recovery.cpp` | `src/src/recovery_behaviors.cpp` |

## 1. The system

`TebLocalPlannerROS` is a local planner for a control loop. The loop hands it a
global plan (`setPlan`), and then calls `computeVelocityCommands` once per
period and `isGoalReached` in between. A cycle prunes and transforms the plan,
picks a local goal, rebuilds the obstacle container, asks a planner for a
trajectory, checks it against the costmap, and turns its first segment into a
velocity. The planner is either one `TebOptimalPlanner` or a
`HomotopyClassPlanner` that keeps several of them, one per homotopy class, and
optimizes them in threads. An outer route owner scopes the commands
(`setCommandScope`), checks a proposal a last time, and commits or discards it.

### Components

| component | state it keeps | operations | what makes it hard | what makes it correct |
|---|---|---|---|---|
| **HomotopyClassPlanner** (`hcp.*`) | `tebs_`, `equivalence_classes_` (parallel containers), pointers `best_teb_`, `last_best_teb_`, `initial_plan_teb_`, cached classes `best_teb_eq_class_`, `initial_plan_eq_class_`, time of the last switch | `plan`, `isTrajectoryFeasible`, `getVelocityCommand`, `clearPlanner` | two containers edited by position in five loops; pointers that outlive the container; threads that end in any order; a similarity that is not transitive | the containers stay matched, never exceed the limit, the selected TEB is the one checked and commanded, a switch is earned, loops end |
| **Terminal observation and goal flag** (`terminal.h`, `ros.cpp`) | `terminal_observation_` with an epoch, `goal_reached_`, `persistent_goal_` | `setPlan`, `isGoalReached`, `terminalObservation`, the evaluation in each cycle | `setPlan` runs beside a cycle; only the slot has a mutex | epochs never go back, verdict and reason agree, a reached goal is the current one |
| **Command continuity and scope** (`continuity.h`, `ros.cpp`) | `scope_`, `horizon_`, `available_`, `stamp_`, `previous_`; `command_time_ns_`, `command_proposal_ns_`, `last_cmd_` | `setCommandScope`, `commitCommand`, `discardCommand`, selection within a cycle | late commits, clock at 0 or going back, tighter limits, a destructor that undoes failed cycles | one period of acceleration at most from one accepted command to the next, limits win over history, no history crosses routes |
| **Pipeline of a cycle** (`ros.cpp:394-905`) | `cfg_.robot` narrowed for the cycle, `last_cmd_`, `no_infeasible_plans_`, the guard objects that undo | `computeVelocityCommands` | about twenty early returns, each with its own set of resets; contact recovery after a rejected check | every return leaves a stop or a checked command within every cap, and lifts the caps |
| **Global plan** (`ros.cpp:66-80, 245-297, 1113-1300`) | `global_plan_` | simplification in `setPlan`, `pruneGlobalPlan`, `transformGlobalPlan`, `firstIntermediateRotationEnd` | a plan shortened from both ends while rotations in place must be executed in order | no intermediate rotation is lost, the local goal never lies behind a pending one |
| **Backup modes and failure detection** (`ros.cpp:1415-1497`, `recovery.cpp`) | circular buffer of velocities, `no_infeasible_plans_`, `time_last_oscillation_`, preferred direction | `configureBackupModes`, `FailureDetector::update/detect` | counters and times in two files, preferences in the trajectories | a recovery acts, is entered on evidence and left after its time |
| **TimedElasticBand** (`band.*`) | pose and time-difference containers, one apart in length | insertion, deletion, `autoResize`, `updateAndPruneTEB`, `initTrajectoryToGoal` | indices during insertion and deletion, termination of resizing | lengths stay one apart, fixed ends stay, resizing ends |
| **TebOptimalPlanner** (`optimal.*`) | a band, the optimizer's graph, cost, `optimized_`, deadline | `plan`, `optimizeTEB`, `clearPlanner`, `getVelocityCommand`, `isTrajectoryFeasible` | deadlines, a graph of raw pointers built and cleared per iteration, failures in between, a retry from a cold seed | a failed optimization is never taken for a success, the graph never outlives its band, what is answered can be driven |
| **g2o vertices and edges** (`g2o_types/`, `optimal.cpp`) | the vertices and edges of one iteration | `buildGraph`, `AddEdges*`, residuals | association of obstacles and via-points with poses by index | every edge connects vertices that exist |
| **Graph search** (`graph.*`) | vertices, edges | `createGraph` of two graphs, `DepthFirst` | path enumeration cut by a limit, a list shared by all levels of the recursion | only simple paths, only to the goal, all classes, none beyond the limit, none through an obstacle |
| **H-signatures** (`signature.h`, `equivalence_relations.h`) | a complex number or a list of windings | `calculateHSignature`, `isEqual`, `isValid` | overflow to non-finite values, thresholds | comparisons are data for the class planner |
| **Swept footprint** (`swept.h`) | the observed map, contact planes and component, pose | `begin`, `advance`, `terminalSensingClearance` | a rule relaxed by the initial contact that must not be relaxed further by any chain of motions | no new contact, padding restored, unknown space never entered |
| **Station envelope** (`station_envelope.h`) | a validated record | set, read in a cycle | a mode that must tighten and never loosen limits | limits of a cycle are at most those of the envelope |
| **Obstacles and via-points** (`ros.cpp`, `obstacles.*`) | obstacle container, custom obstacle message, via-points, their mutexes | callbacks, rebuild per cycle | callbacks beside a cycle | a cycle uses one snapshot, custom via-points are kept |
| **Geometry and footprint models** (`distances.h`, `obstacles.h`, `robot_footprint_model.h`, `pose_se2.h`) | none | distances, intersection, normalization | degenerate figures | distances are true |
| **Configuration** (`teb_config.*`, `.cfg`) | the parameter struct, its mutex | load, reconfigure, warnings | a change between cycles | a cycle sees one configuration |
| **Visualization; demo node, test, scripts, launch, messages** | publishers | output, examples | none | output only |

Calls go one way: `TebLocalPlannerROS` → `HomotopyClassPlanner` →
`TebOptimalPlanner` → `TimedElasticBand`. State is shared in three places: the
obstacle container and via-points (by pointer, between the ROS object and all
planners), the configuration (by pointer, with a mutex), and
`terminal_observation_`/`goal_reached_`/`global_plan_` (between `setPlan`, the
cycle and readers). `PROJECT.json` lists the hazards of all of this, each at the
line where it bites, with the properties that would notice it.

## 2. Plan

Modules in the order of importance.

| # | module | composes | state |
|---|---|---|---|
| 1 | `HomotopyClassPlanner`, with the comparisons of `HSignatures` | | model, runs, proofs |
| 2 | `TerminalObservation` | | model, run, proofs |
| 3 | `CommandContinuity` implements `CommandReference` | `CommandSelection`, the clamp of `select` | model, run, proofs |
| 4 | `GlobalPlan`: simplification, pruning, transformation, phase end points, arrival, the horizon of the backup mode | | model, runs, proofs |
| 5 | `ControlCycle`: `computeVelocityCommands` with all returns, its owner, callbacks and clock; `FailureDetector` | `CommandSelection`, and what 1 to 4 and 9 show to a caller | model, run, proofs |
| 6 | `TimedElasticBand`: operators on a band | | model |
| 7 | `TebGraph`: the vertices and edges of one iteration | 6 | model |
| 8 | `TebOptimalPlanner` implements `PlannerInterface` | 6, 7 | model, runs, proofs |
| 9 | `SweptFootprint` | feeds 5 and 8 | model, runs, proofs |
| 10 | `GraphSearch`, over `Obstacles` and `Distances` | feeds 1 | model, run, proofs |

Left, in this order: rotations and arcs of a swept footprint; the sampled check of
`TebOptimalPlanner::isTrajectoryFeasible`.

Abstract specifications: `CommandReference` and `PlannerInterface` stand. Worth stating
next: for `HomotopyClassPlanner` a *set of candidates and a choice*, where the choice is
a member and changes for a reason (today `SelectionIsACandidate` and `SwitchIsEarned`
say it property by property), and for `GlobalPlan` a *route of phases* that are
completed in order.

## 3. Modules

### HomotopyClassPlanner, HSignatures

Source: `hcp.cpp`, `hcp.h`, `hcp.hpp`. A TEB is an address with four attributes:
the signature computed last, its cost, whether its last optimization succeeded,
and whether it is connected with the via-points. `tebs` and `classes` are the two
containers as sequences; a pointer is an address or `None`, and dangles freely
(a `shared_ptr` keeps the object alive, so its address is not reused while one
of the three pointers holds it).

The state variable `pc` names the method that runs. One call of `plan()` is:

| `pc` | code | actions |
|---|---|---|
| `idle` | `updateAllTEBs` (443) | `UpdateAllTebs` |
| `renew`, `reanalyze`, `detours` | `renewAndAnalyzeOldTebs` (214), `deletePlansDetouringBackwards` (745) | `RenewBest`, `RenewWithoutBest`, `ReanalyzeTeb`, `ReanalyzeDone`, `KeepPlan`, `DeleteDetour`, `DetoursDone` |
| `drop` | `randomlyDropTebs` (540) | `RandomlyDropTeb`, `RandomlyDropDone` |
| `inject` | `addAndInitNewTeb(initial_plan)` (414) or `getInitialPlanTEB` (495) | `InjectInitialPlan`, `FindInitialPlanTeb` |
| `explore` | `createGraph`, `DepthFirst`, `addAndInitNewTeb` | `ExploreCandidate`, `ExploreDone` |
| `via` | `updateReferenceTrajectoryViaPoints` (313) | `UpdateReferenceTrajectoryViaPoints` |
| `optimize` | `optimizeAllTEBs` (466) | `OptimizeTeb` per thread, `JoinAll` |
| `select` | `selectBestTeb` (563), end of `plan` | `FinishPlan` |
| `planned`, `checking` | `isTrajectoryFeasible` (671), `findBestTeb`, `removeTeb` (708) | `StartFeasibilityCheck`, `FindBestTeb`, `BestIsFeasible`, `BestIsInfeasible`, `NothingFeasible` |
| `accepted`, `rejected` | the caller | `GetVelocityCommand`, `ClearPlanner` |

Data left to nondeterminism: the signature of each trajectory, detours, costs,
and which TEBs the footprint rejects (fixed for one feasibility check, which
works on one costmap). `Similar` is any symmetric relation on signatures (both
`isEqual` compare the two sides alike), those that are not valid included: the class of the
best TEB is compared (391, 400) whether it is valid or not. Costs carry the integer factors of `Weight` for hysteresis and preference. The exploration step
stands for both graphs and the search, of which `GraphSearch` has the detail.

`HSignatures` holds `isEqual` and `isValid` of both signatures (`signature.h:195-218`,
`359-397`). A part may be NaN or infinite, with or without the sign bit, which is all that
`boost::math::sign` looks at: a 3D signature that is not valid can equal a valid one, a 2D one
cannot. `MCHomotopyClassPlanner` gives each signature a value and derives
`Similar` and `ValidSigs` from it: a threshold on the difference (2D), or equal sides
of all obstacles that matter to both (3D). Neither is transitive, and the second run
has a chain. How a signature is computed is not modelled.

### TerminalObservation

Source: `terminal.h` and the parts of `ros.cpp` that write the slot and
`goal_reached_` (`setPlan` 230-310, `computeVelocityCommands` 394-595,
`isGoalReached`, `resetTerminalObservation`, `setPersistentGoal`). Plans are
numbered in the order they are set, `goal_reached` and `slot.goal` carry the
number of the plan whose goal was looked at, and `-n` is a prefix of plan `n`:
`setPlan` copies pose by pose into a vector without a mutex. `BeginPlan`,
`StorePlan`, `ClearGoalReached`, `ResetForPlan` are the four effects of
`setPlan` in their order; `BeginCycle` to `FinishCycle` those of a cycle. The
geometric conditions are six free Booleans.

### CommandContinuity and CommandReference

Source: `continuity.h` (all of it) and `setCommandScope`, `commitCommand`,
`discardCommand`, and the frame of `computeVelocityCommands` with its
`FinishCommand` destructor in `ros.cpp`. Times and speeds are integers, so the
arithmetic of the clamp, which `CommandSelection` holds for this module and for
`ControlCycle`, is exact. `ros::Time::now()` is `clock`, which ticks,
stands at 0, and jumps back at any point. All calls hold the config mutex, so
only the clock moves between their steps.

One assumption is on the outside: `continuity.h:72-73` says the owner commits
once, after its final identity check. `owed` is that contract; a second commit
of a proposal, or one after a discard, is outside the model.

`CommandReference` is the abstract promise: one reference, which is zero or
differs from its predecessor by at most one period of acceleration, follows only
within the horizon, and may be forgotten at any time. `FollowsReference` says
that `CommandContinuity` implements it with its own `horizon`, `available`,
`stamp` and `previous`.

### GlobalPlan

Source: `ros.cpp`: `firstIntermediateRotationEnd` (71), `setPlan` (235),
`setStationEnvelope` and `setCommandScope` (310, 324), `pruneGlobalPlan` (1113),
`transformGlobalPlan` (1170), the horizon part of `configureBackupModes` (1426),
and the frame of the cycle around them. A pose is a point and a yaw; `Dist` is any
table of distances, `Close` any relation of yaws, so neither symmetry nor the
triangle inequality is used. Indices of `global_plan_` count from 1, `goal_idx`
from 0 as in the code.

One cycle is `PruneGlobalPlan`, then `TransformGlobalPlan` or `TransformFails`,
then `Arrive` or `ConfigureBackupModes`, then `PlanFails`, `CommandRefused` or
`FollowLocalPlan`, after which the robot is at some pose of its local plan. `Drift`
moves it anywhere between two cycles. `scoped` is
`command_continuity_.enabled() && !station_envelope_.enabled`, the condition under
which all three functions look for a pending rotation (`Phase`). Three history
variables remember what has been erased and completed: `stored` (the plan as
`setPlan` left it), `taken` (rotations that a cycle saw completed) and `guarded`
(in a scope ever since). `setPlan` runs between two cycles here; what happens
inside one is the subject of `TerminalObservation`.

Left to nondeterminism: which samples the simplification drops, the tangents it
gives, the estimated orientation of a local goal, transforms, the outcome of
planning, and whether the robot has stopped. Not modelled: a persistent goal (the cycle
goes on after the arrival).

### TimedElasticBand, TebGraph, TebOptimalPlanner, PlannerInterface

Source: `band.cpp`, `band.hpp`, `optimal.cpp`, `planner_interface.h`,
`pose_se2.h`, `vertex_pose.h`. The robot moves on a line; a heading counts eighths of
a turn *without* wrapping, as the code does for a robot that surges and turns, so
that "a full turn more" is a different value and `g2o::normalize_theta` is an
operator with its half-open interval.

`TimedElasticBand` is a module of operators on a band, a record of two sequences,
with the indices of the code from 0: insertion and deletion, one round of
`autoResize` (`ResizeStep`), the three `initTrajectoryToGoal`, the pivot-surge-pivot
seed (`optimal.cpp`, `PivotSeed`), and `updateAndPruneTEB`. `TebGraph` says which
vertices and edges `buildGraph` creates: obstacle association in the current and in
the legacy way, dynamic obstacles, via-points in order or not, the terms over one to
three neighbours, and which configuration leaves which out. Loops over a band or a plan
are functions defined from 0 on, one value from the one before it. `GraphAssumption` and
`PlannerAssumption` say what obstacles, via-points and configurations are; of the
configuration they ask what its own documentation does (`min_samples` above 2, a positive
reference duration).

`TebOptimalPlanner` is the object. `pc` walks through `plan` (`Plan`), the division of
the seed (`Subdivide`), and the outer loop of `optimizeTEB` (`Optimize`, `Iterate`,
`Resize` per interval, `Build`, `PrepareSolve`, `Solved`/`Unsolved`). `Fail` holds the
retry of a failed warm start from a cold seed; that seed depends only on the request,
which carries it in `cold` from the start of the call. `OptimizeCandidate` is the way
`HomotopyClassPlanner` drives the same object, without `plan()`: its seeds are those of
`initTrajectoryToGoal` alone, with the headings of the plan or, under
`global_plan_overwrite_orientation`, with estimated ones (`Oriented`). Which turn a request
asks for differs: a surge/yaw robot takes the short one unless its seed turns more, any other
robot the sum of the turns of the plan (`SummedHeading`). The solvers are
external: `MoveVertex` (g2o) gives a free vertex any value, `MoveControl` (nlopt)
any feasible one of the same winding class, any number of times, and `Expire` lets
the deadline pass at any time. `Command` is the look-ahead of
`getVelocityCommand`, of which the signs of the averaged controls matter.

`PlannerInterface` is what `planner_interface.h` promises to a caller of any local
planner: a request, an answer, and a trajectory only after an answer true, which then
connects the start and goal *of this request*; every call returns.
`ImplementsInterface` shows that the object of the code implements it.

### GraphSearch, Obstacles, Distances

Source: `graph.cpp`, `obstacles.h`, `obstacles.cpp`, `distances.h`, the container
functions of `ros.cpp:908-1110`, `robot_footprint_model.h`. `Distances` has the
predicates and distances of figures, as exact fractions; `Obstacles` the four kinds the
planner creates, their centroids, distances (also at a later time), intersection
tests, and how they are made from a costmap, from a converter's message and from a
custom message. `GraphSearch` is one exploration: the container is filled
(`UpdateObstacleContainer`, while `CustomObstacleCB` may replace the message at any
time), old trajectories may be left (`Renew`), one of the two graphs is built
(`CreateKeypointGraph`, `CreateRoadmap`) and searched. The recursion of
`DepthFirst` is a stack: `visited` is the list all levels share, `frames` holds
where the second loop of each level stands; `Enter`, `LookForGoal` and `Recurse` are
one round each. The class of a path is the side on which it passes each obstacle.
The random samples of the road map are a parameter, and `SearchAssumption` says what a
scene is.

### SweptFootprint

Source: `swept.h`. A query object on an integer lattice: cells are squares, hull and
padding are boxes, a motion is a step of one lattice unit, the piece between two
support events. `Begin` computes the contact planes and the component of the
contacted obstacle; `Advance` refuses a motion or moves and drops the planes the
padding has cleared; `TerminalSensingClearance` is the check of an endpoint.
Verdicts are the reasons of the code and come in its order. On boxes and such
steps the separation tests of the code are exact.

### FailureDetector, ControlCycle

Source: `recovery.cpp` and `ros.cpp:310-905, 1415-1545`. `FailureDetector` has
the circular buffer and the decision over it as operators. `ControlCycle` is one
`computeVelocityCommands` after the other, with every return of it:

| `pc` | action | code |
|---|---|---|
| `idle` | `BeginCycle`: the caps narrow `cfg_.robot`, or the cycle is refused | 390-463 |
| `locate` | `Locate`: pose, pruning, transformation | 465-504 |
| `via`, `refill` | `CheckViaPoints`, `UpdateViaPointsContainer` | 510-512, 1083-1102 |
| `goal` | `CheckGoal` | 514-584 |
| `modes` | `ConfigureBackupModes` with the oscillation recovery | 1426-1498 |
| `plan`, `check` | `Plan`, `CheckFeasibility` | 586-720 |
| `select` | `SelectCommand` (saturation, shaping, arc check, contact recovery), `RejectCommand` | 721-889 |
| `returning` | `FinishCycle`: the destructors | 410-433 |

Between two calls run `SetCommandScope`, `SetStationEnvelope`, `CommitCommand`,
`DiscardCommand`, `IsGoalReached` and `Reconfigure`. `SelectCommand` shapes the request and
the candidates of the recovery as `shape_command` does (747-762): within a scope a command
is clamped around `previous`, the reference the owner committed last, by the interval it has
in common with the limits of this cycle. It can therefore exceed the request, keep its
old sign, or be refused because a new cap and the history have nothing in common. The
reference survives a new envelope, and a new reverse cap for the same request, so it may have been
accepted under wider limits. The times behind it are those of `CommandContinuity`; here a cycle
finds the clock set or not, and `budget`, the time that counts since the reference was accepted,
is anything up to one period (0 when the reference is not older, or too old); a commit
is in time or expired. Beside a call run the two halves of
`customViaPointsCB` and the clock, which may jump back. The costmap is, for one
cycle, the set of commands whose swept arc is free, and the answers of
`SweptFootprint::begin` on the pose. The planner is what `PlannerInterface` lets a
caller see, with the direction each of its trajectories prefers.

`MC*` modules only give values to constants.

## 4. Runs

| run | expects | what it shows | bounds |
|---|---|---|---|
| `hcp` | pass | the containers, pointers and the selection stay consistent through every order of calls | 2 TEBs in the container and 5 addresses, two classes and one invalid signature, two costs, detours and random drops on, 2 plans allowed in the current class |
| `hcp_threshold` | pass | duplicates are confined to the class of the best TEB and bounded; planning and feasibility checks end | 3 TEBs, signatures over two obstacles: three valid ones with `a~b`, `b~c`, not `a~c`, and one with a NaN that is similar to all three; no initial plan; one cost |
| `terminal_observation` | pass | slot, epochs and flag under interleaved `setPlan` and cycles | 3 plans, 4 cycles |
| `command_continuity` | pass | limits win, history stays with its route, and the refinement | 2 routes, clock to 5, period 2, horizons around the period, requests and limits on both sides of zero |
| `global_plan` | pass | rotations are kept by the simplification, taken in order, and precede the arrival; the local goal is on the plan | 4 points on a line, 3 yaws of which two are within the tolerance, three routes of 5 or 6 poses, one plan, one push, all scopes |
| `global_plan_route` | pass | the route is completed | 2 routes with rotations, 2 yaws, lookahead as long as the prune distance |
| `swept_footprint` | pass | what the relaxed rule of an initial contact never allows, over any chain of accepted motions | a 6 x 5 map, a hull of 2 x 1 with padding 1, eleven arrangements of obstacles, an unknown corner or none, nine starts |
| `swept_footprint_reentry` | violation | a hull that begins clear of a wall may move over another cell of it | the same |
| `optimal_planner` | pass | the graph and the band stay in step, an answer true can be driven, the turn is kept, and the interface is implemented | five configurations: g2o with resizing, surge/yaw, two kinds of candidate, optimization off; plans with their own or with estimated headings, one that winds further than half a turn; 1 or 2 outer iterations, 3 samples, headings within one turn on either side |
| `optimal_planner_cost` | violation | a surge/yaw candidate may be returned without a cost | the candidate configuration alone |
| `graph_search` | pass | the search is complete, candidates are distinct and free, distances are true | 26 scenes: up to four obstacles of every kind and orientation, a costmap of 5 x 4 cells, roadmaps of two or three samples, 5 classes |
| `control_cycle` | pass | commands are checked and capped, caps are lifted, via-points are kept, a recovery acts, ends and leaves nothing behind | six scenes, each of one part: the recovery with the single planner, the class planner and a car; the caps with the contact recovery, where the accepted reference reaches 3 ahead and 1 back before an envelope of 1 or a reverse cap of 0 comes; a car that is reconfigured; via-points. One unit of acceleration and one period |

**Why the bounds are enough.** The container logic compares positions within one pair
of sequences, `best` against an element, and the size against the limit: two
elements are the smallest container with a swap, an erasure that shifts and a
single survivor, and a third appears in `hcp_threshold` where chains of
similarity need it. Three plans let an old, a current and an overlapping one
coexist; four cycles let a stale evaluation be followed by another. A clock of
five units covers less than a period, a period, a horizon, and more than it. The routes of
`GlobalPlan` hold the cases that differ: a way back over its own positions (the
closest pose and the passed poses are then ambiguous), two rotations at one
position, a rotation within the tolerance, repeated samples, a rotation at the end;
one push reaches every pose, and between two pushes the robot overshoots by
following its local plan.

The configurations of `MCTebOptimalPlanner` are the ways through `optimizeTEB` that
differ: with and without the surge/yaw checks, under `plan()` and as a candidate,
resized or not, with both associations of obstacles. Positions, durations and headings
have values on both sides of every threshold the code compares them with (half a
turn, the reference duration and its hysteresis, the re-initialization distance). The scenes
of `MCGraphSearch` hold every kind of obstacle listed in both orientations, on, beside and
across the straight line, and rectangles whose edges run along grid lines, where
the tests of intersection degenerate. The maps of `MCSweptFootprint` hold single
cells, pairs that touch at a side, at a corner or not at all, walls, corners of
walls and diagonals, so that the component of the contact and its planes differ in all
ways. The scenes of `MCControlCycle` each leave out the parts that do not meet: a
detector of three samples is half full after two, the oscillation time is two ticks, and the
clock may jump back by one.

What the bounds cannot show the theorems of section 5 do for the modules that have them.

`TerminalObservation` and `GraphSearch` switch deadlock detection off: the bounds of the
first on plans and cycles are guards, so an execution ends when they are used up, and
the second is one exploration, which ends when the search has returned. All other runs
look for deadlocks.

**Fairness.**

- `hcp_threshold` (`FairSpec`, `CallsReturn`). `plan()` and `isTrajectoryFeasible()` are
  function calls: their loops hold no lock and wait for nothing but the threads they
  started (joined in `optimizeAllTEBs`), so each of their steps is weakly fair.
  `ExploreCandidate` has no fairness: the search may offer nothing. The caller is not
  fair either: it may never call again. A check that begins with containers of different
  size, after an invalid best TEB, need not end and is left out, see the observations.
- `global_plan_route` (`RouteSpec`, `RouteIsCompleted`) is about a loop with its robot,
  so its fairness is an assumption about the environment and says exactly what "no
  trap" means: the control loop calls again (its period), transforms, planning and the
  motion to the local goal succeed again and again (strong fairness: they may fail in
  between any number of times), a robot at its goal stops, and nobody pushes it. The
  property adds that the scope settles. What is left to refute it is the choice of
  local goals alone. The lookahead of the run is as long as the prune distance; see the
  observations for a shorter one.
- `optimal_planner` (`ImplementsInterface`, which includes that every call returns). The
  loops of `optimizeTEB` are ordinary code and a solver evaluates a bounded number of
  times, so `Step` is weakly fair; moves of vertices by the solver and the passing of
  the deadline are not fair. `Fairness` writes `WF_vars(Step)` out, because the
  condition under which `Step` is enabled is just `pc # "idle"`.
- `control_cycle` (`RecoveryEnds`). Only the clock is fair: time passes. That cycles
  come to the backup modes and to planning, that the detector stays quiet, and that the clock
  is not set back for ever are premises of the property.

### Findings

1. **The physical boundary of a contacted wall bounds one direction only**
   (`swept.h:327`, run `swept_footprint_reentry`). The comment in `begin()`
   (`swept.h:124`) says of a hull that "begins outside the wall, its hard lower bound is
   the physical boundary". A cell of the contacted component whose face lies on the
   boundary of *any* plane is excused from the hull check, whatever direction the
   hull comes from: a hull that began clear of every obstacle can slide along the wall
   onto a cell of it. What does hold is `OverlapNeverDeepens` and `NewCellsRefused`.
2. **A candidate without a cost** (`optimal.cpp:230`, run `optimal_planner_cost`). The
   cost is computed in the last outer iteration only, and a surge/yaw robot leaves the
   loop when the control deadline has passed. Only `plan()` sets the deadline and the
   homotopy planner calls `optimizeTEB()` directly, so with two or more outer iterations
   the loop ends before the cost, which stays at its initial `HUGE_VAL`. `optimal.h:233`
   says the cost is calculated if asked for.

### Observations

Met while modelling and not made into runs. Most are consequences the models contain.

*Class planner.*
- `removeTeb()` logs and keeps an infeasible TEB when the containers differ in length
  (`hcp.cpp:721`), which the best TEB causes when its signature is not finite
  (`hcp.cpp:225-228`). The feasibility loop then checks the same TEB again.
- With a full container `addAndInitNewTeb(initial_plan)` returns before it stores the
  class of the plan (`hcp.cpp:416`); `updateReferenceTrajectoryViaPoints`
  (`hcp.cpp:328`) then compares with the class of an earlier plan.
- The lock flag of a class (`hcp.cpp:433, 513, 525`) is written and never read. The best
  TEB is protected by pointer.
- `plan()` always returns true (`hcp.cpp:124`), also when no TEB has a cost.
- `HSignature3d::isEqual` may accept a signature with a component that is not a
  number. The planner never stores such a signature, but it compares with it when it is the
  one of the best TEB (`hcp.cpp:391, 400`). The best TEB itself is then not counted, and a
  TEB that is similar to it enters as long as it is new, so more of them than
  `max_number_plans_in_current_class` may come in, dissimilar to each other.
  `CurrentClassBounded` excludes that state by `best_class \in ValidSigs`; without it TLC finds
  the bound exceeded. `isReasonable` is never called.
- When no plan was given before the container was full, the class of the initial plan is still
  null where `updateReferenceTrajectoryViaPoints` dereferences it (`hcp.cpp:328`). The model
  takes it as equal to no class.
- TEBs found during a recovery do not get its direction (`hcp.cpp:740-747` speaks to the
  ones that exist).

*Goal and plan.*
- The epoch is read after the goal (`ros.cpp:559`): a `setPlan` in between is not noticed
  by the comparison that `ros.cpp:570` describes, and an older evaluation owns the slot.
- `goal_reached_` is set after the mutex of the slot is released (`ros.cpp:577-579`); a
  `setPlan` in between leaves the flag of the old goal. `ReachedGoalIsCurrent` excludes
  exactly those cycles.
- A cycle refused by its scope or envelope (`ros.cpp:436-456`) leaves `goal_reached_` as
  it was; a failing cycle writes its reason into the slot without comparing epochs;
  `isGoalReached()` calls `clearPlanner()` without a lock.
- The reduced horizon is dead code (`ros.cpp:1432`): the guard compares an index into
  `global_plan_` with the size of the piece of it that ends at this index, so it is
  false in every reachable state (proved: `HorizonNeverShrinks`).
- `transformGlobalPlan` reads `global_plan[0]` (`ros.cpp:1176`) before it tests for an empty
  plan (1182). The model takes the outcome of the test.
- With a lookahead shorter than the prune distance and no scope, a route that retraces its
  own positions has a trap: the local plan that starts with the poses of the way out
  ends under the robot, cycle after cycle. `RouteIsCompleted` fails for `Lookahead =
  1` with `PruneDistance = 2`. Nothing in the repository relates the two.

*Cycle.*
- Custom via-points are lost while their flag says they are active when the callback runs
  between the check and the refill (`ros.cpp:511`); `CustomViaPointsKept` excludes that
  interleaving by `overlapped`.
- Oscillating with no direction chosen: after the start of a simulated clock, or after it
  is set back, `time_last_oscillation_` looks recent (`ros.cpp:1474`).
  `RecoveryHasDirection` excludes those times by `settled`.
- The refusals "command_continuity_invalid" and "selected_command_..." neither clear the
  planner nor count as infeasible plans.
- After a rejected feasibility check the contact recovery takes its velocity from
  `bestTeb()`, which may be a TEB that was just removed, or one that was not checked. The
  recovery makes its own check of the arc it commands.
- `setPlan` does not clear the buffer of the failure detector: evidence of the old route
  counts on the new one. `reconfigureCB` applies configuration and robot model under two
  separate locks.

*Optimizer.*
- With ordered via-points the search for the nearest pose may start past the end of the
  band, and the via-point is then attached to pose 1 whatever its place.
- The legacy association adds the same obstacle edge up to three times for a short band.
- Nothing but the durations of the seed keeps the first primitive of a surge/yaw band from
  being a long null motion, for which the averaged command would be zero.

*Obstacles and geometry.*
- A line obstacle collinear with an edge of the graph is reported free head-on, and the
  intersection test of lines, polygons and pills ignores `min_dist`
  (`obstacles.h:115-122` documents it as a parameter of all).
- A converter's message without points gives its velocity to the obstacle before it
  (`ros.cpp:1001-1003`); the custom path skips such a message (1057-1061).
- Custom obstacles stay in the coordinates of their message when the transform is missing.
- The distance of a footprint inside a polygon obstacle is positive, and
  `TwoCirclesRobotFootprint::getInscribedRadius` overstates.
- The loop over the costmap skips its last row and column (`ros.cpp:915-917`).

## 5. Proofs

`HomotopyClassPlannerProofs`, `TerminalObservationProofs`, `CommandContinuityProofs`,
`GlobalPlanProofs`, `ControlCycleProofs`, `SweptFootprintProofs`, `GraphSearchProofs` and
`TebOptimalPlannerProofs` extend their modules. Each defines `IInv`, proves `Init => IInv` and `IInv /\ [Next]_vars => IInv'`
action by action, and derives the properties.

**HomotopyClassPlanner.** For every set of addresses, signatures and costs,
every symmetric similarity, limit and weight. `IInv` joins `TypeOK`, `AtMostMaxClasses`,
`ContainersInStep`, `ClassesMatchTebs`, `SelectionIsACandidate` and
`CheckedTebIsCommanded` with three facts that make them inductive:

- `NoTebTwice`: an address occurs once. Otherwise removing the best TEB by
  pointer would leave another copy, and the swap to the front could duplicate.
- `LoopIterator`: where the running loop stands (the first elements up to `it`
  are done; in `reanalyze`, `Len(classes)` follows `it`).
- `ReanalyzedSoFar`: halfway through `renewAndAnalyzeOldTebs` the best TEB is in
  front (`BestInFront`), and the classes added so far are those of the TEBs before
  the iterator, with the first one missing or not (`ClassesSoFar`,
  `BestUnclassified`). `ClassesMatchTebs` speaks only about the end of that loop
  and is not inductive without it.

`BestSurvivesExploration` and `SwitchIsEarned` are action properties that follow
from the same invariant. The proofs rest on lemmas about `RemoveAt`, `Append`
and the swap on sequences without duplicates, stated once. The assumption that
matters is `ConstantsAssumption`: similarity is a symmetric relation, on all signatures, and
there are three addresses more than the limit, so that a new object always has a free one.

`CurrentClassStaysBounded` (no more TEBs in the class of the best one than
`max_number_plans_in_current_class` allows, as long as its class is valid) needs more than a count. `BestClassFirst` says that
from `renewAndAnalyzeOldTebs` to the selection the cached class of the best TEB is the first of
the container, so everything `addEquivalenceClassIfNew` compares with the cache is compared with
something that is there; `BestClassBounded` bounds the positions of that class. An erasure maps
the remaining positions injectively to earlier ones; an append adds at most one, and only below
the limit. A TEB that is similar to the best one *from its side* must be so from the other
side as well, which is where symmetry is used: without it the limit could be passed.

**TerminalObservation.** For every number of plans and cycles. `PlansCounted`
says by how much the slot lags behind the plan in each phase of `setPlan`,
`EventsCounted` that an epoch is fixed by its two other counters (so equal counters
mean the same reset), `NotEvaluatedYet` that nothing is evaluated in the slot before
a cycle commits, `VerdictMatches` that verdict and reason agree, and
`GoalFollowsPlan` that a cycle which no `setPlan` overlapped holds the goal of the
plan in place. The last one is what `ReachedGoalIsCurrent` needs and is false without
its premise, as the observation about `ros.cpp:559` shows.

**CommandContinuity.** For every set of routes, every period, acceleration,
horizon, request and limit. `NoHistory` ties `available` to the stored stamp and
command; `PendingFollows` says that a pending command was selected against the
history that is still in place when it is committed, which is why a commit is a step
of the reference; `PendingInLimits` keeps it in the limits of its cycle;
`OwedWhenIdle` and `StoppedWhilePlanning` say where the protocol stands. The
refinement theorem shows that each call is a step or a stutter of
`CommandReference`: the commit is an `Accept`, everything that clears the
history a `Forget`.

**GlobalPlan.** For every route, table of distances, tolerance, window and
lookahead, and every motion of the robot. `SuffixOfStored` says what is left of a
plan is a suffix of the stored one, so the rotations of the one are rotations of the
other (`TurnsOfSuffix`). `TurnsAreTaken` is inductive with it: the pending rotation is
the first one left (`PendingPhase`), a completed one is pruned to its end, an
uncompleted one never past its begin (`ErasedInRange`). `GuardedInScope` links the
history to the scope. `LocalPlanOnPlan` says that the local plan is a piece of the
plan that ends at `goal_idx`; from its first conjunct, `Len(local_plan) <= goal_idx +
1`, follows that the guard of the reduced horizon is false, without which the
invariant would not be kept by `ConfigureBackupModes`: a plan shortened by one more
pose than `goal_idx` would break it. Least and greatest elements, on which `Passed`,
`Closest` and `Phase` rest, are proved from the well-foundedness of the naturals.
`RotationsStay` is about the simplification in `setPlan`, for any choice of samples to drop:
a sample at which the plan turns on the spot survives with both its headings. The argument
follows the two passes. Dropping samples that equal their predecessor leaves the last of each
run of equal ones, and neighbours that differ stay neighbours (`NeighboursStayNeighbours`,
`LastOfEqual`, `DistinctKeepsTurns`); the thinning after it never drops an end of a rotation
(`SimplifiedKeepsTurns`).

**ControlCycle.** For every set of scenes (configurations, requests, scopes, envelopes,
free arcs), every capacity and threshold of the detector, and every clock. The caps are
an invariant of the local variables: `CapsInForce` says that within a cycle the robot is
`Narrowed` from the saved one by the scope and envelope in force (which no one may
change while a call holds the mutex), and `CommandWithin` that an accepted command is
within the narrowed robot. `CapsAreObeyed` then follows from `NarrowedTightens`. That
saturation and the recovery candidates stay within the robot is arithmetic with integer
division (`QuotientBound`, `ScaleBound`, `RatiosFit`, `SaturatedWithin`,
`CandidatesWithin`). `ShapedWithin` is about the continuity: nothing is assumed of the accepted
reference (it may lie beyond every limit of the cycle), and what is selected around it is within
them, since `select` refuses when history and limits have nothing in common and was given the
limits of the narrowed robot. `CallbackInStep` ties the via-point flag to the halves of the
callback, which makes `CustomViaPointsKept` inductive, and `RecoveryActs` ties the
direction to the time since the last recovery, on which `RecoveryHasDirection` rests.
`SceneAssumption` types the scenes: the limits of a robot are naturals, requests are
integers.

**SweptFootprint.** For a map, hull and padding of any size, any obstacles, and any
chain of `begin`, `advance` and terminal checks. `PlanesHold` says that the planes in
force are contact planes of the pose the query began with and that no accepted motion
took the hull below what they protect; `OverlapKept` that the first overlap is
remembered. The argument of `OverlapNeverDeepens`: a cell under the hull excused one
accepted motion, so it lies behind a plane in force; the hull reached below its face at
`begin` already, so the plane protects exactly the support of the first pose.
`PaddingRestored` and `NewCellsRefused` use that a footprint over a cell reaches below
every face of it (`OverlapsReach`), so its plane is not dropped (`PlaneRemains`). That
the outermost face exists is proved from the well-foundedness of the naturals.
`TerminalEndpointStaysClear` is about the check of an endpoint: when it passes, the padded
footprint moved by less than the margin in any direction does not touch a cell of unknown
space. The check compares squares of two distances; the proof turns that into one
distance along an axis, for any margin, padding and map.

**GraphSearch.** For every scene, every costmap, message and sample, and every graph the two
constructions can build from them. The search is a stack, and what it has done is a property
of paths: `Passed` says of a path that some call on the stack leads along its beginning and
has done with the vertex at which it goes on. `ExploredOK` says that every candidate has been
passed and came once, `ClassesOK` that the class of every passed path is kept unless the
container is full. `CallBegins`, `GoalSought`, `VertexEntered` and `CallReturns` say what each
round of `DepthFirst` adds to the paths that are passed: nothing, the path that reaches the
goal, nothing, and the paths through the call that returned, of which none was left. At the
end the stack is empty and every path is passed (`SearchEnds`), which gives
`SearchFindsEveryClass`. `CandidatesStayDistinct` is the other half: what has been passed is
not offered again. `CandidatesGoForward` follows from the construction of the edges
(`EdgesLeadForward`). The types of obstacles (areas, centroids, halves of polygons with
their integer division) are lemmas about the functions of `Obstacles`.

`DistancesStayTrue` needs no invariant but the types, and all of the geometry. Distances are
fractions, ordered by `AtMost`. Along a segment the squared distance from a point is a parabola
(`Along`); Lagrange's identity says that its vertex is the foot of the perpendicular, so the
projection of `calc_distance_point_to_segment` is the least of all squares, those of the reference among
them (`NearestIsLeast`). Two segments meet exactly if one passes through the other or an end of
one lies on the other (`MeetingSegments`). The intersection test of the code overlooks some that
touch, but it finds all that pass through each other and none that do not meet
(`IntersectionIsMeeting`), and those it overlooks have an end at distance zero
(`NearestEnd`): this is why the distance is right where the test is not. The rest is the
least over the edges of two figures, in whatever order the code goes through them, and that moving both
figures changes no difference (`GapsStay`), which makes a moving obstacle and a moving robot
the same. That the outline of the robot has a vertex is assumed in `SearchAssumption`.

`CandidatesStayFree` compares the intersection tests of `createGraph` with what they stand for,
for obstacles of every kind at any place. `GraphFree` is inductive with `IInv`: the graph joins
robot and goal, and every edge of it was let through by all the obstacles in place. Points and
circles: no twelfth of an edge is nearer than its nearest point (`NearTwelfthIsFound`). Lines:
an end on each side of the other is what the determinants say (`LineIsCrossed`). Polygons need
the whole path, as one edge may well begin or end inside: around an interior point the vertices
turn through all directions, so a line through it has some on both sides (`RingTurns`,
`InteriorHasBothSides`) and an edge of the polygon crosses it upwards (`EdgeAcross`). The
half-open test of the code closes one of the two ways through such an edge: which one depends on
the order in which the vertices are listed. A path therefore never leaves the polygon again, or
was in it all along (`StaysInside`), and being inside carries on to the goal or back to the start
(`NoneThroughPolygon`), where the property excuses it. The property speaks of convex polygons
(`Convex`), as all in the scenes of the runs are: of others the part that all edges face is not the
whole interior, and a path may leave that part and stay within the polygon. That
`min_obstacle_dist` is not negative, which is the range of the configuration, is in
`SearchAssumption`.

**TebOptimalPlanner.** For every configuration, plan, obstacle list, via-point list and
every value a solver may choose. `IInv` is `CountersTyped` (what `TypeOK` says),
`CallHasBand` (a band there is between the seed and the answer, and its size) and
`GraphOfSize`. Most of the work is that every constructor and every edit of a band keeps `n`
poses with `n - 1` time differences: `Sized` bands through insertion and deletion, hence
`ResizeStepType`; `NearestAheadType` for what pruning may delete; and the loops of the seeds.
`GraphOfBand` then shows every edge of `buildGraph` closed, for each of the association
methods; a look-ahead past the end of the band gives -1, which both users treat
(`FindClosestTrajectoryPoseType`). `GraphAlwaysMatches` is the conclusion. `AnswersAreExecutable`
rests on `SolvedIsFollowable`: a band is taken over only as the rollout of controls that
were checked, and integrating checked controls keeps positions, and headings up to full
turns (`RolloutCongruent`, from the arithmetic of `Normalize`), so what was within the
bounds stays within, and headings no longer jump (`RolloutFollowable`). The previewed
controls are of one sense by the way the look-ahead stops (`CommandHasOneSense`).

`SeedsAreFeasible` and `TurnsAreKept` are about whole bands of a robot that surges and turns.
Two properties of a band carry them: it is `Pure` when every interval turns on the spot or
surges along the line, and it `Winds` as its last heading says when the wrapped turns of its
intervals add up to the heading at the end, so that no full turn hides in it. Any seed, of a
plan of any length and tolerance, has both: `PivotSeed` puts at most a quarter turn between
neighbours (`SmoothStep`), and the poses built from the samples have the headings of the
samples up to full turns (`Tracks`); an interpolated point lies on the way to its goal
(`Approaching`). `Subdivide` halves an interval until it is executable; halving keeps both
properties (`HalvedPure`), and the part before the iterator is executable already
(`Started`). A rollout turns by what its intervals turn by. `SeedSound` is the invariant: as
long as a warm start can still be retried the *cold* seed is pure and winds as it says,
afterwards the band is, and from the first iteration on it is feasible. `TurnSound` says the
same about the angle: band and cold seed turn by the angle that was asked for, and the heading
that was requested at the end is the one of the band. `PrepareParts` gives its first line:
the branch of the goal's heading is chosen next to the old band's, so a request congruent to
the old turn *is* the old turn. However often the plan winds, the heading at its end is the one
asked for up to full turns (`TerminalHeadingEnds`).

`AnswersConnectTheRequest` is the safety half of the refinement of `PlannerInterface`: the
initial state maps to the initial state of the interface, and every step of `plan()` or of a
candidate to a step of it or to none (`StepMaps`). The invariant it needs is `EndsSound`:
during a call the band leads from the start of the request's plan to its end (`Joins`, up
to full turns), and so does the cold seed as long as it may still be used; without the
motion model of a robot that surges and turns, both ends of a band are fixed, in a call and
between two calls, since g2o may otherwise move them. Every seed begins and ends so
(`InitializedJoins`), pruning a warm band moves its ends to the new plan (`UpdatedJoins`),
`autoResize` works between the ends (`ResizeStepEnds`), g2o moves only free vertices
(`MoveVertexKeepsEnds`), and integrating the controls of a band leads to the poses they
were taken from, up to full turns (`RolloutKeepsEnds`, `MoveControlKeepsEnds`). Each step of a call then falls back to the
cold seed, gives up, or keeps the ends (`StepsOfCall`). `PlannerAssumption` says for this
proof that "no request" is no pair of poses.

**What loops compute.** Loops are recursive functions, and the prover has no induction rule
that it could apply to them. The modules above prove the two facts that are needed from
the well-foundedness of the naturals, with sets in the place of predicates: a set that contains
0 and with each number the next is an interval (`IntervalInduction`), and a chain of values
of any length exists (`Recursion`), so that a function defined by such a chain has its
defining equation. Each loop is then unfolded once, in the lemma that types it.

**Only model-checked.** `CallsReturn`, `RouteIsCompleted`, `RecoveryEnds` and the liveness half
of `ImplementsInterface`, that the calls of `PlannerInterface` return: the prover has no rule
for fairness and `ENABLED`.
Every invariant and action property of the runs is stated by a theorem.

## 6. Not modelled

- `SweptFootprint`: rotations and arcs, their decomposition at support events, the
  tolerance, and footprints that are not boxes. They are real arithmetic (bounds of
  trigonometric intervals) around the rule that is modelled.
- Pill obstacles (no code creates one), circular and two-circle footprints,
  `getClosestPoint` and `checkCollision`: stateless arithmetic that the modelled
  decisions do not ask for.
- How an H-signature is computed: complex analysis and an integral. The comparison is
  modelled, and every value is possible.
- Residuals and penalties of the g2o edges, and the solvers: real arithmetic
  without decisions. Every value a solver may leave in a free vertex is possible, within
  small sets.
- `TebOptimalPlanner::isTrajectoryFeasible` (the loop that moves a swept footprint along the
  band; its outcome is an input of `HomotopyClassPlanner` and `ControlCycle`),
  `getFullTrajectory`, `getVelocityProfile` and the value of `computeCurrentCost`:
  computed from the band, and no state is changed.
- Visualization and feedback: output that nothing reads back. Parameter loading and
  the parsing of a footprint: strings at start-up, after which `initialize()` holds a
  configuration, which is where the models start.
- The demo node, scripts, launch files and messages: no state anything depends on.
