------------------------- MODULE TebOptimalPlanner -------------------------
(***************************************************************************)
(* TebOptimalPlanner (optimal_planner.{h,cpp}): plan() warm starts or      *)
(* initializes the band, optimizeTEB() alternates between resizing the     *)
(* band, building the graph, solving and clearing the graph, and a failed  *)
(* warm start is repeated from a cold one.  Every iteration of a loop is a *)
(* step, so that what the optimizer holds can be compared with the band at *)
(* every point.  Under HomotopyClassPlanner the same object is driven      *)
(* without plan(): its owner updates the band and calls optimizeTEB().     *)
(*                                                                         *)
(* g2o and nlopt are external: a solver moves one free vertex per step,    *)
(* any number of times.                                                    *)
(***************************************************************************)
EXTENDS TebGraph

CONSTANTS
  Configs,     \* the configurations, each with the plans asked of it
  Positions,   \* positions a solver may move a pose to
  Durations,   \* time differences a solver may choose
  MaxHeading,  \* bound: how far headings may wind up over successive calls
  Null

VARIABLES
  cfg,        \* the configuration in force, never changed
  band,       \* teb_
  graph,      \* optimizer_
  pc,         \* where the call in progress stands
  loop,       \* [at, rep, modified, iteration]: the loop counters
  requested,  \* requested_goal of optimizeTEB()
  turn,       \* maximum_absolute_turn of the control optimization
  expired,    \* control_deadline_ has passed; it starts at the epoch
  request,    \* the arguments of the call in progress, Null between calls
  answer,     \* what the last call returned
  cost        \* cost_: "none" (HUGE_VAL), "current" or "stale"

vars == <<cfg, band, graph, pc, loop, requested, turn, expired, request, answer, cost>>

Labels == {"idle", "subdivide", "optimize", "iterate", "resize", "build",
           "prepare", "solve"}
NoLoop == [at |-> 0, rep |-> 0, modified |-> FALSE, iteration |-> 0]

\* A sample of a plan.
Samples == [x : Int, yaw : Int]

\* What a configuration and a plan are.  min_samples "should be always greater
\* than 2"; an autosize needs a positive dt_ref.
ConfigRecords ==
  [differential : BOOLEAN, homotopy : BOOLEAN, activate : BOOLEAN, outer : Nat \ {0},
   autosize : BOOLEAN, minSamples : Nat \ (0 .. 2), maxSamples : Nat, dtRef : Nat \ {0},
   hysteresis : Nat, reinitDistance : Int, reinitAngle : Int, tolerance : Int,
   backwards : BOOLEAN, legacy : BOOLEAN, dynamic : BOOLEAN, ratio : BOOLEAN,
   ordered : BOOLEAN, station : BOOLEAN, carlike : BOOLEAN, rotdir : BOOLEAN,
   freeGoal : BOOLEAN, overwrite : BOOLEAN, inclusion : Int, cutoff : Int, posesAffected : Nat,
   preventLookAhead : Int, lookAhead : Int, plans : SUBSET (Seq(Samples) \ {<<>>})]

PoseRecords == [x : Int, yaw : Int, fixed : BOOLEAN]
Bands == [poses : Seq(PoseRecords), dts : Seq(Nat)]

\* The arguments of a call, and what they mean for the band that is there.
RequestRecords ==
  [plan : Seq(Samples) \ {<<>>}, warm : BOOLEAN, retried : BOOLEAN, cold : Bands \cup {Null},
   start : Samples, goal : Samples, terminalYaw : Int, oldTurn : Int \cup {Null}]

ASSUME PlannerAssumption ==
  /\ Configs \subseteq ConfigRecords
  /\ Positions \subseteq Int
  /\ Durations \subseteq Nat \ {0}
  /\ Null \notin RequestRecords /\ Null \notin Samples \X Samples

-----------------------------------------------------------------------------
(* Geometry of a differential robot *)

TurnBetween(p, q) == Normalize(q.yaw - p.yaw)
Surge(p, q) == (q.x - p.x) * Along(p.yaw + TurnBetween(p, q) \div 2)

\* One bounded primitive leads from p to q: a surge or a turn on the spot.
Executable(p, q) ==
  /\ q.x # p.x => TurnBetween(p, q) = 0 /\ Normalize(p.yaw) \in {0, -4}
  /\ Magnitude(q.x - p.x) <= Quarter /\ Magnitude(TurnBetween(p, q)) <= Quarter

\* The control of interval k, and the pose and time difference it leads to.
Integrated(c, b, k) ==
  LET from == BackPose(c)
      motion == TurnBetween(Pose(b, k - 1), Pose(b, k))
      dx == Pose(b, k).x - Pose(b, k - 1).x
      least == Larger(Magnitude(dx), Magnitude(motion))
  IN [poses |-> Append(c.poses, [x |-> from.x + dx, yaw |-> from.yaw + motion,
                                 fixed |-> Pose(b, k).fixed]),
      dts |-> Append(c.dts, Smaller(Quarter, Larger(least, TimeDiff(b, k - 1))))]

\* The poses integrated from the first one: headings are no longer wrapped.
Rollout(b) ==
  LET rolled[k \in 0 .. SizeTimeDiffs(b)] ==
        IF k = 0 THEN [poses |-> <<Pose(b, 0)>>, dts |-> <<>>]
        ELSE Integrated(rolled[k - 1], b, k)
  IN rolled[SizeTimeDiffs(b)]

AbsoluteTurn(b) ==
  LET sum[k \in 0 .. SizeTimeDiffs(b)] ==
        IF k = 0 THEN 0
        ELSE sum[k - 1] + Magnitude(TurnBetween(Pose(b, k - 1), Pose(b, k)))
  IN sum[SizeTimeDiffs(b)]

\* The heading at the end when no turn is wrapped.
Winding(b) ==
  LET yaw[k \in 0 .. SizeTimeDiffs(b)] ==
        IF k = 0 THEN Pose(b, 0).yaw
        ELSE yaw[k - 1] + TurnBetween(Pose(b, k - 1), Pose(b, k))
  IN yaw[SizeTimeDiffs(b)]

\* Mutant: the bounds are not checked again.
FeasibleMutEndpointOnly(b, goal) ==
  BackPose(Rollout(b)).x = goal.x /\ BackPose(Rollout(b)).yaw = goal.yaw

\* restore(): bounds and endpoint hold for the controls read off the band.
Feasible(b, goal) ==
  /\ \A i \in 0 .. SizeTimeDiffs(b) - 1 : Executable(Pose(b, i), Pose(b, i + 1))
  /\ BackPose(Rollout(b)).x = goal.x
  /\ BackPose(Rollout(b)).yaw = goal.yaw

-----------------------------------------------------------------------------
(* plan() *)

Homotopy == cfg.homotopy

\* The plan initTrajectoryToGoal() follows: global_plan_overwrite_orientation
\* replaces the headings of its interior samples.
Oriented(plan) == IF cfg.overwrite THEN EstimateOrientations(plan, cfg.backwards) ELSE plan

\* initialize(): the seed, its own winding, and the requested goal heading.
Initialized(plan, goalYaw, keepBranch, terminalYaw) ==
  LET seed == IF cfg.differential
              THEN PivotSeed(plan, cfg.backwards, keepBranch, terminalYaw) ELSE Oriented(plan)
      b == InitTrajectoryToGoal(seed, cfg.minSamples)
  IN [b EXCEPT !.poses[SizePoses(b)].yaw = IF cfg.differential THEN Winding(b) ELSE goalYaw]

\* What a failed warm start is repeated from.
ColdBand(r) == Initialized(r.plan, r.goal.yaw, TRUE, r.terminalYaw)

\* The heading at the end of the plan when no turn between samples is wrapped.
SummedHeading(plan) ==
  LET yaw[k \in 0 .. Len(plan) - 1] ==
        IF k = 0 THEN plan[1].yaw ELSE yaw[k - 1] + Normalize(plan[k + 1].yaw - plan[k].yaw)
  IN yaw[Len(plan) - 1]

\* A differential robot takes the short way round, unless its seed turns more.
TerminalHeading(plan) ==
  IF cfg.differential THEN plan[1].yaw + Normalize(Last(plan).yaw - plan[1].yaw)
  ELSE SummedHeading(plan)

\* Mutant: the goal heading is the branch next to the start.
PrepareMutShortWay(plan) ==
  LET first == plan[1]
      wanted == Last(plan)
      branch == TerminalHeading(plan)
      warm == /\ IsInit(band)
              /\ Magnitude(wanted.x - BackPose(band).x) < cfg.reinitDistance
              /\ Magnitude(Normalize(branch - BackPose(band).yaw)) < cfg.reinitAngle
      startYaw == IF warm /\ cfg.differential
                  THEN Pose(band, 0).yaw + Normalize(first.yaw - Pose(band, 0).yaw)
                  ELSE first.yaw
      goalYaw == branch
  IN [plan |-> plan, warm |-> warm, retried |-> FALSE, cold |-> Null,
      start |-> [x |-> first.x, yaw |-> startYaw],
      goal |-> [x |-> wanted.x, yaw |-> goalYaw],
      terminalYaw |-> goalYaw - startYaw + first.yaw,
      oldTurn |-> IF IsInit(band) /\ first = [x |-> Pose(band, 0).x,
                                              yaw |-> Normalize(Pose(band, 0).yaw)]
                  THEN BackPose(band).yaw - Pose(band, 0).yaw ELSE Null]

\* The band to start from: the old one shifted to the new start, or a seed.
Prepare(plan) ==
  LET first == plan[1]
      wanted == Last(plan)
      branch == TerminalHeading(plan)
      warm == /\ IsInit(band)
              /\ Magnitude(wanted.x - BackPose(band).x) < cfg.reinitDistance
              /\ Magnitude(Normalize(branch - BackPose(band).yaw)) < cfg.reinitAngle
      startYaw == IF warm /\ cfg.differential
                  THEN Pose(band, 0).yaw + Normalize(first.yaw - Pose(band, 0).yaw)
                  ELSE first.yaw
      goalYaw == IF warm THEN BackPose(band).yaw + Normalize(branch - BackPose(band).yaw)
                 ELSE branch
  IN [plan |-> plan, warm |-> warm, retried |-> FALSE, cold |-> Null,
      start |-> [x |-> first.x, yaw |-> startYaw],
      goal |-> [x |-> wanted.x, yaw |-> goalYaw],
      terminalYaw |-> goalYaw - startYaw + first.yaw,
      oldTurn |-> IF IsInit(band) /\ first = [x |-> Pose(band, 0).x,
                                              yaw |-> Normalize(Pose(band, 0).yaw)]
                  THEN BackPose(band).yaw - Pose(band, 0).yaw ELSE Null]

AfterSeed == IF cfg.differential /\ ~Homotopy THEN "subdivide" ELSE "optimize"
Forget == IF cost = "none" THEN "none" ELSE "stale"

\* plan() up to the first optimizeTEB(); the deadline is set anew.
Plan(plan) ==
  /\ pc = "idle" /\ ~Homotopy
  /\ LET r == Prepare(plan) IN
     /\ Magnitude(r.start.yaw) <= MaxHeading /\ Magnitude(r.goal.yaw) <= MaxHeading
     /\ request' = [r EXCEPT !.cold = IF r.warm THEN ColdBand(r) ELSE @]
     /\ band' = IF r.warm
                THEN UpdateAndPruneTEB(band, r.start, r.goal, cfg.minSamples,
                                       cfg.differential)
                ELSE Initialized(plan, r.goal.yaw, FALSE, r.terminalYaw)
  /\ pc' = AfterSeed
  /\ expired' = FALSE /\ answer' = FALSE /\ cost' = Forget
  /\ UNCHANGED <<cfg, graph, loop, requested, turn>>

\* The bands a candidate of HomotopyClassPlanner begins with: over the plan
\* of the request, over a path of the exploration, or straight to a goal that
\* is within its tolerance.
NewCandidates(plan) ==
  {InitTrajectoryToGoal(Oriented(plan), cfg.minSamples),
   InitTrajectoryToGoalPath([i \in DOMAIN plan |-> plan[i].x], plan[1].yaw,
                            Last(plan).yaw, cfg.minSamples, cfg.backwards)}
    \cup IF Magnitude(Last(plan).x - plan[1].x) < cfg.tolerance
         THEN {InitTrajectoryToGoalStraight(plan[1], Last(plan), cfg.minSamples)} ELSE {}

\* HomotopyClassPlanner: a new candidate is initialized, an old one updated,
\* and optimizeTEB() is called without a plan() before it.
OptimizeCandidate(plan) ==
  /\ pc = "idle" /\ Homotopy
  /\ request' = [Prepare(plan) EXCEPT !.warm = FALSE]
  /\ band' \in IF IsInit(band)
               THEN {UpdateAndPruneTEB(band, plan[1], Last(plan), 3, FALSE)}
               ELSE NewCandidates(plan)
  /\ pc' = "optimize" /\ answer' = FALSE /\ cost' = Forget
  /\ UNCHANGED <<cfg, graph, loop, requested, turn, expired>>

\* Mutant: long surges are not divided.
SubdivideMutTurnsOnly ==
  /\ pc = "subdivide"
  /\ IF loop.at < SizeTimeDiffs(band)
     THEN LET i == loop.at
              from == Pose(band, i)
              to == Pose(band, i + 1)
              angle == TurnBetween(from, to)
              sideways == Along(from.yaw + angle \div 2) = 0
              middle == PoseAt(IF sideways THEN from.x ELSE from.x + (to.x - from.x) \div 2,
                               from.yaw + angle \div 2)
              half == Larger(1, TimeDiff(band, i) \div 2)
          IN IF Magnitude(angle) > Quarter
             THEN /\ band' = InsertTimeDiff(InsertPose(SetTimeDiff(band, i, half),
                                                       i + 1, middle), i + 1, half)
                  /\ UNCHANGED <<loop, pc>>
             ELSE /\ loop' = [loop EXCEPT !.at = i + 1]
                  /\ UNCHANGED <<band, pc>>
     ELSE /\ band' = [band EXCEPT !.poses =
                        [k \in DOMAIN band.poses |-> [band.poses[k] EXCEPT !.fixed = (k = 1)]]]
          /\ loop' = NoLoop /\ pc' = "optimize"
  /\ UNCHANGED <<cfg, graph, requested, turn, expired, request, answer, cost>>

\* One interval of subdivide(): halved until it is one bounded primitive;
\* then only the first pose stays fixed.
Subdivide ==
  /\ pc = "subdivide"
  /\ IF loop.at < SizeTimeDiffs(band)
     THEN LET i == loop.at
              from == Pose(band, i)
              to == Pose(band, i + 1)
              angle == TurnBetween(from, to)
              sideways == Along(from.yaw + angle \div 2) = 0
              middle == PoseAt(IF sideways THEN from.x ELSE from.x + (to.x - from.x) \div 2,
                               from.yaw + angle \div 2)
              half == Larger(1, TimeDiff(band, i) \div 2)
          IN IF Magnitude(Surge(from, to)) > Quarter \/ Magnitude(angle) > Quarter
             THEN /\ band' = InsertTimeDiff(InsertPose(SetTimeDiff(band, i, half),
                                                       i + 1, middle), i + 1, half)
                  /\ UNCHANGED <<loop, pc>>
             ELSE /\ loop' = [loop EXCEPT !.at = i + 1]
                  /\ UNCHANGED <<band, pc>>
     ELSE /\ band' = [band EXCEPT !.poses =
                        [k \in DOMAIN band.poses |-> [band.poses[k] EXCEPT !.fixed = (k = 1)]]]
          /\ loop' = NoLoop /\ pc' = "optimize"
  /\ UNCHANGED <<cfg, graph, requested, turn, expired, request, answer, cost>>

-----------------------------------------------------------------------------
(* optimizeTEB() *)

Answer(ok) ==
  /\ request' = Null /\ answer' = ok
  /\ pc' = "idle" /\ loop' = NoLoop

\* The call fails with one of these bands left behind; plan() then repeats a
\* warm start once, from a cold seed.
Fail(left) ==
  IF request.warm /\ ~request.retried
  THEN /\ request' = [request EXCEPT !.retried = TRUE]
       /\ band' = request.cold
       /\ pc' = AfterSeed /\ loop' = NoLoop
       /\ UNCHANGED answer
  ELSE Answer(FALSE) /\ band' \in left

Optimize ==
  /\ pc = "optimize"
  /\ IF cfg.activate
     THEN /\ requested' = [x |-> BackPose(band).x, yaw |-> BackPose(band).yaw]
          /\ pc' = "iterate"
          /\ UNCHANGED <<band, loop, request, answer>>
     ELSE Fail({band}) /\ UNCHANGED requested
  /\ UNCHANGED <<cfg, graph, turn, expired, cost>>

\* The head of the outer loop.
Iterate ==
  /\ pc = "iterate"
  /\ IF loop.iteration < cfg.outer
     THEN /\ pc' = IF cfg.autosize /\ ~cfg.differential THEN "resize" ELSE "build"
          /\ UNCHANGED <<loop, request, answer>>
     ELSE Answer(TRUE)
  /\ UNCHANGED <<cfg, band, graph, requested, turn, expired, cost>>

\* autoResize(): one interval, or the end of a repetition.
Resize ==
  /\ pc = "resize"
  /\ IF loop.at < SizeTimeDiffs(band)
     THEN LET step == ResizeStep(band, loop.at, cfg) IN
          /\ band' = step.band
          /\ loop' = [loop EXCEPT !.at = step.next,
                                  !.modified = @ \/ step.modified]
          /\ UNCHANGED pc
     ELSE /\ UNCHANGED band
          /\ IF loop.modified /\ loop.rep + 1 < 100 /\ cfg.dynamic
             THEN loop' = [loop EXCEPT !.at = 0, !.rep = @ + 1, !.modified = FALSE]
                  /\ UNCHANGED pc
             ELSE loop' = [NoLoop EXCEPT !.iteration = loop.iteration] /\ pc' = "build"
  /\ UNCHANGED <<cfg, graph, requested, turn, expired, request, answer, cost>>

\* buildGraph(), which refuses an optimizer that is not empty.
Build ==
  /\ pc = "build"
  /\ IF graph = EmptyGraph
     THEN /\ graph' = BuildGraph(band, cfg)
          /\ pc' = "prepare"
          /\ UNCHANGED <<band, loop, request, answer>>
     ELSE graph' = EmptyGraph /\ Fail({band})
  /\ UNCHANGED <<cfg, requested, turn, expired, cost>>

\* The checks before the solver runs: a band too small is refused.
PrepareSolve ==
  /\ pc = "prepare"
  /\ LET refused == IF cfg.differential THEN SizeTimeDiffs(band) < 1
                    ELSE ~IsInit(band) \/ SizePoses(band) < cfg.minSamples
     IN IF refused
        THEN graph' = EmptyGraph /\ Fail({band}) /\ UNCHANGED turn
        ELSE /\ pc' = "solve" /\ turn' = AbsoluteTurn(band)
             /\ UNCHANGED <<band, graph, loop, request, answer>>
  /\ UNCHANGED <<cfg, requested, expired, cost>>

Moved(b, i, x, yaw) == [b EXCEPT !.poses[i + 1].x = x, !.poses[i + 1].yaw = yaw]

\* g2o: a vertex that is not fixed takes another value.
MoveVertex ==
  /\ pc = "solve" /\ ~cfg.differential
  /\ \/ \E i \in 0 .. SizePoses(band) - 1, x \in Positions :
          ~Pose(band, i).fixed /\ band' = Moved(band, i, x, Pose(band, i).yaw)
     \/ \E i \in 0 .. SizeTimeDiffs(band) - 1, dt \in Durations :
          band' = SetTimeDiff(band, i, dt)
  /\ UNCHANGED <<cfg, graph, pc, loop, requested, turn, expired, request, answer, cost>>

\* nlopt: a better feasible candidate of the same winding class is found in
\* the time that remains.
MoveControl ==
  /\ pc = "solve" /\ cfg.differential /\ ~expired
  /\ \E i \in 1 .. SizePoses(band) - 2, x \in Positions, angle \in {-Quarter, 0, Quarter} :
       LET candidate == Rollout(Moved(band, i, x, Pose(band, i - 1).yaw + angle)) IN
       /\ Feasible(candidate, requested) /\ AbsoluteTurn(candidate) <= turn
       /\ band' = candidate
  /\ UNCHANGED <<cfg, graph, pc, loop, requested, turn, expired, request, answer, cost>>

\* steady_clock reaches the deadline, at any time; nlopt alone reads it.
Expire ==
  /\ cfg.differential /\ ~expired /\ pc # "idle"
  /\ expired' = TRUE
  /\ UNCHANGED <<cfg, band, graph, pc, loop, requested, turn, request, answer, cost>>

Computes == Homotopy /\ loop.iteration = cfg.outer - 1

\* Mutant: the graph is kept for the next iteration.
SolvedMutKeepGraph ==
  /\ pc = "solve"
  /\ cfg.differential => Feasible(band, requested)
  /\ band' = IF cfg.differential THEN Rollout(band) ELSE band
  /\ graph' = IF loop.iteration = cfg.outer - 1 THEN EmptyGraph ELSE graph
  /\ cost' = IF Computes THEN "current" ELSE cost
  /\ IF cfg.differential /\ expired
     THEN Answer(TRUE)
     ELSE /\ loop' = [loop EXCEPT !.iteration = @ + 1]
          /\ pc' = "iterate"
          /\ UNCHANGED <<request, answer>>
  /\ UNCHANGED <<cfg, requested, turn, expired>>

\* A solve that succeeds: the cost in the last iteration, the graph cleared,
\* and for a differential robot no further iteration after the deadline.
Solved ==
  /\ pc = "solve"
  /\ cfg.differential => Feasible(band, requested)
  /\ band' = IF cfg.differential THEN Rollout(band) ELSE band
  /\ graph' = EmptyGraph
  /\ cost' = IF Computes THEN "current" ELSE cost
  /\ IF cfg.differential /\ expired
     THEN Answer(TRUE)
     ELSE /\ loop' = [loop EXCEPT !.iteration = @ + 1]
          /\ pc' = "iterate"
          /\ UNCHANGED <<request, answer>>
  /\ UNCHANGED <<cfg, requested, turn, expired>>

\* A solve that fails: g2o makes no iteration, or no candidate and not even
\* the seed is feasible and the band is left where the last one ended.
Unsolved ==
  /\ pc = "solve"
  /\ cfg.differential => ~Feasible(band, requested)
  /\ graph' = EmptyGraph
  /\ Fail(IF cfg.differential
          THEN {Moved(band, SizePoses(band) - 1, x, BackPose(band).yaw) : x \in Positions}
          ELSE {band})
  /\ UNCHANGED <<cfg, requested, turn, expired, cost>>

-----------------------------------------------------------------------------
(* getVelocityCommand() of a differential robot *)

Sense(a) == IF a > 0 THEN 1 ELSE IF a < 0 THEN -1 ELSE 0
SurgeSense(b, i) == Sense(Surge(Pose(b, i), Pose(b, i + 1)))
TurnSense(b, i) == Sense(TurnBetween(Pose(b, i), Pose(b, i + 1)))

\* Primitive i may be previewed together with all those before it.
Continues(b, i) ==
  \A j \in 0 .. i - 1 :
    /\ SurgeSense(b, j) # 0 => SurgeSense(b, i) = SurgeSense(b, j)
    /\ TurnSense(b, j) # 0 /\ TurnSense(b, i) # 0 => TurnSense(b, i) = TurnSense(b, j)

\* The primitives whose controls the command is the average of.
Previewed(b) ==
  LET poses == Larger(1, SizePoses(b) - 1 - cfg.preventLookAhead)
      time == cfg.dtRef * Larger(1, cfg.lookAhead)
      elapsed(i) == SumOfAllTimeDiffs(DeleteTimeDiffs(b, i, SizeTimeDiffs(b) - i))
  IN {i \in 0 .. poses - 1 : \A k \in 0 .. i : Continues(b, k) /\ elapsed(k) < time}

\* The senses of the surges and turns in the average.
Command(b) ==
  [surge |-> {SurgeSense(b, i) : i \in Previewed(b)} \ {0},
   turn |-> {TurnSense(b, i) : i \in Previewed(b)} \ {0}]

ClearPlanner ==
  /\ pc = "idle"
  /\ band' = ClearTimedElasticBand(band) /\ graph' = EmptyGraph /\ answer' = FALSE
  /\ UNCHANGED <<cfg, pc, loop, requested, turn, expired, request, cost>>

-----------------------------------------------------------------------------
Init ==
  /\ cfg \in Configs
  /\ band = EmptyBand /\ graph = EmptyGraph
  /\ pc = "idle" /\ loop = NoLoop
  /\ requested = Null /\ turn = 0 /\ expired = TRUE
  /\ request = Null /\ answer = FALSE /\ cost = "none"

Call ==
  \E plan \in cfg.plans : Plan(plan) \/ OptimizeCandidate(plan)

Finish == Solved \/ Unsolved

Step ==
  \/ Subdivide \/ Optimize \/ Iterate \/ Resize \/ Build \/ PrepareSolve \/ Finish

Next == Call \/ ClearPlanner \/ Expire \/ Step \/ MoveVertex \/ MoveControl

\* The loops run on, and a solver that is running ends (it evaluates a bounded
\* number of times): WF_vars(Step), where ENABLED Step, which is pc # "idle",
\* is written out because TLC would compute it from every step's new band.
Fairness == []<>(pc = "idle") \/ []<><<Step>>_vars

Spec == Init /\ [][Next]_vars /\ Fairness

-----------------------------------------------------------------------------
(* Properties *)

\* n poses come with n - 1 time differences.
BandShape ==
  \/ band = EmptyBand
  \/ SizePoses(band) = SizeTimeDiffs(band) + 1 /\ SizePoses(band) >= 2

\* Every variable stays within its type, and a request is there during a call.
TypeOK ==
  /\ cfg \in Configs
  /\ band \in Bands
  /\ graph \in [poses : Nat, dts : Nat, edges : SUBSET EdgeRecords]
  /\ pc \in Labels
  /\ loop \in [at : Nat, rep : 0 .. 99, modified : BOOLEAN, iteration : Nat]
  /\ requested \in Samples \cup {Null}
  /\ turn \in Nat /\ expired \in BOOLEAN /\ answer \in BOOLEAN
  /\ IF pc = "idle" THEN request = Null ELSE request \in RequestRecords
  /\ cost \in {"none", "current", "stale"}

\* In every step of every loop n poses come with n - 1 time differences, and
\* while the optimizer holds vertices they are the ones of the band, no edge
\* refers to one that does not exist, and nothing is held between calls: no
\* exit of optimizeTEB() leaves a graph behind that a later change of the
\* band would turn into dangling vertices.
GraphMatchesBand ==
  /\ BandShape
  /\ IF pc \in {"prepare", "solve"}
     THEN /\ graph.poses = SizePoses(band) /\ graph.dts = SizeTimeDiffs(band)
          /\ GraphClosed(graph)
     ELSE graph = EmptyGraph

\* A robot that surges and turns can always follow what plan() holds out to
\* it: an answer true means primitives within the velocity limits, headings
\* that never jump by a full turn, and a command that averages no controls
\* which cancel each other.
AnswerExecutable ==
  pc = "idle" /\ answer /\ cfg.differential =>
    /\ \A i \in 0 .. SizeTimeDiffs(band) - 1 :
         /\ Executable(Pose(band, i), Pose(band, i + 1))
         /\ TimeDiff(band, i) <= Quarter
         /\ Magnitude(Pose(band, i + 1).yaw - Pose(band, i).yaw) <= Quarter
    /\ Cardinality(Command(band).surge) <= 1 /\ Cardinality(Command(band).turn) <= 1

\* The seed is always feasible, so plan() of such a robot never fails while
\* optimization is on, whatever the old band, the deadline and the solver do.
SeedAlwaysFeasible ==
  [][pc # "idle" /\ pc' = "idle" /\ cfg.differential /\ ~Homotopy /\ cfg.activate
       => answer']_vars

\* Replanning to the same goal from where the old band begins turns the same
\* way by the same angle, also through the fallback to a cold seed.
TurnKept ==
  [][pc # "idle" /\ pc' = "idle" /\ answer' /\ cfg.differential /\ ~Homotopy
       /\ request.warm /\ request.oldTurn # Null
       /\ Normalize(request.goal.yaw - request.start.yaw) = Normalize(request.oldTurn)
       => BackPose(band').yaw - Pose(band', 0).yaw = request.oldTurn]_vars

Wrapped(p) == [x |-> p.x, yaw |-> Normalize(p.yaw)]

\* The trajectory and the requests, as the interface of every planner sees
\* them: an answer true connects the start to the goal of its own request,
\* and every call returns.
Interface == INSTANCE PlannerInterface WITH
  Places <- UNION {{Wrapped(plan[1]), Wrapped(Last(plan))} :
                     plan \in UNION {c.plans : c \in Configs}},
  asked <- IF request = Null THEN Null
           ELSE <<Wrapped(request.plan[1]), Wrapped(Last(request.plan))>>,
  trajectory <- IF pc = "idle" /\ answer
                THEN <<Wrapped(Pose(band, 0)), Wrapped(BackPose(band))>> ELSE Null

ImplementsInterface == Interface!InterfaceSpec

\* A cost that was asked for is the cost of the band that is returned
\* ("compute_cost_afterwards if true Calculate the cost vector").
CostIsOfThisBand ==
  pc = "idle" /\ answer /\ Homotopy => cost = "current"
=============================================================================
