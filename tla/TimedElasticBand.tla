-------------------------- MODULE TimedElasticBand --------------------------
(***************************************************************************)
(* The trajectory container of timed_elastic_band.{h,hpp,cpp}: a sequence  *)
(* of poses and the time differences between neighbouring ones, with the   *)
(* operations that create, resize, shift and search it.                    *)
(*                                                                         *)
(* The robot moves on a line.  A position is a number of ticks, a heading  *)
(* a number of eighths of a turn that is not wrapped: 0 looks along the    *)
(* line, 4 and -4 against it, 8 is a full turn more.  Velocity limits are  *)
(* one tick of position or heading per tick of time.  Poses and intervals  *)
(* are numbered from 0 as in the code.                                     *)
(***************************************************************************)
EXTENDS Integers, Sequences, SequencesExt

FullTurn == 8
Quarter == 2

\* g2o::normalize_theta(): the representative in [-FullTurn/2, FullTurn/2).
Normalize(a) == ((a + FullTurn \div 2) % FullTurn) - FullTurn \div 2

Magnitude(a) == IF a < 0 THEN -a ELSE a
Larger(a, b) == IF a > b THEN a ELSE b
Smaller(a, b) == IF a < b THEN a ELSE b

\* The sense in which a robot with this heading moves along the line.
Along(yaw) ==
  CASE Normalize(yaw) \in {-1, 0, 1} -> 1
    [] Normalize(yaw) \in {-4, -3, 3} -> -1
    [] OTHER -> 0

PoseAt(x, yaw) == [x |-> x, yaw |-> yaw, fixed |-> FALSE]

\* PoseSE2::average().
Average(p, q) ==
  PoseAt((p.x + q.x) \div 2, p.yaw + Normalize(q.yaw - p.yaw) \div 2)

\* estimateDeltaT() of two poses; 1 stands for the 0.1 s of a null motion.
EstimateDeltaT(p, q) ==
  Larger(1, Larger(Magnitude(q.x - p.x), Magnitude(Normalize(q.yaw - p.yaw))))

-----------------------------------------------------------------------------
(* The container *)

EmptyBand == [poses |-> <<>>, dts |-> <<>>]

SizePoses(b) == Len(b.poses)
SizeTimeDiffs(b) == Len(b.dts)
Pose(b, i) == b.poses[i + 1]
TimeDiff(b, i) == b.dts[i + 1]
BackPose(b) == b.poses[Len(b.poses)]
IsInit(b) == b.poses # <<>> /\ b.dts # <<>>

AddPose(b, p) == [b EXCEPT !.poses = Append(@, p)]

\* Refused when there is no pose yet that the time difference could follow.
AddPoseAndTimeDiff(b, p, dt) ==
  IF SizePoses(b) = SizeTimeDiffs(b) THEN b
  ELSE [poses |-> Append(b.poses, p), dts |-> Append(b.dts, dt)]

SetPoseVertexFixed(b, i, status) == [b EXCEPT !.poses[i + 1].fixed = status]
SetTimeDiff(b, i, dt) == [b EXCEPT !.dts[i + 1] = dt]

InsertPose(b, i, p) == [b EXCEPT !.poses = InsertAt(@, i + 1, p)]
InsertTimeDiff(b, i, dt) == [b EXCEPT !.dts = InsertAt(@, i + 1, dt)]
DeletePose(b, i) == [b EXCEPT !.poses = RemoveAt(@, i + 1)]
DeleteTimeDiff(b, i) == [b EXCEPT !.dts = RemoveAt(@, i + 1)]
DeletePoses(b, i, number) ==
  [b EXCEPT !.poses = SubSeq(@, 1, i) \o SubSeq(@, i + number + 1, Len(@))]
DeleteTimeDiffs(b, i, number) ==
  [b EXCEPT !.dts = SubSeq(@, 1, i) \o SubSeq(@, i + number + 1, Len(@))]

ClearTimedElasticBand(b) == [b EXCEPT !.poses = <<>>, !.dts = <<>>]

\* getSumOfAllTimeDiffs().
SumOfAllTimeDiffs(b) ==
  LET sum[k \in 0 .. Len(b.dts)] == IF k = 0 THEN 0 ELSE sum[k - 1] + b.dts[k]
  IN sum[Len(b.dts)]

\* findClosestTrajectoryPose() of a point from begin on: the first of the
\* nearest poses, -1 when begin is past the end.
FindClosestTrajectoryPose(b, x, begin) ==
  LET distance(i) == Magnitude(x - Pose(b, i).x)
      candidates == {i \in begin .. SizePoses(b) - 1 :
                       \A j \in begin .. SizePoses(b) - 1 :
                         distance(i) <= distance(j)}
  IN IF begin < 0 \/ begin >= SizePoses(b) THEN -1
     ELSE CHOOSE i \in candidates : \A j \in candidates : i <= j

-----------------------------------------------------------------------------
(* autoResize() *)

Split(b, i) ==
  LET half == TimeDiff(b, i) \div 2
      rest == TimeDiff(b, i) - half
      middle == Average(Pose(b, i), Pose(b, i + 1))
  IN InsertTimeDiff(InsertPose(SetTimeDiff(b, i, half), i + 1, middle), i + 1, rest)

\* An interval that is too long but not for two: the excess goes to the next
\* one, and is lost at the end of the band.
ShiftExcess(b, i, dtRef) ==
  LET shifted == IF i < SizeTimeDiffs(b) - 1
                 THEN SetTimeDiff(b, i + 1, TimeDiff(b, i + 1) + TimeDiff(b, i) - dtRef)
                 ELSE b
  IN SetTimeDiff(shifted, i, dtRef)

MergeIntoNext(b, i) ==
  DeletePose(DeleteTimeDiff(
    SetTimeDiff(b, i + 1, TimeDiff(b, i + 1) + TimeDiff(b, i)), i), i + 1)

\* Mutant: the time difference is deleted, its pose is not.
MergeIntoPreviousMutKeepPose(b, i) ==
  DeleteTimeDiff(SetTimeDiff(b, i - 1, TimeDiff(b, i - 1) + TimeDiff(b, i)), i)

MergeIntoPrevious(b, i) ==
  DeletePose(DeleteTimeDiff(
    SetTimeDiff(b, i - 1, TimeDiff(b, i - 1) + TimeDiff(b, i)), i), i)

\* One round of the inner loop at interval i: the band, the interval looked
\* at next, and whether samples were added or removed.
ResizeStep(b, i, c) ==
  LET dt == TimeDiff(b, i)
      long == dt > c.dtRef + c.hysteresis /\ SizeTimeDiffs(b) < c.maxSamples
      short == dt < c.dtRef - c.hysteresis /\ SizeTimeDiffs(b) > c.minSamples
  IN CASE long /\ dt > 2 * c.dtRef ->
            [band |-> Split(b, i), next |-> i, modified |-> TRUE]
       [] long /\ dt <= 2 * c.dtRef ->
            [band |-> ShiftExcess(b, i, c.dtRef), next |-> i + 1, modified |-> FALSE]
       [] ~long /\ short /\ i < SizeTimeDiffs(b) - 1 ->
            [band |-> MergeIntoNext(b, i), next |-> i, modified |-> TRUE]
       [] ~long /\ short /\ i = SizeTimeDiffs(b) - 1 ->
            [band |-> MergeIntoPrevious(b, i), next |-> i + 1, modified |-> TRUE]
       [] OTHER -> [band |-> b, next |-> i + 1, modified |-> FALSE]

-----------------------------------------------------------------------------
(* initTrajectoryToGoal() *)

\* The start, fixed; and the goal, fixed, behind the poses added in between.
Begun(x, yaw) == SetPoseVertexFixed(AddPose(EmptyBand, PoseAt(x, yaw)), 0, TRUE)

Closed(b, goal, dt) ==
  LET closed == AddPoseAndTimeDiff(b, goal, dt)
  IN SetPoseVertexFixed(closed, SizePoses(closed) - 1, TRUE)

AddSample(b, p) ==
  AddPoseAndTimeDiff(b, PoseAt(p.x, Normalize(p.yaw)), EstimateDeltaT(BackPose(b), p))

\* The interior samples of a plan.
AddSamples(b, plan) ==
  LET interior == Larger(0, Len(plan) - 2)
      added[k \in 0 .. interior] ==
        IF k = 0 THEN b ELSE AddSample(added[k - 1], plan[k + 1])
  IN added[interior]

AddMidpoint(b, goal) ==
  LET middle == Average(BackPose(b), goal)
  IN AddPoseAndTimeDiff(b, middle, EstimateDeltaT(BackPose(b), middle))

\* Midpoints towards the goal until it makes minSamples - 1 poses.
FillSamples(b, goal, minSamples) ==
  LET missing == Larger(0, minSamples - 1 - SizePoses(b))
      filled[k \in 0 .. missing] ==
        IF k = 0 THEN b ELSE AddMidpoint(filled[k - 1], goal)
  IN filled[missing]

\* The band over a plan: start and goal fixed, one pose per interior sample.
InitTrajectoryToGoal(plan, minSamples) ==
  LET start == plan[1]
      goal == PoseAt(Last(plan).x, start.yaw + Normalize(Last(plan).yaw - start.yaw))
      filled == FillSamples(AddSamples(Begun(start.x, start.yaw), plan), goal, minSamples)
  IN Closed(filled, goal, EstimateDeltaT(BackPose(filled), goal))

Turned(yaw, backwards) == IF backwards THEN Normalize(yaw + FullTurn \div 2) ELSE yaw

\* The plan with estimated orientations: each interior sample looks towards
\* the next one, or away from it when the goal is behind the start.
EstimateOrientations(plan, guessBackwards) ==
  LET towards == (Last(plan).x - plan[1].x) * Along(plan[1].yaw)
      backwards == guessBackwards /\ towards < 0
      heading(i) == IF plan[i + 1].x < plan[i].x THEN -(FullTurn \div 2) ELSE 0
      estimated(i) == [x |-> plan[i].x, yaw |-> Turned(heading(i), backwards)]
  IN [i \in DOMAIN plan |-> IF i \in {1, Len(plan)} THEN plan[i] ELSE estimated(i)]

\* The time a step of this length takes at the velocity limit and at the
\* acceleration limit, one tick per squared tick; none for a null step.
StepTime(length) ==
  CHOOSE t \in 0 .. 2 * length :
    /\ t >= length /\ t * t >= 2 * length
    /\ \A u \in 0 .. t - 1 : u < length \/ u * u < 2 * length

\* A position of the path, with the heading of the step that leads to it.
AddPosition(b, x, backwards) ==
  LET dx == x - BackPose(b).x
      heading == IF dx < 0 THEN -(FullTurn \div 2) ELSE 0
  IN AddPoseAndTimeDiff(b, PoseAt(x, Turned(heading, backwards)),
                        Larger(1, StepTime(Magnitude(dx))))

AddPositions(b, path, backwards) ==
  LET interior == Larger(0, Len(path) - 2)
      added[k \in 0 .. interior] ==
        IF k = 0 THEN b ELSE AddPosition(added[k - 1], path[k + 1], backwards)
  IN added[interior]

\* Every point inserted bisects the remaining distance and its time.
Bisect(b, goal, time, minSamples) ==
  LET missing == Larger(0, minSamples - 1 - SizePoses(b))
      half(t) == (t + 1) \div 2
      bisected[k \in 0 .. missing] ==
        IF k = 0 THEN [band |-> b, time |-> time]
        ELSE LET inner == bisected[k - 1]
             IN [band |-> AddPoseAndTimeDiff(inner.band, Average(BackPose(inner.band), goal),
                                             half(inner.time)),
                 time |-> half(inner.time)]
  IN bisected[missing]

\* The band over the positions of a path of the exploration: headings along
\* the path, or against it when the goal is behind the start.
InitTrajectoryToGoalPath(path, startYaw, goalYaw, minSamples, guessBackwards) ==
  LET towards == (Last(path) - path[1]) * Along(startYaw)
      backwards == guessBackwards /\ towards < 0
      goal == PoseAt(Last(path), goalYaw)
      interior == AddPositions(Begun(path[1], startYaw), path, backwards)
      rest == StepTime(Magnitude(Last(path) - BackPose(interior).x))
      filled == Bisect(interior, goal, rest, minSamples)
  IN Closed(filled.band, goal, filled.time)

\* The straight band between two poses, without steps of a given length;
\* only the distance counts for the times.
TravelTime(p, q) == Larger(1, Magnitude(q.x - p.x))

AddStraightMidpoint(b, goal) ==
  LET middle == Average(BackPose(b), goal)
  IN AddPoseAndTimeDiff(b, middle, TravelTime(BackPose(b), middle))

InitTrajectoryToGoalStraight(start, goal, minSamples) ==
  LET target == PoseAt(goal.x, goal.yaw)
      missing == Larger(0, minSamples - 2)
      filled[k \in 0 .. missing] ==
        IF k = 0 THEN Begun(start.x, start.yaw) ELSE AddStraightMidpoint(filled[k - 1], target)
  IN Closed(filled[missing], target, TravelTime(BackPose(filled[missing]), target))

-----------------------------------------------------------------------------
(* initTrajectoryToGoal(), the pivot seed *)

\* Sample i continues the straight line from the last sample kept.
Straight(guide, plan, i) ==
  LET a == plan[i].x - Last(guide).x
      b == plan[i + 1].x - plan[i].x
  IN a # 0 /\ b # 0 /\ (a > 0 <=> b > 0)

\* Interior samples of a straight continuation are dropped from the guide.
Guide(plan) ==
  LET interior == Larger(0, Len(plan) - 2)
      kept[k \in 0 .. interior] ==
        IF k = 0 THEN <<plan[1]>>
        ELSE IF Straight(kept[k - 1], plan, k + 1) THEN kept[k - 1]
             ELSE Append(kept[k - 1], plan[k + 1])
  IN Append(kept[interior], Last(plan))

\* appendTurnTo(): a turn on the spot in equal pieces of at most a quarter.
AppendTurn(seed, turn) ==
  LET pieces == (Magnitude(turn) + Quarter - 1) \div Quarter
      last == Last(seed)
  IN seed \o [j \in 1 .. pieces |-> PoseAt(last.x, last.yaw + (turn * j) \div pieces)]

\* The heading of a surge by dx: along the line, or backwards when that is
\* allowed and the robot looks away.
TravelHeading(yaw, dx, backwards) ==
  LET forward == IF dx > 0 THEN 0 ELSE FullTurn \div 2
      behind == Normalize(yaw - forward) \notin -Quarter .. Quarter
  IN IF backwards /\ behind THEN forward + FullTurn \div 2 ELSE forward

\* Pivot and surge to a sample.
SurgeTo(seed, x, backwards) ==
  LET from == Last(seed)
      dx == x - from.x
      aligned == AppendTurn(seed, Normalize(TravelHeading(from.yaw, dx, backwards) - from.yaw))
  IN IF dx = 0 THEN seed ELSE Append(aligned, PoseAt(x, Last(aligned).yaw))

\* One leg of the seed.  Interior samples are turned to only on the spot; the
\* terminal turn keeps the angular branch the caller names with terminalYaw,
\* when it does.
AddLeg(seed, guide, i, backwards, keepBranch, terminalYaw) ==
  LET moved == SurgeTo(seed, guide[i].x, backwards)
      turn == IF i = Len(guide) /\ keepBranch
              THEN terminalYaw - Last(moved).yaw
              ELSE Normalize(guide[i].yaw - Last(moved).yaw)
  IN IF i = Len(guide) \/ guide[i].x = Last(seed).x THEN AppendTurn(moved, turn) ELSE moved

\* The pivot, surge, pivot seed of a differential robot.
PivotSeed(plan, backwards, keepBranch, terminalYaw) ==
  LET guide == Guide(plan)
      seed[k \in 0 .. Len(guide) - 1] ==
        IF k = 0 THEN <<guide[1]>>
        ELSE AddLeg(seed[k - 1], guide, k + 1, backwards, keepBranch, terminalYaw)
  IN seed[Len(guide) - 1]

-----------------------------------------------------------------------------
(* updateAndPruneTEB() *)

\* How far pose i is from the new start: position alone, or position and
\* heading for a robot with both velocity limits given (squared).
StartDistance(b, i, start, timed) ==
  LET dx == start.x - Pose(b, i).x
      turn == Normalize(start.yaw - Pose(b, i).yaw)
  IN IF timed THEN dx * dx + turn * turn ELSE dx * dx

\* The nearest pose among those the distance decreases towards.
NearestAhead(b, start, minSamples, timed) ==
  LET lookahead == Smaller(SizePoses(b) - (IF timed THEN 2 ELSE minSamples), 10)
      descending == {k \in 1 .. lookahead :
                       \A i \in 1 .. k : StartDistance(b, i, start, timed)
                                           <= StartDistance(b, i - 1, start, timed)}
  IN IF descending = {} THEN 0
     ELSE CHOOSE k \in descending : \A i \in descending : i <= k

\* Mutant: the goal of the old request stays.
UpdateAndPruneTEBMutOldGoal(b, start, goal, minSamples, timed) ==
  LET k == NearestAhead(b, start, minSamples, timed)
      pruned == IF k > 0 THEN DeleteTimeDiffs(DeletePoses(b, 1, k), 0, k) ELSE b
  IN [pruned EXCEPT !.poses[1].x = start.x, !.poses[1].yaw = start.yaw]

UpdateAndPruneTEB(b, start, goal, minSamples, timed) ==
  LET k == NearestAhead(b, start, minSamples, timed)
      pruned == IF k > 0 THEN DeleteTimeDiffs(DeletePoses(b, 1, k), 0, k) ELSE b
      n == SizePoses(pruned)
  IN [pruned EXCEPT !.poses[1].x = start.x, !.poses[1].yaw = start.yaw,
                    !.poses[n].x = goal.x, !.poses[n].yaw = goal.yaw]
=============================================================================
