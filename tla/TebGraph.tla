------------------------------ MODULE TebGraph ------------------------------
(***************************************************************************)
(* The optimization graph TebOptimalPlanner::buildGraph() hands to g2o:    *)
(* one vertex for every pose and time difference of the band, and one edge *)
(* per local cost term.  An edge is the set of poses and of time           *)
(* differences it connects, by index, and the obstacle or via-point it is  *)
(* about; its numerical residual is not modelled.                          *)
(*                                                                         *)
(* A configuration c is a record with the parameters that decide which     *)
(* edges exist; a weight that is zero leaves out the edges of its kind.    *)
(***************************************************************************)
EXTENDS TimedElasticBand, FiniteSets

CONSTANTS
  Obstacles,   \* obstacles_ in order: [x, gap, left, dynamic]
  ViaPoints    \* via_points_ in order: positions

ASSUME GraphAssumption ==
  /\ Obstacles \in Seq([x : Int, gap : Nat, left : BOOLEAN, dynamic : BOOLEAN])
  /\ ViaPoints \in Seq(Int)

Kinds ==
  {"obstacle", "dynamic", "ratio", "via", "station", "velocity", "acceleration start",
   "acceleration", "acceleration goal", "time", "path", "diff drive", "carlike", "rotation"}

EdgeRecords == [kind : Kinds, poses : SUBSET Int, dts : SUBSET Int, about : Nat]

EmptyGraph == [poses |-> 0, dts |-> 0, edges |-> {}]

Edge(kind, poses, dts, about) ==
  [kind |-> kind, poses |-> poses, dts |-> dts, about |-> about]

\* The poses and time differences by their position in the band.
AddTEBVertices(g, b) ==
  [g EXCEPT !.poses = SizePoses(b), !.dts = SizeTimeDiffs(b)]

-----------------------------------------------------------------------------
(* Obstacles *)

Distance(b, i, k) == Magnitude(Pose(b, i).x - Obstacles[k].x) + Obstacles[k].gap

\* The obstacle is to the left of the pose; obstacles are beside the line.
OnLeft(b, i, k) ==
  CASE Normalize(Pose(b, i).yaw) \in {-1, 0, 1} -> Obstacles[k].left
    [] Normalize(Pose(b, i).yaw) \in {-4, -3, 3} -> ~Obstacles[k].left
    [] Normalize(Pose(b, i).yaw) = 2 -> Obstacles[k].x < Pose(b, i).x
    [] Normalize(Pose(b, i).yaw) = -2 -> Obstacles[k].x > Pose(b, i).x

\* Obstacles that move are left to AddEdgesDynamicObstacles() when enabled.
StaticObstacles(c) ==
  {k \in DOMAIN Obstacles : ~(c.dynamic /\ Obstacles[k].dynamic)}

\* The first of the nearest obstacles of a set, as a set.
Nearest(b, i, candidates) ==
  {k \in candidates : \A l \in candidates :
     \/ Distance(b, i, k) < Distance(b, i, l)
     \/ Distance(b, i, k) = Distance(b, i, l) /\ k <= l}

\* obstacles_per_vertex_[i]: all that are very close, and of those within the
\* cutoff the nearest one on either side.
ObstaclesOfVertex(b, i, c) ==
  LET forced == {k \in StaticObstacles(c) : Distance(b, i, k) < c.inclusion}
      others == {k \in StaticObstacles(c) \ forced : Distance(b, i, k) <= c.cutoff}
      left == {k \in others : OnLeft(b, i, k)}
  IN forced \cup Nearest(b, i, left) \cup Nearest(b, i, others \ left)

AddEdgesObstacles(b, c) ==
  UNION {{Edge("obstacle", {i}, {}, k) : k \in ObstaclesOfVertex(b, i, c)} :
           i \in 1 .. SizePoses(b) - 2}

\* The pose closest to the obstacle and its neighbours, unless that is one of
\* the first two poses or the last one.
AddEdgesObstaclesLegacy(b, c) ==
  LET n == SizePoses(b)
      index(k) == IF c.posesAffected >= n THEN n \div 2
                  ELSE FindClosestTrajectoryPose(b, Obstacles[k].x, 0)
      near(k) == {i \in 0 .. n - 1 :
                    \/ i = index(k)
                    \/ Magnitude(i - index(k)) < c.posesAffected \div 2}
  IN UNION {{Edge("obstacle", {i}, {}, k) : i \in near(k)} :
              k \in {l \in StaticObstacles(c) : index(l) > 1 /\ index(l) <= n - 2}}

AddEdgesDynamicObstacles(b, c) ==
  UNION {{Edge("dynamic", {i}, {}, k) : k \in {l \in DOMAIN Obstacles : Obstacles[l].dynamic}} :
           i \in 1 .. SizePoses(b) - 2}

\* The speed limit near the obstacles each vertex was associated with; the
\* legacy association fills no list.
AddEdgesVelocityObstacleRatio(b, c) ==
  IF c.legacy THEN {}
  ELSE UNION {{Edge("ratio", {i, i + 1}, {i}, k) : k \in ObstaclesOfVertex(b, i, c)} :
                i \in 0 .. SizePoses(b) - 2}

-----------------------------------------------------------------------------
(* Via-points *)

\* One round of AddEdgesViaPoints(): the search of ordered via-points goes on
\* two poses behind the last one found, and starts anew past the end.
AddViaPoint(b, c, found, k) ==
  LET n == SizePoses(b)
      closest == FindClosestTrajectoryPose(b, ViaPoints[k], found.start)
      inner == Smaller(closest, n - 2)
      index == IF inner < 1 /\ c.ordered THEN 1 ELSE inner
  IN [start |-> IF c.ordered THEN closest + 2 ELSE found.start,
      edges |-> IF index < 1 THEN found.edges
                ELSE found.edges \cup {Edge("via", {index}, {}, k)}]

AddEdgesViaPoints(b, c) ==
  IF SizePoses(b) < 3 THEN {}
  ELSE LET found[k \in 0 .. Len(ViaPoints)] ==
             IF k = 0 THEN [start |-> 0, edges |-> {}] ELSE AddViaPoint(b, c, found[k - 1], k)
       IN found[Len(ViaPoints)].edges

-----------------------------------------------------------------------------
(* Terms over one, two or three neighbouring poses *)

Intervals(b) == 0 .. SizePoses(b) - 2

AddEdgesStationEnvelope(b) ==
  {Edge("station", {i}, {}, 0) :
     i \in {j \in 0 .. SizePoses(b) - 1 : ~Pose(b, j).fixed}}

AddEdgesVelocity(b) ==
  {Edge("velocity", {i, i + 1}, {i}, 0) : i \in Intervals(b)}

\* The start velocity is always given, the goal velocity unless it is free.
AddEdgesAcceleration(b, c) ==
  LET n == SizePoses(b) IN
  {Edge("acceleration start", {0, 1}, {0}, 0)}
    \cup {Edge("acceleration", {i, i + 1, i + 2}, {i, i + 1}, 0) : i \in 0 .. n - 3}
    \cup IF c.freeGoal THEN {}
         ELSE {Edge("acceleration goal", {n - 2, n - 1}, {SizeTimeDiffs(b) - 1}, 0)}

AddEdgesTimeOptimal(b) ==
  {Edge("time", {}, {i}, 0) : i \in 0 .. SizeTimeDiffs(b) - 1}

AddEdgesShortestPath(b) ==
  {Edge("path", {i, i + 1}, {}, 0) : i \in Intervals(b)}

AddEdgesKinematicsDiffDrive(b) ==
  {Edge("diff drive", {i, i + 1}, {i}, 0) : i \in Intervals(b)}

AddEdgesKinematicsCarlike(b) ==
  {Edge("carlike", {i, i + 1}, {}, 0) : i \in Intervals(b)}

\* Only the first three rotations take a preferred direction.
AddEdgesPreferRotDir(b) ==
  {Edge("rotation", {i, i + 1}, {}, 0) : i \in {j \in Intervals(b) : j < 3}}

-----------------------------------------------------------------------------
\* buildGraph() of an empty optimizer.
BuildGraph(b, c) ==
  [AddTEBVertices(EmptyGraph, b) EXCEPT !.edges =
     (IF c.legacy THEN AddEdgesObstaclesLegacy(b, c) ELSE AddEdgesObstacles(b, c))
     \cup (IF c.dynamic THEN AddEdgesDynamicObstacles(b, c) ELSE {})
     \cup AddEdgesViaPoints(b, c)
     \cup (IF c.station THEN AddEdgesStationEnvelope(b) ELSE {})
     \cup AddEdgesVelocity(b)
     \cup AddEdgesAcceleration(b, c)
     \cup AddEdgesTimeOptimal(b)
     \cup AddEdgesShortestPath(b)
     \cup (IF c.carlike THEN AddEdgesKinematicsCarlike(b)
                        ELSE AddEdgesKinematicsDiffDrive(b))
     \cup (IF c.rotdir THEN AddEdgesPreferRotDir(b) ELSE {})
     \cup (IF c.ratio THEN AddEdgesVelocityObstacleRatio(b, c) ELSE {})]

\* Every edge of a graph connects vertices it has.
GraphClosed(g) ==
  \A e \in g.edges : /\ e.poses \subseteq 0 .. g.poses - 1
                     /\ e.dts \subseteq 0 .. g.dts - 1
=============================================================================
