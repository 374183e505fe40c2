------------------------------ MODULE Obstacles ------------------------------
(***************************************************************************)
(* The obstacles of obstacles.{h,cpp}, and how teb_local_planner_ros.cpp   *)
(* makes them in every control cycle: from the cells of the costmap or the *)
(* polygons of a costmap converter, and from the message on the custom     *)
(* obstacles topic.                                                        *)
(*                                                                         *)
(* An obstacle has a kind, its vertices (at), a radius and a velocity, and *)
(* is dynamic when one was set.  A message about an obstacle has points, a *)
(* radius and a velocity.  A costmap has a size, the position of its first *)
(* cell, and two sets of cells; a cell is a pair of indices from 0.        *)
(***************************************************************************)
EXTENDS Distances, SequencesExt

MakeObstacle(kind, at, radius) ==
  [kind |-> kind, at |-> at, radius |-> radius, velocity |-> <<0, 0>>, dynamic |-> FALSE]

\* finalizePolygon(): a last vertex that repeats the first is dropped.
FixPolygonClosure(vertices) ==
  IF Len(vertices) >= 2 /\ Head(vertices) = Last(vertices) THEN Front(vertices)
  ELSE vertices

\* The vertex after the k-th, and how the edge to it turns around the origin.
After(v, k) == v[(k % Len(v)) + 1]
Turn(v, k) == Cross(v[k], After(v, k))

\* Twice the signed area.
Area(v) ==
  LET sum[k \in 0 .. Len(v)] == IF k = 0 THEN 0 ELSE sum[k - 1] + Turn(v, k)
  IN sum[Len(v)]

\* Three times the centroid, times the area.
Moment(v) ==
  LET sum[k \in 0 .. Len(v)] ==
        IF k = 0 THEN <<0, 0>>
        ELSE Plus(sum[k - 1], Times(Turn(v, k), Plus(v[k], After(v, k))))
  IN sum[Len(v)]

\* The first of the pairs of vertices that are farthest apart, in the order of
\* two nested loops.
Farthest(v) ==
  LET length(e) == SquaredNorm(Minus(v[e[2]], v[e[1]]))
      far[k \in 0 .. Len(v) * Len(v)] ==
        IF k = 0 THEN <<1, 1>>
        ELSE LET best == far[k - 1]
                 e == <<((k - 1) \div Len(v)) + 1, ((k - 1) % Len(v)) + 1>>
             IN IF e[1] < e[2] /\ length(best) < length(e) THEN e ELSE best
  IN far[Len(v) * Len(v)]

Halfway(p, q) == <<(p[1] + q[1]) \div 2, (p[2] + q[2]) \div 2>>

\* Rounded down.
Quotient(a, b) == IF b < 0 THEN (-a) \div (-b) ELSE a \div b

\* calcCentroid(), rounded down: of the area, or halfway between the two
\* vertices farthest apart when there is none.
Centroid(o) ==
  LET v == o.at
      pair == Farthest(v)
  IN CASE Len(v) = 1 -> v[1]
       [] Len(v) = 2 -> Halfway(v[1], v[2])
       [] Len(v) > 2 /\ Area(v) # 0 ->
            <<Quotient(Moment(v)[1], 3 * Area(v)), Quotient(Moment(v)[2], 3 * Area(v))>>
       [] OTHER -> Halfway(v[pair[1]], v[pair[2]])

-----------------------------------------------------------------------------
(* getMinimumDistance() to a figure, squared, and checkLineIntersection() of *)
(* the segment from p to q with half of halves as the distance asked for     *)

PointDistance(o, figure) == PointToFigure(o.at[1], figure)

\* Before the radius is taken off.
CircleDistance(o, figure) == PointToFigure(o.at[1], figure)

LineDistance(o, figure) == SegmentToFigure(o.at[1], o.at[2], figure)

PolygonDistance(o, figure) == FigureToFigure(figure, o.at)

MinimumDistance(o, figure) ==
  CASE o.kind = "point" -> PointDistance(o, figure)
    [] o.kind = "circle" -> CircleDistance(o, figure)
    [] o.kind = "line" -> LineDistance(o, figure)
    [] o.kind = "polygon" -> PolygonDistance(o, figure)

\* The nearest point of a segment without length is not a number.
PointInTheWay(o, p, q, halves) ==
  p # q /\ Below(PointToSegment(o.at[1], p, q), <<halves * halves, 4>>)

CircleInTheWay(o, p, q, halves) ==
  LET reach == 2 * o.radius + halves
  IN p # q /\ Below(PointToSegment(o.at[1], p, q), <<reach * reach, 4>>)

\* Lines and polygons are crossed or not: the distance is ignored.
LineCrossed(o, p, q) == SegmentsIntersect(p, q, o.at[1], o.at[2])

PolygonCrossed(o, p, q) == \E e \in Edges(o.at) : SegmentsIntersect(p, q, e[1], e[2])

CheckLineIntersection(o, p, q, halves) ==
  CASE o.kind = "point" -> PointInTheWay(o, p, q, halves)
    [] o.kind = "circle" -> CircleInTheWay(o, p, q, halves)
    [] o.kind = "line" -> LineCrossed(o, p, q)
    [] o.kind = "polygon" -> PolygonCrossed(o, p, q)

\* transformToWorld() of a footprint, for a heading along an axis: the unit
\* vector direction.
TransformToWorld(footprint, position, direction) ==
  [i \in DOMAIN footprint |->
     Plus(position, <<direction[1] * footprint[i][1] - direction[2] * footprint[i][2],
                      direction[2] * footprint[i][1] + direction[1] * footprint[i][2]>>)]

\* calculateDistance() of a footprint: a point, a line or a polygon.
CalculateDistance(footprint, position, direction, o) ==
  MinimumDistance(o, TransformToWorld(footprint, position, direction))

-----------------------------------------------------------------------------
(* getMinimumSpatioTemporalDistance(): the same at a later time t, for an *)
(* obstacle that goes on with its velocity                                 *)

PointDistanceAt(o, figure, t) ==
  PointToFigure(Plus(o.at[1], Times(t, o.velocity)), figure)

\* Before the radius is taken off.
CircleDistanceAt(o, figure, t) ==
  PointToFigure(Plus(o.at[1], Times(t, o.velocity)), figure)

LineDistanceAt(o, figure, t) ==
  LET offset == Times(t, o.velocity)
  IN SegmentToFigure(Plus(o.at[1], offset), Plus(o.at[2], offset), figure)

PredictVertices(o, t) ==
  [i \in DOMAIN o.at |-> Plus(o.at[i], Times(t, o.velocity))]

PolygonDistanceAt(o, figure, t) == FigureToFigure(figure, PredictVertices(o, t))

\* estimateSpatioTemporalDistance() of a footprint.
EstimateSpatioTemporalDistance(footprint, position, direction, o, t) ==
  LET world == TransformToWorld(footprint, position, direction) IN
  CASE o.kind = "point" -> PointDistanceAt(o, world, t)
    [] o.kind = "circle" -> CircleDistanceAt(o, world, t)
    [] o.kind = "line" -> LineDistanceAt(o, world, t)
    [] o.kind = "polygon" -> PolygonDistanceAt(o, world, t)

-----------------------------------------------------------------------------
(* updateObstacleContainerWithCostmap() *)

CellsOf(costmap) == (0 .. costmap.size[1] - 1) \X (0 .. costmap.size[2] - 1)

\* An unknown cell next to one that is known.
UnknownBoundary(costmap, cell) ==
  /\ cell \in costmap.unknown
  /\ \E c \in CellsOf(costmap) \ costmap.unknown :
       /\ c[1] - cell[1] \in -1 .. 1 /\ c[2] - cell[2] \in -1 .. 1

\* Not far behind a robot that looks towards heading.
Interesting(position, heading, behind) ==
  Dot(position, heading) >= 0 \/ SquaredNorm(position) <= behind * behind

\* A cell there has to be an obstacle at: lethal, or a boundary of the unknown.
Occupied(costmap, heading, c) ==
  /\ c \in costmap.lethal \/ UnknownBoundary(costmap, c)
  /\ Interesting(Plus(costmap.origin, c), heading, costmap.behind)

\* One point per such cell, column by column, without the last row and the
\* last column, for a robot at the origin.
FromCostmap(costmap, heading) ==
  LET columns == costmap.size[1] - 1
      rows == costmap.size[2] - 1
      points[k \in 0 .. columns * rows] ==
        IF k = 0 THEN <<>>
        ELSE LET c == <<(k - 1) \div rows, (k - 1) % rows>> IN
             IF Occupied(costmap, heading, c)
             THEN Append(points[k - 1], MakeObstacle("point", <<Plus(costmap.origin, c)>>, 0))
             ELSE points[k - 1]
  IN points[columns * rows]

-----------------------------------------------------------------------------
(* Messages *)

\* The obstacles a message adds: none if it has no points.
Shape(points, radius) ==
  CASE Len(points) = 0 -> <<>>
    [] Len(points) = 1 /\ radius > 0 -> <<MakeObstacle("circle", points, radius)>>
    [] Len(points) = 1 /\ radius = 0 -> <<MakeObstacle("point", points, 0)>>
    [] Len(points) = 2 -> <<MakeObstacle("line", points, 0)>>
    [] OTHER -> <<MakeObstacle("polygon", FixPolygonClosure(points), 0)>>

\* setCentroidVelocity(): one that is null leaves the obstacle as it is.
SetCentroidVelocity(o, velocity) ==
  IF velocity = <<0, 0>> THEN o ELSE [o EXCEPT !.velocity = velocity, !.dynamic = TRUE]

SetLastVelocity(obstacles, velocity) ==
  IF obstacles = <<>> THEN obstacles
  ELSE Append(Front(obstacles), SetCentroidVelocity(Last(obstacles), velocity))

\* The obstacles of a message behind those there are, whose last one gets the
\* velocity: one of a message without points goes to the obstacle before it.
Added(obstacles, points, message) ==
  SetLastVelocity(obstacles \o Shape(points, message.radius), message.velocity)

\* updateObstacleContainerWithCostmapConverter(): one message after the other.
WithConverter(obstacles, messages) ==
  LET sum[k \in 0 .. Len(messages)] ==
        IF k = 0 THEN obstacles ELSE Added(sum[k - 1], messages[k].points, messages[k])
  IN sum[Len(messages)]

\* updateObstacleContainerWithCustomObstacles(): messages without points are
\* skipped, the others moved by offset into the frame of the planner.
WithCustom(obstacles, messages, offset) ==
  LET moved(points) == [i \in DOMAIN points |-> Plus(points[i], offset)]
      sum[k \in 0 .. Len(messages)] ==
        IF k = 0 THEN obstacles
        ELSE IF messages[k].points = <<>> THEN sum[k - 1]
        ELSE Added(sum[k - 1], moved(messages[k].points), messages[k])
  IN sum[Len(messages)]
=============================================================================
