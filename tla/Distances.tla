------------------------------ MODULE Distances ------------------------------
(***************************************************************************)
(* distance_calculations.h over points with integer coordinates.  A figure *)
(* is a sequence of vertices: a point, a segment or a polygon that is not  *)
(* closed by a repeated vertex.  A distance is the square of the one in    *)
(* the code, a fraction <<numerator, denominator>>; a denominator of zero  *)
(* stands for HUGE_VAL.                                                    *)
(***************************************************************************)
EXTENDS Integers, FiniteSets, Sequences

Plus(p, q) == <<p[1] + q[1], p[2] + q[2]>>
Minus(p, q) == <<p[1] - q[1], p[2] - q[2]>>
Times(k, p) == <<k * p[1], k * p[2]>>
Dot(p, q) == p[1] * q[1] + p[2] * q[2]
Cross(p, q) == p[1] * q[2] - p[2] * q[1]
SquaredNorm(p) == Dot(p, p)

Infinite == <<1, 0>>
Below(a, b) == a[1] * b[2] < b[1] * a[2]
SameDistance(a, b) == a[1] * b[2] = b[1] * a[2]
Least(distances) == CHOOSE a \in distances : \A b \in distances : ~Below(b, a)

-----------------------------------------------------------------------------
\* Mutant: the nearest point may lie behind the end of the segment.
PointToSegmentMutRay(p, start, end) ==
  LET d == Minus(end, start)
      v == Minus(p, start)
  IN IF Dot(v, d) <= 0 THEN <<SquaredNorm(v), 1>>
     ELSE <<Cross(d, v) * Cross(d, v), SquaredNorm(d)>>

\* distance_point_to_segment_2d(): to the start, the end or a point between.
PointToSegment(p, start, end) ==
  LET d == Minus(end, start)
      v == Minus(p, start)
  IN CASE Dot(v, d) <= 0 -> <<SquaredNorm(v), 1>>
       [] Dot(v, d) > 0 /\ Dot(v, d) >= SquaredNorm(d) -> <<SquaredNorm(Minus(p, end)), 1>>
       [] OTHER -> <<Cross(d, v) * Cross(d, v), SquaredNorm(d)>>

\* Mutant: touching end points never count.
SegmentsIntersectMutOpen(p, q, start, end) ==
  LET denom == Cross(Minus(q, p), Minus(end, start))
      s == Cross(Minus(q, p), Minus(p, start))
      t == Cross(Minus(end, start), Minus(p, start))
  IN \/ denom > 0 /\ s \in 1 .. denom - 1 /\ t \in 1 .. denom - 1
     \/ denom < 0 /\ s \in denom + 1 .. -1 /\ t \in denom + 1 .. -1

\* check_line_segments_intersection_2d(): a touching end point counts when
\* the second segment leads to the left of the first, and not otherwise;
\* parallel segments never intersect.
SegmentsIntersect(p, q, start, end) ==
  LET denom == Cross(Minus(q, p), Minus(end, start))
      s == Cross(Minus(q, p), Minus(p, start))
      t == Cross(Minus(end, start), Minus(p, start))
  IN \/ denom > 0 /\ s \in 0 .. denom /\ t \in 0 .. denom
     \/ denom < 0 /\ s \in denom + 1 .. -1 /\ t \in denom + 1 .. -1

SegmentToSegment(p, q, start, end) ==
  IF SegmentsIntersect(p, q, start, end) THEN <<0, 1>>
  ELSE Least({PointToSegment(p, start, end), PointToSegment(q, start, end),
              PointToSegment(start, p, q), PointToSegment(end, p, q)})

-----------------------------------------------------------------------------
\* The edges of a figure, the closing one if it is not a line.
Edges(figure) ==
  {<<figure[i], figure[i + 1]>> : i \in 1 .. Len(figure) - 1}
    \cup IF Len(figure) > 2 THEN {<<figure[Len(figure)], figure[1]>>} ELSE {}

PointToFigure(p, figure) ==
  IF Len(figure) = 1 THEN <<SquaredNorm(Minus(p, figure[1])), 1>>
  ELSE Least({Infinite} \cup {PointToSegment(p, e[1], e[2]) : e \in Edges(figure)})

SegmentToFigure(p, q, figure) ==
  IF Len(figure) = 1 THEN PointToSegment(figure[1], p, q)
  ELSE Least({Infinite} \cup {SegmentToSegment(p, q, e[1], e[2]) : e \in Edges(figure)})

\* distance_polygon_to_polygon_2d(), and with figures of one or two vertices
\* every other distance.
FigureToFigure(f, g) ==
  IF Len(f) = 1 THEN PointToFigure(f[1], g)
  ELSE Least({Infinite} \cup {SegmentToFigure(e[1], e[2], g) : e \in Edges(f)})
=============================================================================
