--------------------------- MODULE MCGraphSearch ---------------------------
(***************************************************************************)
(* Scenes for GraphSearch: points in the way, beside it, behind the robot  *)
(* and at it; circles, lines and polygons that are larger than the distance*)
(* kept to keypoints, of both orientations and with their vertices on the  *)
(* straight line; a costmap with unknown space; custom obstacles that      *)
(* change meanwhile; and roadmaps of up to three samples.                  *)
(***************************************************************************)
EXTENDS GraphSearch

Grid == {<<1, 2>>, <<2, -2>>, <<3, 2>>, <<4, -2>>, <<4, 3>>}

Message(points, radius, velocity) == [points |-> points, radius |-> radius, velocity |-> velocity]
Static(points) == Message(points, 0, <<0, 0>>)
PointsOf(positions) == [i \in DOMAIN positions |-> Static(<<positions[i]>>)]

NoCostmap == [size |-> <<1, 1>>, origin |-> <<0, 0>>, lethal |-> {}, unknown |-> {}, behind |-> 0]

Scene ==
  [keypoints |-> TRUE, converter |-> TRUE, converted |-> PointsOf(<<<<2, 0>>, <<5, 0>>>>),
   costmap |-> NoCostmap, custom |-> <<>>, arriving |-> {}, offset |-> <<0, 0>>,
   goal |-> 8, tolerance |-> 1,
   distance |-> 2, threshold |-> 0, heading |-> <<1, 0>>, samples |-> {},
   footprint |-> <<<<-1, -1>>, <<2, -1>>, <<2, 1>>, <<-1, 1>>>>]

\* A square with a side and one with a corner towards the robot, as its
\* vertices would be listed to the left and to the right.
Square == <<<<3, -1>>, <<5, -1>>, <<5, 1>>, <<3, 1>>, <<3, -1>>>>
Diamond == <<<<2, 0>>, <<4, -2>>, <<6, 0>>, <<4, 2>>>>
Wide == <<<<3, -3>>, <<5, -3>>, <<5, 3>>, <<3, 3>>>>

Kinds ==
  {[Scene EXCEPT !.converted = <<Static(polygon)>>] :
     polygon \in {Square, Diamond, Wide, Reverse(Square), Reverse(Diamond), Reverse(Wide),
                  <<<<2, 0>>, <<6, 0>>, <<2, 0>>>>, <<<<2, 1>>, <<4, 1>>, <<6, 1>>>>,
                  <<<<3, -1>>, <<3, 1>>>>, <<<<4, 3>>, <<4, -3>>>>, <<<<2, 0>>, <<6, 0>>>>}}
  \cup
  {[Scene EXCEPT !.converted = <<Message(<<<<3, 0>>>>, 1, <<-1, 0>>), Static(<<>>),
                                 Message(<<<<6, 1>>, <<6, 3>>>>, 0, <<0, 1>>)>>]}

MCScenes ==
  Kinds
  \cup
  {Scene,
   [Scene EXCEPT !.converted = PointsOf(<<<<3, 0>>, <<-2, 1>>, <<0, 0>>, <<6, 1>>>>)],
   [Scene EXCEPT !.threshold = 4, !.footprint = <<<<0, 0>>>>],
   [Scene EXCEPT !.threshold = 4, !.heading = <<1, 2>>],
   [Scene EXCEPT !.converted = PointsOf(<<<<2, 0>>, <<5, 1>>, <<8, -1>>>>), !.goal = 11],
   [Scene EXCEPT !.converted = <<>>],
   [Scene EXCEPT !.tolerance = 9],
   [Scene EXCEPT !.converted = <<>>, !.custom = <<Message(Square, 0, <<0, -1>>), Static(<<>>)>>,
                 !.offset = <<0, 1>>, !.arriving = {<<>>, <<Message(<<<<4, 0>>>>, 0, <<1, 1>>)>>}],
   [Scene EXCEPT !.converter = FALSE,
                 !.costmap = [size |-> <<5, 4>>, origin |-> <<1, -1>>, behind |-> 1,
                              lethal |-> {<<1, 1>>, <<4, 1>>},
                              unknown |-> {<<2, 2>>, <<2, 3>>, <<3, 2>>, <<3, 3>>, <<4, 2>>, <<4, 3>>}]],
   [Scene EXCEPT !.keypoints = FALSE, !.distance = 1,
                 !.converted = PointsOf(<<<<3, 0>>>>), !.goal = 6,
                 !.samples = {<<p, q, r>> : p \in Grid, q \in Grid, r \in Grid}]}
  \cup
  {[Scene EXCEPT !.keypoints = FALSE, !.distance = 1, !.goal = 6, !.footprint = <<<<-1, 0>>, <<1, 1>>>>,
                 !.converted = <<Static(polygon)>>,
                 !.samples = {<<p, q>> : p \in (1 .. 5) \X (-2 .. 2), q \in (1 .. 5) \X (-2 .. 2)}] :
     polygon \in {<<<<2, 1>>, <<2, -1>>, <<4, 0>>>>, <<<<2, -1>>, <<2, 1>>, <<4, 0>>>>,
                  <<<<2, 0>>, <<3, -1>>, <<4, 0>>, <<3, 1>>>>, <<<<2, 0>>, <<3, 1>>, <<4, 0>>, <<3, -1>>>>}}
=============================================================================
