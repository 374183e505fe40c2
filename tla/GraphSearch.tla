---------------------------- MODULE GraphSearch ----------------------------
(***************************************************************************)
(* The exploration of HomotopyClassPlanner (graph_search.{h,cpp}): a graph *)
(* of keypoints (lrKeyPointGraph) or of random samples (ProbRoadmapGraph)  *)
(* between the robot and the goal, and GraphSearchInterface::DepthFirst()  *)
(* over it, which hands every path to addAndInitNewTeb().  One call of     *)
(* DepthFirst() on the stack is one element of visited; every round of its *)
(* two loops is a step.  The obstacles it looks at are those the control   *)
(* cycle put into its container just before, of every kind and source.     *)
(*                                                                         *)
(* The start is the origin, the goal lies on the x-axis, positions are     *)
(* integer points <<x, y>>.  The H-signature of a path stands for the side *)
(* on which it passes the centroid of each obstacle.                       *)
(***************************************************************************)
EXTENDS Obstacles

CONSTANTS
  Scenes,       \* the situations of a control cycle
  MaxClasses    \* hcp.max_number_classes

Points == Int \X Int

\* A message about an obstacle.
Messages == [points : Seq(Points), radius : Nat, velocity : Points]

\* One class is allowed at least, which is the least the configuration offers;
\* a costmap has cells, the outline of the robot a vertex.
ASSUME SearchAssumption ==
  /\ MaxClasses \in Nat \ {0}
  /\ \A s \in Scenes :
       /\ s.goal \in Int /\ s.distance \in Nat
       /\ s.footprint \in Seq(Points) \ {<<>>}
       /\ s.samples \subseteq Seq(Points)
       /\ s.converted \in Seq(Messages) /\ s.custom \in Seq(Messages)
       /\ s.arriving \subseteq Seq(Messages) /\ s.offset \in Points
       /\ s.costmap.size \in (Nat \ {0}) \X (Nat \ {0}) /\ s.costmap.origin \in Points

VARIABLES
  scene,       \* the situation of this call, never changed
  custom,      \* custom_obstacle_msg_: the messages in it
  obstacles,   \* obstacles_, which hcp_ has a pointer to
  vertices,    \* graph_: positions by vertex descriptor, which count from 1
  edges,       \* graph_: pairs of vertex descriptors
  visited,     \* the vertices on the path from the start to the current call
  frames,      \* per call: the vertex its second loop looks at next
  container,   \* classes of the trajectories of hcp_
  explored,    \* history: the paths handed to addAndInitNewTeb(), in order
  pc

vars == <<scene, custom, obstacles, vertices, edges, visited, frames, container, explored, pc>>

-----------------------------------------------------------------------------
(* Geometry *)

\* The cosine of the angle between v and the direction w is at most
\* threshold / 10.
AtMostThreshold(v, w, threshold) ==
  Dot(v, w) <= 0 \/ 100 * Dot(v, w) * Dot(v, w)
                      <= threshold * threshold * SquaredNorm(v) * SquaredNorm(w)

Ahead == <<1, 0>>
Start == <<0, 0>>
Goal == <<scene.goal, 0>>

-----------------------------------------------------------------------------
(* Classes *)

\* Where a path passes an obstacle: to its left or its right.
SideOf(path, o) ==
  {IF Cross(Minus(path[i + 1], path[i]), Minus(o, path[i])) > 0 THEN "right" ELSE "left" :
     i \in {j \in 1 .. Len(path) - 1 : path[j][1] <= o[1] /\ o[1] < path[j + 1][1]}}

\* calculateHSignature() over all obstacles.
ClassOf(path) == [k \in DOMAIN obstacles |-> SideOf(path, Centroid(obstacles[k]))]

Positions(path) == [i \in DOMAIN path |-> vertices[path[i]]]

-----------------------------------------------------------------------------
(* The container *)

\* customObstacleCB(): a message replaces the one before it, at any time.
CustomObstacleCB(messages) ==
  /\ pc # "done" /\ custom' = messages
  /\ UNCHANGED <<scene, obstacles, vertices, edges, visited, frames, container, explored, pc>>

\* computeVelocityCommands() fills the container anew; the transform of the
\* custom obstacles may be missing, which leaves them where they are.
UpdateObstacleContainer ==
  /\ pc = "update"
  /\ \E offset \in {scene.offset, <<0, 0>>} :
       obstacles' = WithCustom(IF scene.converter THEN WithConverter(<<>>, scene.converted)
                               ELSE FromCostmap(scene.costmap, scene.heading),
                               custom, offset)
  /\ pc' = "renew"
  /\ UNCHANGED <<scene, custom, vertices, edges, visited, frames, container, explored>>

\* renewAndAnalyzeOldTebs(): the straight line may be left of the last cycle,
\* and is classified among the new obstacles.
Renew ==
  /\ pc = "renew"
  /\ container' \in {<<>>, <<ClassOf(<<Start, Goal>>)>>}
  /\ pc' = "create"
  /\ UNCHANGED <<scene, custom, obstacles, vertices, edges, visited, frames, explored>>

-----------------------------------------------------------------------------
(* createGraph() *)

Full == Len(container) >= MaxClasses

\* An obstacle in front of the start; one at the start counts, as the cosine
\* of a null vector is not a number.
InFront(o) ==
  o = Start \/ ~(Dot(o, Ahead) < 0 \/ 100 * Dot(o, Ahead) * Dot(o, Ahead) < Dot(o, o))

Beside(o) == <<Plus(Centroid(o), <<0, scene.distance>>), Minus(Centroid(o), <<0, scene.distance>>)>>

\* lrKeyPointGraph: a vertex to the left and one to the right of each
\* obstacle in front, in the order of the obstacles.
Keypoints ==
  LET beside[k \in 0 .. Len(obstacles)] ==
        IF k = 0 THEN <<>>
        ELSE IF InFront(Centroid(obstacles[k])) THEN beside[k - 1] \o Beside(obstacles[k])
        ELSE beside[k - 1]
  IN beside[Len(obstacles)]

\* The two vertices of the first of the nearest obstacles in front: behind the
\* start, each such obstacle adds a pair.
NearestKeypoints ==
  LET front == {k \in DOMAIN obstacles : InFront(Centroid(obstacles[k]))}
      size(k) == SquaredNorm(Centroid(obstacles[k]))
      nearest == {k \in front : \A l \in front : size(k) < size(l) \/ (size(k) = size(l) /\ k <= l)}
      pair(k) == 2 * Cardinality({l \in front : l <= k})
  IN UNION {{pair(k), pair(k) + 1} : k \in nearest}

\* No obstacle is in the way.
Free(p, q, halves) ==
  \A k \in DOMAIN obstacles : ~CheckLineIntersection(obstacles[k], p, q, halves)

\* Vertex j lies ahead of vertex i, which is not the goal.
Forward(vs, i, j) ==
  /\ i # j /\ i < Len(vs)
  /\ ~AtMostThreshold(Minus(vs[j], vs[i]), Ahead, scene.threshold)

\* No edge leads from the start to a keypoint of the nearest obstacle the
\* robot does not look towards; half the distance has to be free.
KeypointEdge(vs, i, j) ==
  /\ Forward(vs, i, j)
  /\ ~(/\ scene.threshold # 0 /\ i = 1 /\ j \in NearestKeypoints
       /\ AtMostThreshold(vs[j], scene.heading, scene.threshold))
  /\ Free(vs[i], vs[j], scene.distance)

\* Samples may be anywhere; the whole distance has to be free.
RoadmapEdge(vs, i, j) == Forward(vs, i, j) /\ Free(vs[i], vs[j], 2 * scene.distance)

Connected(vs, i, j) == IF scene.keypoints THEN KeypointEdge(vs, i, j) ELSE RoadmapEdge(vs, i, j)

\* The three ways createGraph() goes: nothing to do, too close to the goal
\* for a graph (a straight line, if nothing is there), a graph to search,
\* with one of the given sequences of vertices between start and goal.
Create(interiors) ==
  /\ pc = "create"
  /\ \/ /\ Full
        /\ pc' = "done" /\ UNCHANGED <<vertices, edges, visited, frames, container>>
     \/ /\ ~Full /\ scene.goal < scene.tolerance
        /\ container' = IF container = <<>> THEN <<ClassOf(<<Start, Goal>>)>> ELSE container
        /\ pc' = "done" /\ UNCHANGED <<vertices, edges, visited, frames>>
     \/ /\ ~Full /\ scene.goal >= scene.tolerance
        /\ \E inner \in interiors : vertices' = <<Start>> \o inner \o <<Goal>>
        /\ edges' = {e \in (1 .. Len(vertices')) \X (1 .. Len(vertices')) :
                       Connected(vertices', e[1], e[2])}
        /\ visited' = <<1>> /\ frames' = <<>>
        /\ pc' = "enter" /\ UNCHANGED container
  /\ UNCHANGED <<scene, custom, obstacles, explored>>

CreateKeypointGraph == scene.keypoints /\ Create({Keypoints})

CreateRoadmap == ~scene.keypoints /\ Create(scene.samples)

-----------------------------------------------------------------------------
(* DepthFirst() *)

GoalVertex == Len(vertices)
Back == Last(visited)

\* A call begins, and ends at once when there are enough classes.
Enter ==
  /\ pc = "enter"
  /\ IF Full THEN pc' = "recurse" /\ visited' = Front(visited) /\ UNCHANGED frames
     ELSE pc' = "goal" /\ frames' = Append(frames, 1) /\ UNCHANGED visited
  /\ UNCHANGED <<scene, custom, obstacles, vertices, edges, container, explored>>

\* The first loop: the goal is adjacent, and the path to it is a candidate;
\* it is kept when its class is new (addAndInitNewTeb()).
LookForGoal ==
  /\ pc = "goal"
  /\ IF <<Back, GoalVertex>> \in edges
     THEN LET path == Append(visited, GoalVertex)
              class == ClassOf(Positions(path))
          IN /\ explored' = Append(explored, path)
             /\ container' = IF class \in ToSet(container) THEN container
                             ELSE Append(container, class)
     ELSE UNCHANGED <<explored, container>>
  /\ pc' = "recurse"
  /\ UNCHANGED <<scene, custom, obstacles, vertices, edges, visited, frames>>

\* Mutant: a vertex on an earlier path is not entered again.
AdjacentMutSeenOnce ==
  {v \in Last(frames) .. GoalVertex - 1 :
     /\ <<Back, v>> \in edges
     /\ \A k \in DOMAIN explored : v \notin ToSet(explored[k])}

\* Mutant: the second loop enters the vertex it comes from again.
AdjacentMutAgain ==
  {v \in Last(frames) - 1 .. GoalVertex - 1 : <<Back, v>> \in edges /\ v \notin ToSet(visited)}

\* The vertices the second loop still has to enter.
Adjacent ==
  {v \in Last(frames) .. GoalVertex - 1 : <<Back, v>> \in edges /\ v \notin ToSet(visited)}

\* The second loop: the next vertex is entered, and the call returns when
\* there is none.
Recurse ==
  /\ pc = "recurse"
  /\ IF Adjacent # {}
     THEN LET v == CHOOSE u \in Adjacent : \A w \in Adjacent : u <= w IN
          /\ frames' = [frames EXCEPT ![Len(frames)] = v + 1]
          /\ visited' = Append(visited, v) /\ pc' = "enter"
     ELSE /\ frames' = Front(frames)
          /\ IF Len(frames) = 1 THEN pc' = "done" /\ UNCHANGED visited
             ELSE visited' = Front(visited) /\ UNCHANGED pc
  /\ UNCHANGED <<scene, custom, obstacles, vertices, edges, container, explored>>

-----------------------------------------------------------------------------
Init ==
  /\ scene \in Scenes
  /\ custom = scene.custom /\ obstacles = <<>>
  /\ vertices = <<>> /\ edges = {}
  /\ visited = <<>> /\ frames = <<>> /\ explored = <<>>
  /\ container = <<>>
  /\ pc = "update"

Next ==
  \/ UpdateObstacleContainer
  \/ \E messages \in scene.arriving : CustomObstacleCB(messages)
  \/ Renew \/ CreateKeypointGraph \/ CreateRoadmap \/ Enter \/ LookForGoal \/ Recurse

Spec == Init /\ [][Next]_vars

-----------------------------------------------------------------------------
(* Properties *)

ObstacleKinds == {"point", "circle", "line", "polygon"}

\* A point and a circle have one vertex, a line has two, a polygon one at least;
\* a point has no radius.
ObstacleRecords ==
  {o \in [kind : ObstacleKinds, at : Seq(Points) \ {<<>>}, radius : Nat, velocity : Points,
          dynamic : BOOLEAN] :
     /\ o.kind \in {"point", "circle"} => Len(o.at) = 1
     /\ o.kind = "line" => Len(o.at) = 2
     /\ o.kind = "point" => o.radius = 0}

\* A class says how a path passes each obstacle.
Classes == [DOMAIN obstacles -> SUBSET {"left", "right"}]

\* Every variable stays within its type.
TypeOK ==
  /\ scene \in Scenes /\ custom \in Seq(Messages)
  /\ obstacles \in Seq(ObstacleRecords) /\ container \in Seq(Classes)
  /\ vertices \in Seq(Points)
  /\ edges \subseteq (1 .. Len(vertices)) \X (1 .. Len(vertices))
  /\ visited \in Seq(1 .. Len(vertices)) /\ frames \in Seq(1 .. Len(vertices))
  /\ explored \in Seq(Seq(1 .. Len(vertices)))
  /\ pc \in {"update", "renew", "create", "enter", "goal", "recurse", "done"}

\* p leads from the start to the goal and visits no vertex twice.
IsSimplePath(p) ==
  /\ Len(p) > 1 /\ p[1] = 1 /\ p[Len(p)] = GoalVertex
  /\ \A i \in 1 .. Len(p) - 1 : <<p[i], p[i + 1]>> \in edges
  /\ \A i, j \in 1 .. Len(p) : p[i] = p[j] => i = j

\* All such paths, built up by length: those with k + 1 vertices that have
\* not reached the goal, and then the goal.
SimplePaths ==
  LET Extended(paths) == {Append(p, v) : p \in paths, v \in 1 .. GoalVertex}
      Open[k \in 0 .. GoalVertex - 2] ==
        IF k = 0 THEN {<<1>>}
        ELSE {p \in Extended(Open[k - 1]) :
                /\ <<p[k], p[k + 1]>> \in edges
                /\ p[k + 1] # GoalVertex /\ \A i \in 1 .. k : p[i] # p[k + 1]}
  IN {p \in UNION {Extended(Open[k]) : k \in 0 .. GoalVertex - 2} :
        p[Len(p)] = GoalVertex /\ <<p[Len(p) - 1], GoalVertex>> \in edges}

Searched == pc = "done" /\ vertices # <<>>

\* The search that ends with room left in the container has found every class
\* there is a path of in the graph: no alternative around the obstacles is
\* missed by the order of the traversal, the break at the goal or the
\* vertices taken off the path again.
SearchIsComplete ==
  Searched /\ ~Full =>
    {ClassOf(Positions(p)) : p \in SimplePaths} \subseteq ToSet(container)

\* Every candidate costs a trajectory to build and classify: no path is
\* handed over twice, every one is a simple path of the graph from the start
\* to the goal, and there are never more classes than allowed.
CandidatesAreDistinct ==
  /\ \A j, k \in DOMAIN explored : explored[j] = explored[k] => j = k
  /\ \A k \in DOMAIN explored : IsSimplePath(explored[k])
  /\ Len(container) <= MaxClasses

\* p, times its scale, is in the interior of a convex polygon.
Inside(polygon, p, scale) ==
  \/ \A e \in Edges(polygon) :
       Cross(Minus(e[2], e[1]), Minus(p, Times(scale, e[1]))) > 0
  \/ \A e \in Edges(polygon) :
       Cross(Minus(e[2], e[1]), Minus(p, Times(scale, e[1]))) < 0

\* The vertices of a polygon lie on one side of each of its edges.
Convex(polygon) ==
  \/ \A e \in Edges(polygon), i \in DOMAIN polygon :
       Cross(Minus(e[2], e[1]), Minus(polygon[i], e[1])) >= 0
  \/ \A e \in Edges(polygon), i \in DOMAIN polygon :
       Cross(Minus(e[2], e[1]), Minus(polygon[i], e[1])) <= 0

\* The points that divide the segment from p to q into twelve parts, times 12.
Twelfths(p, q) == {Plus(Times(12 - k, p), Times(k, q)) : k \in 0 .. 12}

\* The segment from p to q leads through an obstacle: nearer to a point or
\* circle than was asked for, across a line, into a polygon.
LeadsThrough(p, q, o) ==
  CASE o.kind \in {"point", "circle"} ->
         LET reach == o.radius + IF scene.keypoints THEN scene.distance \div 2 ELSE scene.distance
         IN \E r \in Twelfths(p, q) :
              SquaredNorm(Minus(r, Times(12, o.at[1]))) < 144 * reach * reach
    [] o.kind = "line" ->
         LET side(a, b, c) == Cross(Minus(b, a), Minus(c, a))
         IN /\ side(p, q, o.at[1]) * side(p, q, o.at[2]) < 0
            /\ side(o.at[1], o.at[2], p) * side(o.at[1], o.at[2], q) < 0
    [] o.kind = "polygon" /\ Len(o.at) > 2 -> \E r \in Twelfths(p, q) : Inside(o.at, r, 12)
    [] OTHER -> FALSE

\* Every candidate leads forward all the way, and none leads through an
\* obstacle of any kind and any source, while the robot and the goal are not
\* inside one, although samples and keypoints may be and the intersection test
\* takes touching end points for free on one side ("occupied vertices are
\* ignored in the edge insertion state since they always violate the
\* edge-obstacle collision check", graph_search.cpp:278).  Of a polygon that
\* is not convex a path may leave the part all edges face and stay within.
CandidatesAreFree ==
  \A k \in DOMAIN explored : \A i \in 1 .. Len(explored[k]) - 1 :
    LET from == vertices[explored[k][i]]
        to == vertices[explored[k][i + 1]]
    IN /\ from[1] < to[1]
       /\ \A j \in DOMAIN obstacles :
            \/ obstacles[j].kind = "polygon"
                 /\ \/ ~Convex(obstacles[j].at)
                    \/ Inside(obstacles[j].at, Start, 1)
                    \/ Inside(obstacles[j].at, Goal, 1)
            \/ ~LeadsThrough(from, to, obstacles[j])

\* The distance of a point from a segment, over the positions the nearest
\* point can have when all coordinates are integers.
ReferenceToSegment(p, start, end) ==
  LET d == Minus(end, start)
      v == Minus(p, start)
      n == IF start = end THEN 1 ELSE SquaredNorm(d)
  IN Least({<<n * SquaredNorm(v) - 2 * k * Dot(v, d) + (IF start = end THEN 0 ELSE k * k), n>> :
              k \in 0 .. n})

\* Two segments have a point in common.
Meet(p, q, start, end) ==
  LET side(a, b, c) == Cross(Minus(b, a), Minus(c, a))
      zero == <<0, 1>>
  IN \/ /\ side(p, q, start) * side(p, q, end) < 0
        /\ side(start, end, p) * side(start, end, q) < 0
     \/ \E c \in {start, end} : SameDistance(ReferenceToSegment(c, p, q), zero)
     \/ \E c \in {p, q} : SameDistance(ReferenceToSegment(c, start, end), zero)

\* The distance between two figures, by their edges.
Reference(f, g) ==
  LET sides(h) == IF Len(h) = 1 THEN {<<h[1], h[1]>>} ELSE Edges(h)
  IN IF \E d \in sides(f), e \in sides(g) : Meet(d[1], d[2], e[1], e[2]) THEN <<0, 1>>
     ELSE Least(UNION {{ReferenceToSegment(d[1], e[1], e[2]), ReferenceToSegment(d[2], e[1], e[2]),
                        ReferenceToSegment(e[1], d[1], d[2]), ReferenceToSegment(e[2], d[1], d[2])} :
                         d \in sides(f), e \in sides(g)})

Directions == {<<1, 0>>, <<0, 1>>, <<-1, 0>>, <<0, -1>>}

\* The distance from an obstacle that the optimizer penalizes is the true one
\* to the outline of the robot, at every vertex of the graph and along every
\* edge: zero exactly if the two meet, also where the intersection test
\* overlooks that they do, and the same for every way to list the vertices.
\* The distance from where a moving obstacle will be is the one from where it
\* is now to the outline of a robot that moves against its velocity.
DistancesAreTrue ==
  pc = "done" =>
    \A k \in DOMAIN obstacles :
      /\ \A e \in edges :
           LET segment == <<vertices[e[1]], vertices[e[2]]>> IN
           SameDistance(MinimumDistance(obstacles[k], segment),
                        Reference(obstacles[k].at, segment))
      /\ \A i \in DOMAIN vertices, direction \in Directions :
           SameDistance(CalculateDistance(scene.footprint, vertices[i], direction, obstacles[k]),
                        Reference(obstacles[k].at,
                                  TransformToWorld(scene.footprint, vertices[i], direction)))
      /\ obstacles[k].dynamic =>
           \A i \in DOMAIN vertices, direction \in Directions, t \in 0 .. 2 :
             SameDistance(
               EstimateSpatioTemporalDistance(scene.footprint, vertices[i], direction,
                                              obstacles[k], t),
               Reference(obstacles[k].at,
                         TransformToWorld(scene.footprint,
                                          Minus(vertices[i], Times(t, obstacles[k].velocity)),
                                          direction)))
=============================================================================
