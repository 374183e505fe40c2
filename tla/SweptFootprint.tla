--------------------------- MODULE SweptFootprint ---------------------------
(***************************************************************************)
(* The collision rule of swept_footprint.h: one query object that holds a  *)
(* snapshot of the observed costmap, is placed on an initial pose by       *)
(* begin(), and is then moved segment by segment by advance().             *)
(*                                                                         *)
(* The plane is a lattice.  A map cell is a square of side 2 * Half, the   *)
(* hull and its padding are axis-parallel boxes around the pose, and a     *)
(* motion is a translation by one lattice unit: the part of a motion       *)
(* between two support events, which is what advanceMotion() is given.     *)
(* A call of advance() that covers several parts is the corresponding      *)
(* sequence of steps, and its caller stops at the first one that fails.    *)
(* Over such a part the swept area of a box is the box around its two      *)
(* ends, so that the separation tests of the code are exact here.          *)
(***************************************************************************)
EXTENDS Integers, FiniteSets, FiniteSetsExt, SequencesExt

CONSTANTS
  Width, Height,   \* the map has Width x Height cells
  Half,            \* half the side of a cell, in lattice units
  HullX, HullY,    \* half extents of the hull
  Padding,         \* how far the padded footprint exceeds the hull
  AllowUnknown,    \* allow_unknown of the constructor
  Maps,            \* the costmaps observed: [Cells -> Kinds]
  Starts,          \* the poses begin() is given
  Margins          \* the clearances asked of terminalSensingClearance()

Cells == (0 .. Width - 1) \X (0 .. Height - 1)
Kinds == {"free", "lethal", "unknown"}
Right == 2 * Half * Width
Top == 2 * Half * Height
Poses == (0 .. Right) \X (0 .. Top)
Directions == {<<1, 0>>, <<-1, 0>>, <<0, 1>>, <<0, -1>>}

ASSUME GeometryAssumption ==
  /\ {Width, Height, Half, HullX, HullY} \subseteq Nat \ {0}
  /\ Starts \subseteq Poses
  /\ Padding \in Nat /\ Margins \subseteq Nat /\ AllowUnknown \in BOOLEAN
  /\ Maps \subseteq [Cells -> Kinds]

VARIABLES
  map,          \* observed_ and occupied_
  pose,         \* pose_
  begun,        \* begun_
  planes,       \* planes_: the contact planes still in force
  component,    \* component_: the obstacle cells joined to a first contact
  rawOverlap,   \* initial_raw_overlap_
  reason,       \* reason_
  origin        \* the pose begin() was given (history, no code reads it)

vars == <<map, pose, begun, planes, component, rawOverlap, reason, origin>>

-----------------------------------------------------------------------------
(* Geometry *)

Absolute(a) == IF a < 0 THEN -a ELSE a
Least(a, b) == IF a < b THEN a ELSE b
Dot(n, p) == n[1] * p[1] + n[2] * p[2]
Plus(p, d) == <<p[1] + d[1], p[2] + d[2]>>
Center(c) == <<Half * (2 * c[1] + 1), Half * (2 * c[2] + 1)>>

Hull == <<HullX, HullY>>
Padded == <<HullX + Padding, HullY + Padding>>

\* projection(): the support of a box at p along n.
Support(ext, p, n) ==
  Dot(n, p) - Absolute(n[1]) * ext[1] - Absolute(n[2]) * ext[2]

\* separation() < 0: box and cell share an interior point.
Overlaps(ext, p, c) ==
  \A k \in {1, 2} : Absolute(p[k] - Center(c)[k]) < ext[k] + Half

\* bounds() and intervalClear(): the box overlaps the cell on its way to q.
SweepOverlaps(ext, p, q, c) == Overlaps(ext, p, c) \/ Overlaps(ext, q, c)

InsideMap(ext, p) ==
  /\ p[1] - ext[1] >= 0 /\ p[1] + ext[1] <= Right
  /\ p[2] - ext[2] >= 0 /\ p[2] + ext[2] <= Top

Known == {c \in Cells : map[c] = "lethal"}
Unknown == {c \in Cells : map[c] = "unknown"}
HardUnknown == IF AllowUnknown THEN {} ELSE Unknown

ObservedFree(c) == c \in Cells /\ map[c] = "free"
Face(c, n) == Dot(n, Center(c)) + Half
Behind(c, plane) == Face(c, plane.normal) <= plane.boundary
OnBoundary(c, plane) ==
  ObservedFree(Plus(c, plane.normal)) /\ Face(c, plane.normal) = plane.boundary

-----------------------------------------------------------------------------
(* begin() *)

Contacts(p) == {c \in Known : Overlaps(Padded, p, c)}

\* add_face(): the exposed faces of contact cells that look towards the hull.
Faces(p, n) ==
  {Face(c, n) : c \in {d \in Contacts(p) :
     /\ ObservedFree(Plus(d, n))
     /\ Dot(n, p) >= Face(d, n)
     /\ Support(Padded, p, n) <= Face(d, n)}}

\* Mutant: the support of the padded footprint is protected, not the hull's.
ContactPlanesMutPadded(p) ==
  {[normal |-> n, boundary |-> Max(Faces(p, n)),
    minimum |-> Least(Support(Padded, p, n), Max(Faces(p, n)))] :
      n \in {d \in Directions : Faces(p, d) # {}}}

\* One plane per normal: the outermost face, and the support it protects.
ContactPlanes(p) ==
  {[normal |-> n, boundary |-> Max(Faces(p, n)),
    minimum |-> Least(Support(Hull, p, n), Max(Faces(p, n)))] :
      n \in {d \in Directions : Faces(p, d) # {}}}

Adjacent(c, d) == Absolute(c[1] - d[1]) <= 1 /\ Absolute(c[2] - d[2]) <= 1

\* The known obstacle cells 8-connected to the cells of seed: one wave of
\* neighbours after the other, at most one wave for each cell.
Connected(seed) ==
  FoldLeft(LAMBDA reached, wave : UNION {{c \in Known : Adjacent(c, d)} : d \in reached},
           seed, [k \in 1 .. Cardinality(Known) |-> k])

BeginVerdict(p, valid) ==
  IF ~valid THEN "invalid_geometry"
  ELSE IF ~InsideMap(Padded, p) THEN "initial_footprint_outside_map"
  ELSE IF \E c \in HardUnknown : Overlaps(Hull, p, c)
       THEN "initial_hull_in_unknown_space"
  ELSE IF \E c \in Contacts(p) :
            \A plane \in ContactPlanes(p) : ~Behind(c, plane)
       THEN "initial_contact_boundary_unresolved"
  ELSE ""

\* begin(): an earlier query is forgotten whatever comes of this one.
Begin(p, valid) ==
  LET verdict == BeginVerdict(p, valid) IN
  /\ reason' = verdict
  /\ begun' = (verdict = "")
  /\ planes' = IF verdict = "" THEN ContactPlanes(p) ELSE {}
  /\ component' = IF verdict = "" THEN Connected(Contacts(p)) ELSE {}
  /\ rawOverlap' = IF verdict = ""
                   THEN {c \in Known : Overlaps(Hull, p, c)} ELSE {}
  /\ pose' = IF valid THEN p ELSE pose
  /\ origin' = IF verdict = "" THEN p ELSE origin
  /\ UNCHANGED map

-----------------------------------------------------------------------------
(* advance() *)

\* Mutant: an unrelated obstacle behind a plane counts as contacted.
InContactMutUnrelated(c) == \E plane \in planes : Behind(c, plane)

\* A cell of the contacted surface, excused from the padded check.
InContact(c) ==
  c \in component /\ \E plane \in planes : Behind(c, plane)

\* A cell of that surface excused from the hull check as well.
Excused(c) ==
  c \in rawOverlap \/ \E plane \in planes : Behind(c, plane) /\ OnBoundary(c, plane)

\* Mutant: unknown space does not stop the hull on its way.
CellRefusesMutUnknown(c, q) ==
  \/ /\ c \in Known /\ InContact(c) /\ ~Excused(c)
     /\ SweepOverlaps(Hull, pose, q, c)
  \/ c \in Known /\ ~InContact(c) /\ SweepOverlaps(Padded, pose, q, c)

CellRefuses(c, q) ==
  \/ c \in HardUnknown /\ SweepOverlaps(Hull, pose, q, c)
  \/ /\ c \in Known /\ InContact(c) /\ ~Excused(c)
     /\ SweepOverlaps(Hull, pose, q, c)
  \/ c \in Known /\ ~InContact(c) /\ SweepOverlaps(Padded, pose, q, c)

\* advanceMotion() up to its last failing check.
MotionVerdict(q) ==
  IF ~(InsideMap(Padded, pose) /\ InsideMap(Padded, q))
  THEN "swept_footprint_outside_map"
  ELSE IF \E plane \in planes :
            \E p \in {pose, q} : Support(Hull, p, plane.normal) < plane.minimum
       THEN "initial_clearance_worsened"
  ELSE IF \E c \in Known \cup HardUnknown : CellRefuses(c, q)
       THEN "sweep_intersection"
  ELSE ""

\* Mutant: a plane is dropped as soon as the hull is clear of it.
RemainingMutHull(q) ==
  {plane \in planes : Support(Hull, q, plane.normal) < plane.boundary}

\* Planes the padded footprint has cleared are dropped for good.
Remaining(q) ==
  {plane \in planes : Support(Padded, q, plane.normal) < plane.boundary}

Advance(d) ==
  LET q == Plus(pose, d)
      verdict == IF begun THEN MotionVerdict(q) ELSE "invalid_motion" IN
  /\ IF verdict = ""
     THEN pose' = q /\ planes' = Remaining(q) /\ UNCHANGED reason
     ELSE reason' = verdict /\ UNCHANGED <<pose, planes>>
  /\ UNCHANGED <<map, begun, component, rawOverlap, origin>>

-----------------------------------------------------------------------------
(* terminalSensingClearance() *)

Gap(k, c) == LET g == Absolute(pose[k] - Center(c)[k]) - Padded[k] - Half
             IN IF g < 0 THEN 0 ELSE g

\* Mutant: the squared distance is compared with the margin itself.
TerminalVerdictMutSquare(margin) ==
  IF ~begun THEN "invalid_terminal_unknown_clearance"
  ELSE IF margin = 0 THEN ""
  ELSE IF Contacts(pose) # {} THEN "terminal_padded_hull_in_obstacle"
  ELSE IF ~InsideMap(<<Padded[1] + margin, Padded[2] + margin>>, pose)
       THEN "terminal_unknown_clearance_outside_map"
  ELSE IF \E c \in Unknown :
            Gap(1, c) * Gap(1, c) + Gap(2, c) * Gap(2, c) < margin
       THEN "terminal_unknown_clearance_violation"
  ELSE ""

TerminalVerdict(margin) ==
  IF ~begun THEN "invalid_terminal_unknown_clearance"
  ELSE IF margin = 0 THEN ""
  ELSE IF Contacts(pose) # {} THEN "terminal_padded_hull_in_obstacle"
  ELSE IF ~InsideMap(<<Padded[1] + margin, Padded[2] + margin>>, pose)
       THEN "terminal_unknown_clearance_outside_map"
  ELSE IF \E c \in Unknown : Gap(1, c) = 0 /\ Gap(2, c) = 0
       THEN "terminal_padded_hull_overlaps_unknown_space"
  ELSE IF \E c \in Unknown :
            Gap(1, c) * Gap(1, c) + Gap(2, c) * Gap(2, c) < margin * margin
       THEN "terminal_unknown_clearance_violation"
  ELSE ""

TerminalSensingClearance(margin) ==
  /\ TerminalVerdict(margin) # ""
  /\ reason' = TerminalVerdict(margin)
  /\ UNCHANGED <<map, pose, begun, planes, component, rawOverlap, origin>>

-----------------------------------------------------------------------------
Init ==
  /\ map \in Maps
  /\ pose = <<0, 0>> /\ origin = <<0, 0>>
  /\ begun = FALSE /\ planes = {} /\ component = {} /\ rawOverlap = {}
  /\ reason = ""

Next ==
  \/ \E p \in Starts, valid \in BOOLEAN : Begin(p, valid)
  \/ \E d \in Directions : Advance(d)
  \/ \E margin \in Margins : TerminalSensingClearance(margin)

Spec == Init /\ [][Next]_vars

-----------------------------------------------------------------------------
(* Properties *)

\* Every variable stays within its type (component is a set of cells by the
\* fold that computes it).
TypeOK ==
  /\ map \in Maps
  /\ pose \in Poses /\ origin \in Poses /\ begun \in BOOLEAN
  /\ planes \subseteq
       [normal : Directions, boundary : Int, minimum : Int]
  /\ rawOverlap \subseteq Known
  /\ reason \in
       {"", "invalid_geometry", "initial_footprint_outside_map",
        "initial_hull_in_unknown_space", "initial_contact_boundary_unresolved",
        "invalid_motion", "swept_footprint_outside_map", "initial_clearance_worsened",
        "sweep_intersection", "invalid_terminal_unknown_clearance",
        "terminal_padded_hull_in_obstacle", "terminal_unknown_clearance_outside_map",
        "terminal_padded_hull_overlaps_unknown_space",
        "terminal_unknown_clearance_violation"}

\* The physical hull is never over a cell of unknown space, wherever the
\* chain of accepted motions has led (hull rule of begin and advance).
HullOutOfUnknown ==
  begun => \A c \in HardUnknown : ~Overlaps(Hull, pose, c)

\* The hull is over an obstacle cell it was not over at begin() only while
\* that cell belongs to the contacted surface of a plane still in force; every
\* other obstacle has refused each motion that reached it.
NewCellsRefused ==
  begun => \A c \in Known \ rawOverlap :
             Overlaps(Hull, pose, c) =>
               c \in component /\ \E plane \in planes : OnBoundary(c, plane)

\* Once every contact plane has been cleared, the whole padded footprint is
\* off every known obstacle and stays so: the relaxed rule of the initial
\* overlap can not be entered again by coming back.
PaddingRestored ==
  begun /\ planes = {} => Contacts(pose) = {}

\* A hull that begins inside an obstacle never gets deeper into it: a cell it
\* began in and is in now lies behind a contact surface it has not sunk
\* further below, whatever planes were dropped and whichever way it came.
OverlapNeverDeepens ==
  begun => \A c \in rawOverlap :
             Overlaps(Hull, pose, c) =>
               \E plane \in ContactPlanes(origin) :
                 /\ Behind(c, plane)
                 /\ Support(Hull, origin, plane.normal) <= Support(Hull, pose, plane.normal)

\* A hull that begins clear of every obstacle stays clear of them ("If the
\* raw hull begins outside the wall, its hard lower bound is the physical
\* boundary", comment of begin()).
ClearHullStaysClear ==
  begun /\ rawOverlap = {} => \A c \in Known : ~Overlaps(Hull, pose, c)

\* An endpoint that passes the terminal sensing check keeps its promise for
\* every pose within the margin of it, in whatever direction: there the padded
\* footprint does not even touch a cell of unknown space.
TerminalEndpointClear ==
  \A margin \in Margins \ {0} :
    TerminalVerdict(margin) = "" =>
      \A d \in (-margin .. margin) \X (-margin .. margin) :
        d[1] * d[1] + d[2] * d[2] < margin * margin =>
          \A c \in Unknown :
            \E k \in {1, 2} :
              Absolute(pose[k] + d[k] - Center(c)[k]) > Padded[k] + Half
=============================================================================
