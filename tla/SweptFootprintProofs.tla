------------------------ MODULE SweptFootprintProofs ------------------------
(***************************************************************************)
(* Proofs about the swept footprint, for a map of any size and content, a  *)
(* hull and a padding of any size, and any chain of calls.                 *)
(***************************************************************************)
EXTENDS SweptFootprint, TLAPS, WellFoundedInduction

-----------------------------------------------------------------------------
(* The outermost face of a direction.                                      *)

\* A set of integers below a bound has a greatest element.
LEMMA GreatestInteger ==
  ASSUME NEW b \in Int, NEW S \in SUBSET Int, S # {}, \A k \in S : k <= b
  PROVE  Max(S) \in S /\ \A k \in S : k <= Max(S)
<1>. DEFINE T == {b - k : k \in S}
<1>1. T \in SUBSET Nat /\ T # {}
  <2>1. \A k \in S : b - k \in Nat
    OBVIOUS
  <2>2. PICK s \in S : TRUE
    OBVIOUS
  <2>3. b - s \in T
    BY <2>2
  <2>. QED  BY <2>1, <2>3
<1>2. PICK m \in T : \A k \in T : ~(<<k, m>> \in OpToRel(<, Nat))
  BY <1>1, NatLessThanWellFounded, WFMin
<1>3. PICK x \in S : m = b - x
  BY <1>2
<1>4. \A k \in S : x >= k
  <2>. SUFFICES ASSUME NEW k \in S  PROVE x >= k
    OBVIOUS
  <2>1. b - k \in T
    OBVIOUS
  <2>2. ~(b - k < b - x)
    BY <1>1, <1>2, <1>3, <2>1 DEF OpToRel
  <2>. QED  BY <2>2
<1>. QED  BY <1>3, <1>4 DEF Max

-----------------------------------------------------------------------------
(* Geometry.                                                               *)

\* The extents of the hull and of the padded footprint.
LEMMA Extents ==
  /\ Hull[1] \in Nat /\ Hull[2] \in Nat
  /\ Padded[1] \in Nat /\ Padded[2] \in Nat
  /\ Hull[1] <= Padded[1] /\ Hull[2] <= Padded[2]
  /\ Half \in Nat /\ Right \in Nat /\ Top \in Nat
  BY GeometryAssumption DEF Hull, Padded, Right, Top

\* The coordinates of a pose and of the centre of a cell are integers.
LEMMA Coordinates ==
  /\ \A p \in Poses : p[1] \in Int /\ p[2] \in Int
  /\ \A c \in Cells : Center(c)[1] \in Int /\ Center(c)[2] \in Int
<1>1. \A p \in Poses : p[1] \in Int /\ p[2] \in Int
  BY Extents DEF Poses
<1>2. ASSUME NEW c \in Cells  PROVE Center(c)[1] \in Int /\ Center(c)[2] \in Int
  <2>1. c[1] \in Int /\ c[2] \in Int
    BY GeometryAssumption DEF Cells
  <2>. QED  BY <2>1, GeometryAssumption DEF Center
<1>. QED  BY <1>1, <1>2

\* Supports and faces are integers.
LEMMA Supports ==
  ASSUME NEW n \in Directions, NEW p \in Poses
  PROVE  /\ Dot(n, p) \in Int
         /\ Support(Hull, p, n) \in Int /\ Support(Padded, p, n) \in Int
         /\ \A c \in Cells : Face(c, n) \in Int
<1>1. n[1] \in Int /\ n[2] \in Int
  BY DEF Directions
<1>2. Dot(n, p) \in Int
  BY <1>1, Coordinates DEF Dot
<1>3. Support(Hull, p, n) \in Int /\ Support(Padded, p, n) \in Int
  BY <1>1, <1>2, Extents DEF Support, Absolute
<1>4. ASSUME NEW c \in Cells  PROVE Face(c, n) \in Int
  BY <1>1, Coordinates, Extents DEF Face, Dot
<1>. QED  BY <1>2, <1>3, <1>4

\* A footprint over a cell reaches below each face of the cell, and what the
\* hull overlaps the padded footprint overlaps.
LEMMA OverlapsReach ==
  ASSUME NEW p \in Poses, NEW c \in Cells
  PROVE  /\ Overlaps(Hull, p, c) => Overlaps(Padded, p, c)
         /\ \A n \in Directions :
              /\ Overlaps(Hull, p, c) => Support(Hull, p, n) < Face(c, n)
              /\ Overlaps(Padded, p, c) => Support(Padded, p, n) < Face(c, n)
<1>. DEFINE x == p[1] - Center(c)[1]
            y == p[2] - Center(c)[2]
<1>1. x \in Int /\ y \in Int
  BY Coordinates
<1>2. \A ext : Overlaps(ext, p, c) <=>
                 Absolute(x) < ext[1] + Half /\ Absolute(y) < ext[2] + Half
  BY DEF Overlaps
<1>3. Overlaps(Hull, p, c) => Overlaps(Padded, p, c)
  BY <1>1, <1>2, Extents DEF Absolute
<1>4. ASSUME NEW n \in Directions,
             NEW ext, ext[1] \in Nat, ext[2] \in Nat, Overlaps(ext, p, c)
      PROVE  Support(ext, p, n) < Face(c, n)
  <2>1. Absolute(x) < ext[1] + Half /\ Absolute(y) < ext[2] + Half
    BY <1>2, <1>4
  <2>2. -ext[1] - Half < x /\ x < ext[1] + Half /\ -ext[2] - Half < y /\ y < ext[2] + Half
    BY <2>1, <1>1, <1>4, Extents DEF Absolute
  <2>3. CASE n = <<1, 0>>
    BY <2>2, <2>3, <1>4, Coordinates, Extents DEF Support, Face, Dot, Absolute
  <2>4. CASE n = <<-1, 0>>
    BY <2>2, <2>4, <1>4, Coordinates, Extents DEF Support, Face, Dot, Absolute
  <2>5. CASE n = <<0, 1>>
    BY <2>2, <2>5, <1>4, Coordinates, Extents DEF Support, Face, Dot, Absolute
  <2>6. CASE n = <<0, -1>>
    BY <2>2, <2>6, <1>4, Coordinates, Extents DEF Support, Face, Dot, Absolute
  <2>. QED  BY <2>3, <2>4, <2>5, <2>6 DEF Directions
<1>. QED  BY <1>3, <1>4, Extents

\* What a contact plane of a pose is.
LEMMA PlanesOfContact ==
  ASSUME NEW p \in Poses, NEW plane \in ContactPlanes(p)
  PROVE  /\ plane \in [normal : Directions, boundary : Int, minimum : Int]
         /\ plane.minimum = Least(Support(Hull, p, plane.normal), plane.boundary)
<1>1. PICK n \in Directions :
        /\ Faces(p, n) # {}
        /\ plane = [normal |-> n, boundary |-> Max(Faces(p, n)),
                    minimum |-> Least(Support(Hull, p, n), Max(Faces(p, n)))]
  BY DEF ContactPlanes
<1>2. Contacts(p) \subseteq Cells
  BY DEF Contacts, Known
<1>3. \A f \in Faces(p, n) : f \in Int /\ f <= Dot(n, p)
  BY <1>2, Supports DEF Faces
<1>4. Max(Faces(p, n)) \in Int
  BY <1>1, <1>3, GreatestInteger, Supports
<1>5. Least(Support(Hull, p, n), Max(Faces(p, n))) \in Int
  BY <1>4, Supports DEF Least
<1>. QED  BY <1>1, <1>4, <1>5

-----------------------------------------------------------------------------
(* Invariants.                                                             *)

\* While a query runs, its planes are contact planes of the pose it began
\* with, and the hull is at none of them below the support it protects.
PlanesHold ==
  begun =>
    /\ planes \subseteq ContactPlanes(origin)
    /\ \A plane \in planes : Support(Hull, pose, plane.normal) >= plane.minimum

\* While a query runs, it remembers the cells the hull began over.
OverlapKept ==
  begun => rawOverlap = {c \in Known : Overlaps(Hull, origin, c)}

IInv == TypeOK /\ PlanesHold /\ OverlapKept

\* An accepted motion: what the checks of advance() leave.
LEMMA Accepted ==
  ASSUME NEW d \in Directions, TypeOK, Advance(d), pose' # pose
  PROVE  /\ begun /\ pose' \in Poses /\ planes' = Remaining(pose')
         /\ \A plane \in planes : ~(Support(Hull, pose', plane.normal) < plane.minimum)
         /\ \A c \in Known \cup HardUnknown : ~CellRefuses(c, pose')
<1>. DEFINE q == Plus(pose, d)
<1>1. /\ begun /\ MotionVerdict(q) = ""
      /\ pose' = q /\ planes' = Remaining(q)
  BY DEF Advance
<1>2. /\ InsideMap(Padded, q)
      /\ \A plane \in planes : ~(Support(Hull, q, plane.normal) < plane.minimum)
      /\ \A c \in Known \cup HardUnknown : ~CellRefuses(c, q)
  BY <1>1 DEF MotionVerdict
<1>3. q[1] \in Int /\ q[2] \in Int /\ q = <<q[1], q[2]>>
  <2>1. pose \in Poses
    BY DEF TypeOK
  <2>. QED  BY <2>1, Coordinates DEF Plus, Directions
<1>4. q[1] \in 0..Right /\ q[2] \in 0..Top
  BY <1>2, <1>3, Extents DEF InsideMap
<1>5. q \in Poses
  BY <1>3, <1>4 DEF Poses
<1>. QED  BY <1>1, <1>2, <1>5

\* A motion that is not accepted, and one that changes nothing.
LEMMA Refused ==
  ASSUME NEW d \in Directions, TypeOK, Advance(d), pose' = pose
  PROVE  planes' = planes
<1>1. pose[1] \in Int /\ pose[2] \in Int
  BY Coordinates DEF TypeOK
<1>2. pose # Plus(pose, d)
  BY <1>1 DEF Plus, Directions
<1>. QED  BY <1>2 DEF Advance

-----------------------------------------------------------------------------
(* The inductive invariant.                                                *)

\* A motion gives one of its reasons, or none.
LEMMA ReasonTyped ==
  ASSUME NEW d \in Directions, Advance(d)
  PROVE  \/ reason' = reason
         \/ reason' \in {"invalid_motion", "swept_footprint_outside_map",
                         "initial_clearance_worsened", "sweep_intersection"}
  BY DEF Advance, MotionVerdict

\* A query that begins starts from its own contact planes.
LEMMA BeginPreserves ==
  ASSUME NEW p \in Starts, NEW valid \in BOOLEAN, IInv, Begin(p, valid)
  PROVE  IInv'
<1>1. p \in Poses
  BY GeometryAssumption
<1>2. map' = map
  BY DEF Begin
<1>3. TypeOK'
  <2>1. /\ map' \in Maps /\ pose' \in Poses /\ origin' \in Poses /\ begun' \in BOOLEAN
        /\ rawOverlap' \subseteq Known'
    BY <1>1, <1>2 DEF IInv, TypeOK, Begin, Known
  <2>2. planes' \subseteq [normal : Directions, boundary : Int, minimum : Int]
    <3>1. ContactPlanes(p) \subseteq [normal : Directions, boundary : Int, minimum : Int]
      BY <1>1, PlanesOfContact
    <3>. QED  BY <3>1 DEF Begin
  <2>3. reason' \in {"", "invalid_geometry", "initial_footprint_outside_map",
                     "initial_hull_in_unknown_space",
                     "initial_contact_boundary_unresolved"}
    BY DEF Begin, BeginVerdict
  <2>. QED  BY <2>1, <2>2, <2>3 DEF TypeOK
<1>4. CASE ~begun'
  BY <1>3, <1>4 DEF IInv, PlanesHold, OverlapKept
<1>5. CASE begun'
  <2>1. /\ pose' = p /\ origin' = p /\ planes' = ContactPlanes(p)
        /\ rawOverlap' = {c \in Known : Overlaps(Hull, p, c)}
    BY <1>5 DEF Begin, BeginVerdict
  <2>2. ContactPlanes(p)' = ContactPlanes(p) /\ Known' = Known
    BY <1>2 DEF ContactPlanes, Faces, Contacts, Known, ObservedFree
  <2>3. \A plane \in ContactPlanes(p) : Support(Hull, p, plane.normal) >= plane.minimum
    <3>. SUFFICES ASSUME NEW plane \in ContactPlanes(p)
                  PROVE  Support(Hull, p, plane.normal) >= plane.minimum
      OBVIOUS
    <3>1. plane \in [normal : Directions, boundary : Int, minimum : Int]
      BY <1>1, PlanesOfContact
    <3>2. Support(Hull, p, plane.normal) \in Int
      BY <1>1, <3>1, Supports
    <3>. QED  BY <1>1, <3>1, <3>2, PlanesOfContact DEF Least
  <2>4. PlanesHold'
    BY <2>1, <2>2, <2>3 DEF PlanesHold, ContactPlanes, Faces, Contacts, Known, ObservedFree
  <2>5. OverlapKept'
    BY <2>1, <2>2 DEF OverlapKept, Known
  <2>. QED  BY <1>3, <2>4, <2>5 DEF IInv
<1>. QED  BY <1>4, <1>5

\* An accepted motion has kept the support of every plane, a refused one has
\* moved nothing.
LEMMA AdvancePreserves ==
  ASSUME NEW d \in Directions, IInv, Advance(d)
  PROVE  IInv'
<1>1. map' = map /\ begun' = begun /\ rawOverlap' = rawOverlap /\ origin' = origin
  BY DEF Advance
<1>2. Known' = Known /\ ContactPlanes(origin)' = ContactPlanes(origin)
  BY <1>1 DEF ContactPlanes, Faces, Contacts, Known, ObservedFree
<1>3. OverlapKept'
  BY <1>1, <1>2 DEF IInv, OverlapKept
<1>4. CASE pose' = pose
  <2>1. planes' = planes
    BY <1>4, Refused DEF IInv
  <2>2. PlanesHold'
    BY <1>1, <1>2, <1>4, <2>1 DEF IInv, PlanesHold
  <2>. QED  BY <1>1, <1>2, <1>3, <1>4, <2>1, <2>2, ReasonTyped DEF IInv, TypeOK
<1>5. CASE pose' # pose
  <2>1. /\ begun /\ pose' \in Poses /\ planes' \subseteq planes
        /\ \A plane \in planes : ~(Support(Hull, pose', plane.normal) < plane.minimum)
    BY <1>5, Accepted DEF IInv, Remaining
  <2>2. planes \subseteq ContactPlanes(origin) /\ origin \in Poses
    BY <2>1 DEF IInv, PlanesHold, TypeOK
  <2>3. \A plane \in planes' : Support(Hull, pose', plane.normal) >= plane.minimum
    <3>. SUFFICES ASSUME NEW plane \in planes'
                  PROVE  Support(Hull, pose', plane.normal) >= plane.minimum
      OBVIOUS
    <3>1. plane.normal \in Directions /\ plane.minimum \in Int
      BY <2>1, <2>2, PlanesOfContact
    <3>2. Support(Hull, pose', plane.normal) \in Int
      BY <2>1, <3>1, Supports
    <3>. QED  BY <2>1, <3>1, <3>2
  <2>4. PlanesHold'
    BY <1>1, <1>2, <2>1, <2>2, <2>3 DEF PlanesHold
  <2>5. TypeOK'
    BY <1>1, <1>2, <2>1, ReasonTyped DEF IInv, TypeOK
  <2>. QED  BY <1>3, <2>4, <2>5 DEF IInv
<1>. QED  BY <1>4, <1>5

\* The terminal check changes only the reason.
LEMMA TerminalPreserves ==
  ASSUME NEW margin \in Margins, IInv, TerminalSensingClearance(margin)
  PROVE  IInv'
<1>1. reason' \in {"invalid_terminal_unknown_clearance", "terminal_padded_hull_in_obstacle",
                   "terminal_unknown_clearance_outside_map",
                   "terminal_padded_hull_overlaps_unknown_space",
                   "terminal_unknown_clearance_violation"}
  BY DEF TerminalSensingClearance, TerminalVerdict
<1>2. UNCHANGED <<map, pose, begun, planes, rawOverlap, origin>>
  BY DEF TerminalSensingClearance
<1>3. TypeOK'
  BY <1>1, <1>2 DEF IInv, TypeOK, Known
<1>4. PlanesHold' /\ OverlapKept'
  BY <1>2 DEF IInv, PlanesHold, OverlapKept, ContactPlanes, Faces, Contacts, Known,
              ObservedFree
<1>. QED  BY <1>3, <1>4 DEF IInv

\* The invariant of the queries holds initially, and every call keeps it.
LEMMA IInvHolds == Init => IInv
<1>. SUFFICES ASSUME Init  PROVE IInv
  OBVIOUS
<1>1. <<0, 0>> \in Poses
  BY Extents DEF Poses
<1>2. TypeOK
  BY <1>1 DEF Init, TypeOK
<1>3. PlanesHold /\ OverlapKept
  BY DEF Init, PlanesHold, OverlapKept
<1>. QED  BY <1>2, <1>3 DEF IInv

LEMMA IInvKept == IInv /\ [Next]_vars => IInv'
<1>. SUFFICES ASSUME IInv, [Next]_vars  PROVE IInv'
  OBVIOUS
<1>1. CASE UNCHANGED vars
  <2>1. TypeOK'
    BY <1>1 DEF vars, IInv, TypeOK, Known
  <2>2. PlanesHold' /\ OverlapKept'
    BY <1>1 DEF vars, IInv, PlanesHold, OverlapKept, ContactPlanes, Faces, Contacts,
                Known, ObservedFree
  <2>. QED  BY <2>1, <2>2 DEF IInv
<1>2. ASSUME NEW p \in Starts, NEW valid \in BOOLEAN, Begin(p, valid)  PROVE IInv'
  BY <1>2, BeginPreserves
<1>3. ASSUME NEW d \in Directions, Advance(d)  PROVE IInv'
  BY <1>3, AdvancePreserves
<1>4. ASSUME NEW margin \in Margins, TerminalSensingClearance(margin)  PROVE IInv'
  BY <1>4, TerminalPreserves
<1>. QED  BY <1>1, <1>2, <1>3, <1>4 DEF Next

\* The invariant of a running query: its planes are contact planes of the pose
\* it began with and keep what they protect, and it remembers the first overlap.
THEOREM InductiveInvariant == Spec => []IInv
  BY IInvHolds, IInvKept, PTL DEF Spec

\* The variables keep their types (TypeOK), as part of that invariant.
THEOREM TypeCorrect == Spec => []TypeOK
<1>1. IInv => TypeOK
  BY DEF IInv
<1>. QED  BY <1>1, InductiveInvariant, PTL

-----------------------------------------------------------------------------
(* What a query promises.                                                  *)

\* A refused motion and the terminal check leave alone what the properties of
\* a query speak of.
Quiet == UNCHANGED <<map, pose, begun, planes, component, rawOverlap, origin>>

\* A step is a begin(), an accepted motion, or changes at most the reason.
LEMMA Steps ==
  ASSUME IInv, [Next]_vars
  PROVE  \/ \E p \in Starts, valid \in BOOLEAN : Begin(p, valid)
         \/ \E d \in Directions : Advance(d) /\ pose' # pose
         \/ Quiet
<1>1. CASE UNCHANGED vars
  BY <1>1 DEF vars, Quiet
<1>2. ASSUME NEW d \in Directions, Advance(d), pose' = pose  PROVE Quiet
  <2>1. planes' = planes
    BY <1>2, Refused DEF IInv
  <2>. QED  BY <1>2, <2>1 DEF Advance, Quiet
<1>3. ASSUME NEW margin \in Margins, TerminalSensingClearance(margin)  PROVE Quiet
  BY <1>3 DEF TerminalSensingClearance, Quiet
<1>. QED  BY <1>1, <1>2, <1>3 DEF Next

\* A query that begins: the pose, the planes, and what the verdict excludes.
LEMMA Begun ==
  ASSUME NEW p \in Starts, NEW valid \in BOOLEAN, Begin(p, valid), begun'
  PROVE  /\ map' = map /\ pose' = p /\ origin' = p /\ planes' = ContactPlanes(p)
         /\ rawOverlap' = {c \in Known : Overlaps(Hull, p, c)}
         /\ \A c \in HardUnknown : ~Overlaps(Hull, p, c)
         /\ \A c \in Contacts(p) : \E plane \in ContactPlanes(p) : Behind(c, plane)
  BY DEF Begin, BeginVerdict

\* After an accepted motion, an obstacle under the padded footprint belongs to
\* the contacted surface; one under the hull is excused as well.
LEMMA AcceptedContact ==
  ASSUME IInv, NEW d \in Directions, Advance(d), pose' # pose,
         NEW c \in Known, Overlaps(Padded, pose', c)
  PROVE  /\ InContact(c)
         /\ Overlaps(Hull, pose', c) => Excused(c)
  BY Accepted DEF IInv, CellRefuses, SweepOverlaps

\* A plane behind which a cell under the padded footprint lies stays in force.
LEMMA PlaneRemains ==
  ASSUME IInv, NEW q \in Poses, NEW c \in Known, Overlaps(Padded, q, c), begun,
         NEW plane \in planes, Behind(c, plane)
  PROVE  plane \in Remaining(q)
<1>1. plane.normal \in Directions /\ plane.boundary \in Int
  BY PlanesOfContact DEF IInv, PlanesHold, TypeOK
<1>2. c \in Cells
  BY DEF Known
<1>3. Support(Padded, q, plane.normal) < Face(c, plane.normal)
  BY <1>1, <1>2, OverlapsReach
<1>4. Support(Padded, q, plane.normal) \in Int /\ Face(c, plane.normal) \in Int
  BY <1>1, <1>2, Supports
<1>5. Support(Padded, q, plane.normal) < plane.boundary
  BY <1>1, <1>3, <1>4 DEF Behind
<1>. QED  BY <1>5 DEF Remaining

\* The hull never gets over unknown space (HullOutOfUnknown): begin() looks at
\* every hard cell under the hull, advance() at every one the motion reaches.
THEOREM UnknownStaysClear == Spec => []HullOutOfUnknown
<1>1. Init => HullOutOfUnknown
  BY DEF Init, HullOutOfUnknown
<1>2. IInv /\ HullOutOfUnknown /\ [Next]_vars => HullOutOfUnknown'
  <2>. SUFFICES ASSUME IInv, HullOutOfUnknown, [Next]_vars  PROVE HullOutOfUnknown'
    OBVIOUS
  <2>1. ASSUME NEW p \in Starts, NEW valid \in BOOLEAN, Begin(p, valid)
        PROVE  HullOutOfUnknown'
    BY <2>1, Begun DEF HullOutOfUnknown, HardUnknown, Unknown
  <2>2. ASSUME NEW d \in Directions, Advance(d), pose' # pose
        PROVE  HullOutOfUnknown'
    <3>1. HardUnknown' = HardUnknown
      BY <2>2 DEF Advance, HardUnknown, Unknown
    <3>2. \A c \in HardUnknown : ~Overlaps(Hull, pose', c)
      BY <2>2, Accepted DEF IInv, CellRefuses, SweepOverlaps
    <3>. QED  BY <3>1, <3>2 DEF HullOutOfUnknown
  <2>3. CASE Quiet
    BY <2>3 DEF Quiet, HullOutOfUnknown, HardUnknown, Unknown
  <2>. QED  BY <2>1, <2>2, <2>3, Steps
<1>. QED  BY <1>1, <1>2, InductiveInvariant, PTL DEF Spec

\* The hull is over an obstacle it did not begin over only in the contacted
\* surface of a plane in force (NewCellsRefused): any other obstacle refuses.
THEOREM NewCellsAlwaysRefused == Spec => []NewCellsRefused
<1>1. Init => NewCellsRefused
  BY DEF Init, NewCellsRefused
<1>2. IInv /\ NewCellsRefused /\ [Next]_vars => NewCellsRefused'
  <2>. SUFFICES ASSUME IInv, NewCellsRefused, [Next]_vars  PROVE NewCellsRefused'
    OBVIOUS
  <2>1. ASSUME NEW p \in Starts, NEW valid \in BOOLEAN, Begin(p, valid)
        PROVE  NewCellsRefused'
    BY <2>1, Begun DEF NewCellsRefused, Known
  <2>2. ASSUME NEW d \in Directions, Advance(d), pose' # pose
        PROVE  NewCellsRefused'
    <3>1. /\ map' = map /\ component' = component /\ rawOverlap' = rawOverlap
          /\ begun /\ pose' \in Poses /\ planes' = Remaining(pose')
      BY <2>2, Accepted DEF Advance, IInv
    <3>2. Known' = Known
      BY <3>1 DEF Known
    <3>3. ASSUME NEW c \in Known, c \notin rawOverlap, Overlaps(Hull, pose', c)
          PROVE  c \in component /\ \E plane \in planes' : OnBoundary(c, plane)
      <4>1. Overlaps(Padded, pose', c)
        BY <3>1, <3>3, OverlapsReach DEF Known
      <4>2. InContact(c) /\ Excused(c)
        BY <2>2, <3>3, <4>1, AcceptedContact
      <4>3. PICK plane \in planes : Behind(c, plane) /\ OnBoundary(c, plane)
        BY <3>3, <4>2 DEF Excused
      <4>4. plane \in planes'
        BY <3>1, <4>1, <4>3, PlaneRemains
      <4>. QED  BY <4>2, <4>3, <4>4 DEF InContact
    <3>. QED  BY <3>1, <3>2, <3>3 DEF NewCellsRefused, OnBoundary, ObservedFree
  <2>3. CASE Quiet
    BY <2>3 DEF Quiet, NewCellsRefused, Known, OnBoundary, ObservedFree
  <2>. QED  BY <2>1, <2>2, <2>3, Steps
<1>. QED  BY <1>1, <1>2, InductiveInvariant, PTL DEF Spec

\* Without a plane in force the padded footprint is clear (PaddingRestored):
\* an obstacle under it keeps the plane it lies behind in force.
THEOREM PaddingAlwaysRestored == Spec => []PaddingRestored
<1>1. Init => PaddingRestored
  BY DEF Init, PaddingRestored
<1>2. IInv /\ PaddingRestored /\ [Next]_vars => PaddingRestored'
  <2>. SUFFICES ASSUME IInv, PaddingRestored, [Next]_vars  PROVE PaddingRestored'
    OBVIOUS
  <2>1. ASSUME NEW p \in Starts, NEW valid \in BOOLEAN, Begin(p, valid)
        PROVE  PaddingRestored'
    BY <2>1, Begun DEF PaddingRestored, Contacts, Known
  <2>2. ASSUME NEW d \in Directions, Advance(d), pose' # pose
        PROVE  PaddingRestored'
    <3>1. /\ map' = map /\ begun /\ pose' \in Poses /\ planes' = Remaining(pose')
      BY <2>2, Accepted DEF Advance, IInv
    <3>2. ASSUME NEW c \in Known, Overlaps(Padded, pose', c)
          PROVE  planes' # {}
      <4>1. PICK plane \in planes : Behind(c, plane)
        BY <2>2, <3>2, AcceptedContact DEF InContact
      <4>. QED  BY <3>1, <3>2, <4>1, PlaneRemains
    <3>. QED  BY <3>1, <3>2 DEF PaddingRestored, Contacts, Known
  <2>3. CASE Quiet
    BY <2>3 DEF Quiet, PaddingRestored, Contacts, Known
  <2>. QED  BY <2>1, <2>2, <2>3, Steps
<1>. QED  BY <1>1, <1>2, InductiveInvariant, PTL DEF Spec

\* A cell the hull began over and is over lies behind a surface below which
\* the hull has not sunk further (OverlapNeverDeepens): the plane that
\* excused the motion protects the support of the pose the query began with.
THEOREM OverlapStaysShallow == Spec => []OverlapNeverDeepens
<1>1. Init => OverlapNeverDeepens
  BY DEF Init, OverlapNeverDeepens
<1>2. IInv /\ OverlapNeverDeepens /\ [Next]_vars => OverlapNeverDeepens'
  <2>. SUFFICES ASSUME IInv, OverlapNeverDeepens, [Next]_vars
                PROVE  OverlapNeverDeepens'
    OBVIOUS
  <2>1. ASSUME NEW p \in Starts, NEW valid \in BOOLEAN, Begin(p, valid), begun'
        PROVE  OverlapNeverDeepens'
    <3>1. p \in Poses
      BY GeometryAssumption
    <3>2. /\ map' = map /\ pose' = p /\ origin' = p
          /\ rawOverlap' = {c \in Known : Overlaps(Hull, p, c)}
      BY <2>1, Begun
    <3>3. ContactPlanes(p)' = ContactPlanes(p)
      BY <3>2 DEF ContactPlanes, Faces, Contacts, Known, ObservedFree
    <3>4. ASSUME NEW c \in rawOverlap'
          PROVE  \E plane \in ContactPlanes(p) :
                   /\ Behind(c, plane)
                   /\ Support(Hull, p, plane.normal) <= Support(Hull, p, plane.normal)
      <4>1. c \in Contacts(p)
        BY <3>1, <3>2, OverlapsReach DEF Contacts, Known
      <4>2. PICK plane \in ContactPlanes(p) : Behind(c, plane)
        BY <2>1, <4>1, Begun
      <4>3. Support(Hull, p, plane.normal) \in Int
        BY <3>1, PlanesOfContact, Supports
      <4>. QED  BY <4>2, <4>3
    <3>. QED  BY <3>2, <3>3, <3>4 DEF OverlapNeverDeepens, ContactPlanes, Faces,
                                      Contacts, Known, ObservedFree
  <2>2. ASSUME NEW d \in Directions, Advance(d), pose' # pose
        PROVE  OverlapNeverDeepens'
    <3>1. /\ map' = map /\ begun /\ pose' \in Poses
          /\ origin' = origin /\ rawOverlap' = rawOverlap
          /\ \A plane \in planes : ~(Support(Hull, pose', plane.normal) < plane.minimum)
      BY <2>2, Accepted DEF Advance, IInv
    <3>2. ContactPlanes(origin)' = ContactPlanes(origin)
      BY <3>1 DEF ContactPlanes, Faces, Contacts, Known, ObservedFree
    <3>3. origin \in Poses /\ planes \subseteq ContactPlanes(origin)
      BY <3>1 DEF IInv, TypeOK, PlanesHold
    <3>4. ASSUME NEW c \in rawOverlap, Overlaps(Hull, pose', c)
          PROVE  \E plane \in ContactPlanes(origin) :
                   /\ Behind(c, plane)
                   /\ Support(Hull, origin, plane.normal)
                        <= Support(Hull, pose', plane.normal)
      <4>1. c \in Known /\ c \in Cells /\ Overlaps(Hull, origin, c)
        BY <3>1 DEF IInv, OverlapKept, Known
      <4>2. Overlaps(Padded, pose', c)
        BY <3>1, <3>4, <4>1, OverlapsReach
      <4>3. PICK plane \in planes : Behind(c, plane)
        BY <2>2, <4>1, <4>2, AcceptedContact DEF InContact
      <4>4. /\ plane.normal \in Directions
            /\ plane.boundary \in Int /\ plane.minimum \in Int
            /\ plane.minimum = Least(Support(Hull, origin, plane.normal), plane.boundary)
        BY <3>3, PlanesOfContact
      <4>5. /\ Support(Hull, origin, plane.normal) \in Int
            /\ Support(Hull, pose', plane.normal) \in Int
            /\ Face(c, plane.normal) \in Int
        BY <3>1, <3>3, <4>1, <4>4, Supports
      <4>6. Support(Hull, origin, plane.normal) < Face(c, plane.normal)
        BY <3>3, <4>1, <4>4, OverlapsReach
      <4>7. plane.minimum = Support(Hull, origin, plane.normal)
        BY <4>3, <4>4, <4>5, <4>6 DEF Behind, Least
      <4>8. ~(Support(Hull, pose', plane.normal) < plane.minimum)
        BY <3>1
      <4>. QED  BY <3>3, <4>3, <4>4, <4>5, <4>7, <4>8
    <3>. QED  BY <3>1, <3>2, <3>4 DEF OverlapNeverDeepens
  <2>3. CASE Quiet
    BY <2>3 DEF Quiet, OverlapNeverDeepens, ContactPlanes, Faces, Contacts, Known,
                ObservedFree
  <2>4. CASE ~begun'
    BY <2>4 DEF OverlapNeverDeepens
  <2>. QED  BY <2>1, <2>2, <2>3, <2>4, Steps
<1>. QED  BY <1>1, <1>2, InductiveInvariant, PTL DEF Spec

-----------------------------------------------------------------------------
(* The terminal sensing check.                                             *)

\* The square of a natural number grows with it.
LEMMA SquareGrows ==
  ASSUME NEW a \in Nat, NEW b \in Nat, a <= b
  PROVE  a * a <= b * b
<1>1. a * a <= a * b
  BY Z3
<1>2. a * b <= b * b
  BY Z3
<1>. QED  BY <1>1, <1>2

\* Two squares are below a third when larger ones are.
LEMMA SquaresBelow ==
  ASSUME NEW a \in Nat, NEW b \in Nat, NEW x \in Int, NEW y \in Int, NEW m \in Nat,
         a * a <= x * x, b * b <= y * y, x * x + y * y < m * m
  PROVE  a * a + b * b < m * m
  BY Z3

\* The displacements within a margin.
LEMMA Displacements ==
  ASSUME NEW m \in Nat, NEW d \in (-m .. m) \X (-m .. m)
  PROVE  d[1] \in Int /\ d[2] \in Int
<1>1. -m .. m \subseteq Int
  OBVIOUS
<1>2. d[1] \in -m .. m /\ d[2] \in -m .. m
  <2>. DEFINE I == -m .. m
  <2>1. d \in I \X I
    OBVIOUS
  <2>. HIDE DEF I
  <2>2. d[1] \in I /\ d[2] \in I
    BY <2>1
  <2>. QED  BY <2>2 DEF I
<1>. QED  BY <1>1, <1>2

\* A displacement that closes the gap between the padded footprint and a cell
\* along an axis is at least as long as the gap.
LEMMA GapIsReached ==
  ASSUME NEW k \in {1, 2}, NEW c \in Cells, pose \in Poses, NEW e \in Int,
         ~(Absolute(pose[k] + e - Center(c)[k]) > Padded[k] + Half)
  PROVE  Gap(k, c) \in Nat /\ Gap(k, c) * Gap(k, c) <= e * e
<1>1. PICK x \in Int, y \in Int, b \in Nat :
        x = pose[k] /\ y = Center(c)[k] /\ b = Padded[k]
  <2>1. CASE k = 1
    BY <2>1, Coordinates, Extents
  <2>2. CASE k = 2
    BY <2>2, Coordinates, Extents
  <2>. QED  BY <2>1, <2>2
<1>2. ~(Absolute(x + e - y) > b + Half) /\ Half \in Nat
  BY <1>1, Extents
<1>3. Gap(k, c) = IF Absolute(x - y) - b - Half < 0 THEN 0 ELSE Absolute(x - y) - b - Half
  BY <1>1 DEF Gap
<1>4. Gap(k, c) \in Nat /\ Absolute(e) \in Nat /\ Gap(k, c) <= Absolute(e)
  BY <1>2, <1>3 DEF Absolute
<1>5. Gap(k, c) * Gap(k, c) <= Absolute(e) * Absolute(e)
  BY <1>4, SquareGrows
<1>6. Absolute(e) * Absolute(e) = e * e
  <2>1. CASE e < 0
    BY <2>1, Z3 DEF Absolute
  <2>2. CASE ~(e < 0)
    BY <2>2 DEF Absolute
  <2>. QED  BY <2>1, <2>2
<1>. QED  BY <1>4, <1>5, <1>6

\* An endpoint that passes the terminal check is clear of unknown space for
\* every pose within the margin (TerminalEndpointClear): a displacement that
\* reached a cell would be as long as both gaps, whose squares the verdict
\* has compared with that of the margin.
THEOREM TerminalEndpointStaysClear == Spec => []TerminalEndpointClear
<1>1. TypeOK => TerminalEndpointClear
  <2>. SUFFICES ASSUME TypeOK,
                       NEW margin \in Margins \ {0}, TerminalVerdict(margin) = "",
                       NEW d \in (-margin .. margin) \X (-margin .. margin),
                       d[1] * d[1] + d[2] * d[2] < margin * margin,
                       NEW c \in Unknown,
                       \A k \in {1, 2} :
                         ~(Absolute(pose[k] + d[k] - Center(c)[k]) > Padded[k] + Half)
                PROVE  FALSE
    BY DEF TerminalEndpointClear
  <2>1. pose \in Poses /\ c \in Cells
    BY DEF TypeOK, Unknown
  <2>2. margin \in Nat /\ margin # 0
    BY GeometryAssumption
  <2>3. d[1] \in Int /\ d[2] \in Int
    BY <2>2, Displacements
  <2>4. ~(Gap(1, c) * Gap(1, c) + Gap(2, c) * Gap(2, c) < margin * margin)
    BY <2>2 DEF TerminalVerdict
  <2>5. Gap(1, c) \in Nat /\ Gap(1, c) * Gap(1, c) <= d[1] * d[1]
    BY <2>1, <2>3, GapIsReached
  <2>6. Gap(2, c) \in Nat /\ Gap(2, c) * Gap(2, c) <= d[2] * d[2]
    BY <2>1, <2>3, GapIsReached
  <2>7. PICK a \in Nat, b \in Nat, x \in Int, y \in Int :
          a = Gap(1, c) /\ b = Gap(2, c) /\ x = d[1] /\ y = d[2]
    BY <2>3, <2>5, <2>6
  <2>8. a * a + b * b < margin * margin
    <3>1. a * a <= x * x /\ b * b <= y * y /\ x * x + y * y < margin * margin
      BY <2>5, <2>6, <2>7
    <3>. QED  BY <2>2, <3>1, SquaresBelow
  <2>. QED  BY <2>4, <2>7, <2>8
<1>. QED  BY <1>1, TypeCorrect, PTL
=============================================================================
