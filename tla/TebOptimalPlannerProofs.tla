----------------------- MODULE TebOptimalPlannerProofs -----------------------
(***************************************************************************)
(* Proofs about TebOptimalPlanner, for every configuration, plan, obstacle *)
(* and via-point: the operations on the band keep n poses and n - 1 time   *)
(* differences, whatever the resizing, the pruning, the seeds and the      *)
(* solvers do, and the graph always has the vertices of the band.  What    *)
(* is answered can be executed, the seed of a robot that surges and turns  *)
(* is always feasible, and replanning keeps the turn.                      *)
(***************************************************************************)
EXTENDS TebOptimalPlanner, TLAPS, SequenceTheorems, FiniteSetTheorems, WellFoundedInduction

-----------------------------------------------------------------------------
(* Values computed one from the other.                                     *)

\* A set of natural numbers has a least element.
LEMMA LeastNatural ==
  ASSUME NEW S \in SUBSET Nat, S # {}
  PROVE  \E m \in S : \A k \in S : m <= k
<1>1. PICK m \in S : \A k \in S : ~(<<k, m>> \in OpToRel(<, Nat))
  BY NatLessThanWellFounded, WFMin
<1>2. ASSUME NEW k \in S  PROVE m <= k
  <2>1. ~(k < m)
    BY <1>1 DEF OpToRel
  <2>. QED  BY <2>1
<1>. QED  BY <1>2

\* A set that contains the first number of an interval, and with a number the
\* next, is the whole interval.
LEMMA IntervalInduction ==
  ASSUME NEW n \in Nat, NEW P \in SUBSET (0 .. n), 0 \in P,
         \A k \in 1 .. n : k - 1 \in P => k \in P
  PROVE  P = 0 .. n
<1>. DEFINE T == (0 .. n) \ P
<1>1. SUFFICES ASSUME T # {}  PROVE FALSE
  BY <1>1
<1>2. PICK m \in T : \A k \in T : m <= k
  <2>1. T \in SUBSET Nat
    OBVIOUS
  <2>. QED  BY <1>1, <2>1, LeastNatural
<1>3. m \in 1 .. n /\ m - 1 \in 0 .. n
  BY <1>2
<1>4. m - 1 \in P
  BY <1>2, <1>3
<1>. QED  BY <1>2, <1>3, <1>4

\* Values computed one from the other by a function.
Chain(g, n, base, step) ==
  /\ g[0] = base
  /\ \A k \in 1 .. n : g[k] = step[<<k, g[k - 1]>>]

\* Such a chain exists, of any length.
LEMMA Recursion ==
  ASSUME NEW S, NEW n \in Nat, NEW base \in S, NEW step \in [(1 .. n) \X S -> S]
  PROVE  \E g \in [0 .. n -> S] : Chain(g, n, base, step)
<1>. DEFINE P == {m \in 0 .. n : \E g \in [0 .. m -> S] : Chain(g, m, base, step)}
<1>1. 0 \in P
  <2>. DEFINE g == [k \in 0 .. 0 |-> base]
  <2>1. g \in [0 .. 0 -> S] /\ Chain(g, 0, base, step)
    BY DEF Chain
  <2>. QED  BY <2>1
<1>2. ASSUME NEW m \in 1 .. n, m - 1 \in P  PROVE m \in P
  <2>2. PICK h \in [0 .. m - 1 -> S] : Chain(h, m - 1, base, step)
    BY <1>2
  <2>. DEFINE g == [k \in 0 .. m |-> IF k = m THEN step[<<m, h[m - 1]>>] ELSE h[k]]
  <2>3. h[m - 1] \in S /\ <<m, h[m - 1]>> \in (1 .. n) \X S
    OBVIOUS
  <2>5. g \in [0 .. m -> S]
    BY <2>3
  <2>6. g[0] = base
    BY <2>2 DEF Chain
  <2>7. ASSUME NEW k \in 1 .. m  PROVE g[k] = step[<<k, g[k - 1]>>]
    <3>1. k - 1 \in 0 .. m /\ k - 1 # m /\ k - 1 \in 0 .. m - 1
      OBVIOUS
    <3>2. g[k - 1] = h[k - 1]
      BY <3>1
    <3>3. CASE k = m
      <4>1. g[m] = step[<<m, h[m - 1]>>]
        OBVIOUS
      <4>2. g[m - 1] = h[m - 1]
        BY <3>2, <3>3
      <4>. HIDE DEF g
      <4>3. g[m] = step[<<m, g[m - 1]>>]
        BY <4>1, <4>2
      <4>. QED  BY <3>3, <4>3
    <3>4. CASE k # m
      <4>1. k \in 1 .. m - 1 /\ k \in 0 .. m
        BY <3>4
      <4>2. h[k] = step[<<k, h[k - 1]>>]
        BY <2>2, <4>1 DEF Chain
      <4>3. g[k] = h[k]
        BY <3>4, <4>1
      <4>. HIDE DEF g
      <4>. QED  BY <3>2, <4>2, <4>3
    <3>. QED  BY <3>3, <3>4
  <2>. HIDE DEF g
  <2>8. Chain(g, m, base, step)
    BY <2>6, <2>7 DEF Chain
  <2>. QED  BY <2>5, <2>8
<1>. HIDE DEF P
<1>3. P = 0 .. n
  <2>1. P \in SUBSET (0 .. n)
    BY DEF P
  <2>. QED  BY <1>1, <1>2, <2>1, IntervalInduction
<1>4. n \in P
  BY <1>3
<1>. QED  BY <1>4 DEF P

\* All of them are in a set if the first is and each brings the next.
LEMMA AllTyped ==
  ASSUME NEW S, NEW n \in Nat, NEW g, g[0] \in S, \A k \in 1 .. n : g[k - 1] \in S => g[k] \in S
  PROVE  \A k \in 0 .. n : g[k] \in S
<1>. DEFINE P == {k \in 0 .. n : g[k] \in S}
<1>1. P \in SUBSET (0 .. n) /\ 0 \in P
  OBVIOUS
<1>2. \A k \in 1 .. n : k - 1 \in P => k \in P
  OBVIOUS
<1>3. P = 0 .. n
  <2>. HIDE DEF P
  <2>. QED  BY <1>1, <1>2, IntervalInduction
<1>. QED  BY <1>3

-----------------------------------------------------------------------------
(* Sequences.                                                              *)

\* The elements of a sequence are of its type.
LEMMA Elements ==
  ASSUME NEW S, NEW s \in Seq(S)
  PROVE  /\ Len(s) \in Nat /\ DOMAIN s = 1 .. Len(s)
         /\ \A i \in 1 .. Len(s) : s[i] \in S
BY ElementOfSeq

\* One element replaced by another.
LEMMA Replaced ==
  ASSUME NEW S, NEW s \in Seq(S), NEW i \in 1 .. Len(s), NEW e \in S
  PROVE  /\ [s EXCEPT ![i] = e] \in Seq(S) /\ Len([s EXCEPT ![i] = e]) = Len(s)
         /\ \A j \in 1 .. Len(s) : [s EXCEPT ![i] = e][j] = IF j = i THEN e ELSE s[j]
<1>1. Len(s) \in Nat /\ DOMAIN s = 1 .. Len(s)
  OBVIOUS
<1>. QED  BY <1>1, ExceptSeq, LenProperties

\* A part is cut out of a sequence.
LEMMA CutOut ==
  ASSUME NEW S, NEW n \in Nat, NEW s \in Seq(S), Len(s) = n, NEW i \in 0 .. n, NEW k \in 0 .. n - i
  PROVE  LET c == SubSeq(s, 1, i) \o SubSeq(s, i + k + 1, n)
         IN /\ c \in Seq(S) /\ Len(c) = n - k
            /\ \A j \in 1 .. n - k : c[j] = IF j <= i THEN s[j] ELSE s[j + k]
<1>. DEFINE l == SubSeq(s, 1, i)  r == SubSeq(s, i + k + 1, n)
<1>1. \A j \in 1 .. n : s[j] \in S
  BY Elements
<1>2. l \in Seq(S) /\ Len(l) = i /\ \A j \in 1 .. i : l[j] = s[j]
  <2>1. \A j \in 1 .. i : s[j] \in S
    BY <1>1
  <2>2. /\ l \in Seq(S) /\ Len(l) = IF 1 <= i THEN i - 1 + 1 ELSE 0
        /\ \A j \in 1 .. i - 1 + 1 : l[j] = s[1 + j - 1]
    BY <2>1, SubSeqProperties
  <2>3. \A j \in 1 .. i : j \in 1 .. i - 1 + 1 /\ 1 + j - 1 = j
    OBVIOUS
  <2>. QED  BY <2>2, <2>3
<1>3. r \in Seq(S) /\ Len(r) = n - k - i /\ \A j \in 1 .. n - k - i : r[j] = s[i + k + j]
  <2>1. \A j \in i + k + 1 .. n : s[j] \in S
    BY <1>1
  <2>2. /\ r \in Seq(S) /\ Len(r) = IF i + k + 1 <= n THEN n - (i + k + 1) + 1 ELSE 0
        /\ \A j \in 1 .. n - (i + k + 1) + 1 : r[j] = s[(i + k + 1) + j - 1]
    BY <2>1, SubSeqProperties
  <2>3. \A j \in 1 .. n - k - i : j \in 1 .. n - (i + k + 1) + 1 /\ (i + k + 1) + j - 1 = i + k + j
    OBVIOUS
  <2>. QED  BY <2>2, <2>3
<1>. HIDE DEF l, r
<1>4. /\ l \o r \in Seq(S) /\ Len(l \o r) = i + (n - k - i)
      /\ \A j \in 1 .. i + (n - k - i) : (l \o r)[j] = IF j <= i THEN l[j] ELSE r[j - i]
  BY <1>2, <1>3, ConcatProperties
<1>5. ASSUME NEW j \in 1 .. n - k  PROVE (l \o r)[j] = IF j <= i THEN s[j] ELSE s[j + k]
  <2>1. j \in 1 .. i + (n - k - i)
    OBVIOUS
  <2>2. CASE j <= i
    BY <2>1, <2>2, <1>2, <1>4
  <2>3. CASE ~(j <= i)
    <3>1. j - i \in 1 .. n - k - i /\ i + k + (j - i) = j + k
      BY <2>3
    <3>. QED  BY <2>1, <2>3, <3>1, <1>3, <1>4
  <2>. QED  BY <2>2, <2>3
<1>. QED  BY <1>4, <1>5 DEF l, r

\* One element is removed.
LEMMA Removed ==
  ASSUME NEW S, NEW n \in Nat, NEW s \in Seq(S), Len(s) = n, NEW i \in 1 .. n
  PROVE  /\ RemoveAt(s, i) \in Seq(S) /\ Len(RemoveAt(s, i)) = n - 1
         /\ \A j \in 1 .. n - 1 : RemoveAt(s, i)[j] = IF j < i THEN s[j] ELSE s[j + 1]
<1>. DEFINE h == i - 1
            c == SubSeq(s, 1, h) \o SubSeq(s, h + 1 + 1, n)
<1>1. h \in 0 .. n /\ 1 \in 0 .. n - h /\ h + 1 + 1 = i + 1
  OBVIOUS
<1>2. RemoveAt(s, i) = c
  BY <1>1 DEF RemoveAt
<1>3. \A j \in 1 .. n - 1 : j <= h <=> j < i
  OBVIOUS
<1>. HIDE DEF h
<1>4. /\ c \in Seq(S) /\ Len(c) = n - 1
      /\ \A j \in 1 .. n - 1 : c[j] = IF j <= h THEN s[j] ELSE s[j + 1]
  BY <1>1, CutOut
<1>. QED  BY <1>2, <1>3, <1>4

\* One element is inserted.
MakesRoom(t, s, n, i, e) ==
  \A j \in 1 .. n + 1 : t[j] = IF j < i THEN s[j] ELSE IF j = i THEN e ELSE s[j - 1]

LEMMA Inserted ==
  ASSUME NEW S, NEW n \in Nat, NEW s \in Seq(S), Len(s) = n, NEW i \in 1 .. n + 1, NEW e \in S
  PROVE  /\ InsertAt(s, i, e) \in Seq(S) /\ Len(InsertAt(s, i, e)) = n + 1
         /\ MakesRoom(InsertAt(s, i, e), s, n, i, e)
<1>. DEFINE l == SubSeq(s, 1, i - 1)  r == SubSeq(s, i, n)
<1>1. \A j \in 1 .. n : s[j] \in S
  BY Elements
<1>2. l \in Seq(S) /\ Len(l) = i - 1 /\ \A j \in 1 .. i - 1 : l[j] = s[j]
  <2>1. \A j \in 1 .. i - 1 : s[j] \in S
    BY <1>1
  <2>2. /\ l \in Seq(S) /\ Len(l) = IF 1 <= i - 1 THEN (i - 1) - 1 + 1 ELSE 0
        /\ \A j \in 1 .. (i - 1) - 1 + 1 : l[j] = s[1 + j - 1]
    BY <2>1, SubSeqProperties
  <2>3. \A j \in 1 .. i - 1 : j \in 1 .. (i - 1) - 1 + 1 /\ 1 + j - 1 = j
    OBVIOUS
  <2>. QED  BY <2>2, <2>3
<1>3. r \in Seq(S) /\ Len(r) = n - i + 1 /\ \A j \in 1 .. n - i + 1 : r[j] = s[i + j - 1]
  <2>1. \A j \in i .. n : s[j] \in S
    BY <1>1
  <2>2. /\ r \in Seq(S) /\ Len(r) = IF i <= n THEN n - i + 1 ELSE 0
        /\ \A j \in 1 .. n - i + 1 : r[j] = s[i + j - 1]
    BY <2>1, SubSeqProperties
  <2>. QED  BY <2>2
<1>. HIDE DEF l, r
<1>4. <<e>> \in Seq(S) /\ Len(<<e>>) = 1 /\ <<e>>[1] = e
  OBVIOUS
<1>5. /\ l \o <<e>> \in Seq(S) /\ Len(l \o <<e>>) = i
      /\ \A j \in 1 .. i : (l \o <<e>>)[j] = IF j <= i - 1 THEN s[j] ELSE e
  <2>1. /\ l \o <<e>> \in Seq(S) /\ Len(l \o <<e>>) = (i - 1) + 1
        /\ \A j \in 1 .. (i - 1) + 1 :
             (l \o <<e>>)[j] = IF j <= i - 1 THEN l[j] ELSE <<e>>[j - (i - 1)]
    BY <1>2, <1>4, ConcatProperties
  <2>2. ASSUME NEW j \in 1 .. i, ~(j <= i - 1)  PROVE j - (i - 1) = 1
    BY <2>2
  <2>3. (i - 1) + 1 = i
    OBVIOUS
  <2>. QED  BY <2>1, <2>2, <2>3, <1>2, <1>4
<1>. DEFINE q == l \o <<e>>
<1>10. /\ q \in Seq(S) /\ Len(q) = i
       /\ \A j \in 1 .. i : q[j] = IF j <= i - 1 THEN s[j] ELSE e
  BY <1>5
<1>. HIDE DEF q
<1>11. PICK m \in Nat : m = n - i + 1
  OBVIOUS
<1>6. /\ q \o r \in Seq(S) /\ Len(q \o r) = i + m
      /\ \A j \in 1 .. i + m : (q \o r)[j] = IF j <= i THEN q[j] ELSE r[j - i]
  <2>1. q \in Seq(S) /\ Len(q) = i /\ r \in Seq(S) /\ Len(r) = m
    BY <1>3, <1>10, <1>11
  <2>. QED  BY <2>1, ConcatProperties
<1>7. i + m = n + 1 /\ i \in Int
  BY <1>11
<1>8. ASSUME NEW j \in 1 .. n + 1
      PROVE  (q \o r)[j] = IF j < i THEN s[j] ELSE IF j = i THEN e ELSE s[j - 1]
  <2>0. j \in 1 .. i + m /\ j \in Int
    BY <1>7
  <2>1. CASE j < i
    <3>1. j \in 1 .. i /\ j <= i - 1 /\ j <= i
      BY <2>1
    <3>. QED  BY <2>0, <2>1, <3>1, <1>10, <1>6
  <2>2. CASE j = i
    <3>1. j \in 1 .. i /\ ~(j <= i - 1) /\ j <= i /\ ~(j < i)
      BY <2>2
    <3>2. (q \o r)[j] = q[j]
      BY <2>0, <3>1, <1>6
    <3>3. q[j] = e
      BY <3>1, <1>10
    <3>. QED  BY <2>2, <3>1, <3>2, <3>3
  <2>3. CASE j > i
    <3>1. ~(j <= i) /\ j - i \in 1 .. m /\ j - i \in 1 .. n - i + 1 /\ i + (j - i) - 1 = j - 1
      BY <2>0, <2>3, <1>11
    <3>2. (q \o r)[j] = r[j - i]
      BY <2>0, <3>1, <1>6
    <3>3. r[j - i] = s[j - 1]
      BY <3>1, <1>3
    <3>. QED  BY <2>3, <2>0, <1>7, <3>1, <3>2, <3>3
  <2>4. j < i \/ j = i \/ j > i
    BY <2>0, <1>7
  <2>. QED  BY <2>1, <2>2, <2>3, <2>4
<1>9. InsertAt(s, i, e) = q \o r
  BY DEF InsertAt, q, l, r
<1>. QED  BY <1>6, <1>7, <1>8, <1>9 DEF MakesRoom

-----------------------------------------------------------------------------
(* Headings, distances and times.                                          *)

\* A wrapped heading is within half a turn.
LEMMA NormalizeType ==
  ASSUME NEW a \in Int
  PROVE  Normalize(a) \in -4 .. 3 /\ Normalize(a) \in Int
BY DEF Normalize, FullTurn

LEMMA MagnitudeType ==
  ASSUME NEW a \in Int
  PROVE  Magnitude(a) \in Nat
BY DEF Magnitude

LEMMA LargerType ==
  ASSUME NEW a \in Nat, NEW b \in Nat
  PROVE  Larger(a, b) \in Nat
BY DEF Larger

LEMMA HalfType ==
  ASSUME NEW a \in Int
  PROVE  a \div 2 \in Int /\ (a \in Nat => a \div 2 \in Nat)
OBVIOUS

LEMMA AlongType ==
  ASSUME NEW yaw \in Int
  PROVE  Along(yaw) \in -1 .. 1
<1>. DEFINE a == Normalize(yaw)
<1>1. a \in -4 .. 3
  BY NormalizeType
<1>2. Along(yaw) = CASE a \in {-1, 0, 1} -> 1 [] a \in {-4, -3, 3} -> -1 [] OTHER -> 0
  BY DEF Along
<1>. HIDE DEF a
<1>3. (CASE a \in {-1, 0, 1} -> 1 [] a \in {-4, -3, 3} -> -1 [] OTHER -> 0) \in -1 .. 1
  BY <1>1
<1>. QED  BY <1>2, <1>3

LEMMA AverageType ==
  ASSUME NEW p \in PoseRecords, NEW q \in PoseRecords
  PROVE  Average(p, q) \in PoseRecords
<1>1. q.yaw - p.yaw \in Int /\ p.x + q.x \in Int /\ p.yaw \in Int
  BY DEF PoseRecords
<1>2. Normalize(q.yaw - p.yaw) \in Int
  BY <1>1, NormalizeType
<1>3. Normalize(q.yaw - p.yaw) \div 2 \in Int /\ (p.x + q.x) \div 2 \in Int
  BY <1>1, <1>2, HalfType
<1>. QED  BY <1>1, <1>3 DEF Average, PoseAt, PoseRecords

\* The poses and the samples of a plan have a position and a heading.
Placed == [x : Int, yaw : Int, fixed : BOOLEAN] \cup [x : Int, yaw : Int]

LEMMA EstimateDeltaTType ==
  ASSUME NEW p \in Placed, NEW q \in Placed
  PROVE  EstimateDeltaT(p, q) \in Nat
<1>1. q.yaw - p.yaw \in Int /\ q.x - p.x \in Int
  BY DEF Placed
<1>2. Magnitude(Normalize(q.yaw - p.yaw)) \in Nat /\ Magnitude(q.x - p.x) \in Nat
  BY <1>1, NormalizeType, MagnitudeType
<1>. QED  BY <1>2, LargerType DEF EstimateDeltaT

LEMMA TravelTimeType ==
  ASSUME NEW p \in Placed, NEW q \in Placed
  PROVE  TravelTime(p, q) \in Nat
<1>1. q.x - p.x \in Int
  BY DEF Placed
<1>2. Magnitude(q.x - p.x) \in Nat
  BY <1>1, MagnitudeType
<1>. QED  BY <1>2, LargerType DEF TravelTime

\* Twice the length is always time enough for a step.
LEMMA StepTimeType ==
  ASSUME NEW length \in Nat
  PROVE  StepTime(length) \in Nat
<1>. DEFINE n == 2 * length
            S == {t \in Nat : t >= length /\ t * t >= n}
            Least(t) == /\ t >= length /\ t * t >= n
                        /\ \A u \in 0 .. t - 1 : u < length \/ u * u < n
<1>1. \A i \in Nat : i * i \in Nat /\ i * i >= i
  OBVIOUS
<1>2. n \in Nat /\ n >= length
  OBVIOUS
<1>. HIDE DEF n
<1>3. n * n >= n
  BY <1>1, <1>2
<1>4. n \in S /\ S \in SUBSET Nat
  BY <1>2, <1>3
<1>5. PICK m \in S : \A k \in S : m <= k
  BY <1>4, LeastNatural
<1>6. m \in 0 .. n
  BY <1>2, <1>4, <1>5
<1>7. ASSUME NEW u \in 0 .. m - 1, ~(u < length), ~(u * u < n)  PROVE FALSE
  <2>1. u \in Nat /\ u * u \in Nat /\ u < m
    BY <1>1, <1>6
  <2>2. u \in S
    BY <1>2, <1>7, <2>1
  <2>. QED  BY <1>5, <1>6, <2>1, <2>2
<1>8. Least(m)
  BY <1>5, <1>7
<1>9. StepTime(length) = CHOOSE t \in 0 .. n : Least(t)
  BY DEF StepTime, n
<1>. HIDE DEF Least
<1>. QED  BY <1>2, <1>6, <1>8, <1>9

-----------------------------------------------------------------------------
(* Bands.                                                                  *)

\* The bands with one time difference less than poses.
TimedBands == {b \in Bands : Len(b.poses) = Len(b.dts) + 1}

\* The bands an optimization can start from.
ProperBands == {b \in TimedBands : Len(b.poses) >= 2}

LEMMA BandParts ==
  ASSUME NEW b \in Bands
  PROVE  /\ b = [poses |-> b.poses, dts |-> b.dts]
         /\ b.poses \in Seq(PoseRecords) /\ b.dts \in Seq(Nat)
         /\ Len(b.poses) \in Nat /\ Len(b.dts) \in Nat
         /\ \A i \in 1 .. Len(b.poses) : b.poses[i] \in PoseRecords
         /\ \A i \in 1 .. Len(b.dts) : b.dts[i] \in Nat
<1>1. /\ b = [poses |-> b.poses, dts |-> b.dts]
      /\ b.poses \in Seq(PoseRecords) /\ b.dts \in Seq(Nat)
  BY DEF Bands
<1>. QED  BY <1>1, Elements

\* Poses and time differences, by index.
LEMMA Indexed ==
  ASSUME NEW b \in TimedBands
  PROVE  /\ \A i \in 0 .. SizePoses(b) - 1 : Pose(b, i) \in PoseRecords
         /\ \A i \in 0 .. SizeTimeDiffs(b) - 1 : TimeDiff(b, i) \in Nat
         /\ BackPose(b) \in PoseRecords
         /\ SizePoses(b) \in Nat /\ SizeTimeDiffs(b) \in Nat
         /\ SizePoses(b) = SizeTimeDiffs(b) + 1
<1>0. b \in Bands /\ Len(b.poses) = Len(b.dts) + 1
  BY DEF TimedBands
<1>1. /\ Len(b.poses) \in Nat /\ Len(b.dts) \in Nat
      /\ \A i \in 1 .. Len(b.poses) : b.poses[i] \in PoseRecords
      /\ \A i \in 1 .. Len(b.dts) : b.dts[i] \in Nat
  BY <1>0, BandParts
<1>2. \A i \in 0 .. Len(b.poses) - 1 : i + 1 \in 1 .. Len(b.poses)
  BY <1>1
<1>3. \A i \in 0 .. Len(b.dts) - 1 : i + 1 \in 1 .. Len(b.dts)
  BY <1>1
<1>4. Len(b.poses) \in 1 .. Len(b.poses)
  BY <1>0, <1>1
<1>. QED  BY <1>0, <1>1, <1>2, <1>3, <1>4 DEF SizePoses, SizeTimeDiffs, Pose, TimeDiff, BackPose

\* A band made of poses and time differences.
LEMMA TimedBand ==
  ASSUME NEW poses \in Seq(PoseRecords), NEW dts \in Seq(Nat), NEW n \in Nat,
         Len(poses) = n + 1, Len(dts) = n
  PROVE  [poses |-> poses, dts |-> dts] \in TimedBands
BY DEF TimedBands, Bands

\* A pose and the time difference that leads to it are added together.
LEMMA Added ==
  ASSUME NEW b \in TimedBands, NEW p \in PoseRecords, NEW dt \in Nat
  PROVE  AddPoseAndTimeDiff(b, p, dt) \in ProperBands
<1>0. b \in Bands /\ Len(b.poses) = Len(b.dts) + 1
  BY DEF TimedBands
<1>. DEFINE P == b.poses  D == b.dts
<1>1. P \in Seq(PoseRecords) /\ D \in Seq(Nat) /\ Len(D) \in Nat
  BY <1>0, BandParts
<1>2. PICK n \in Nat : n = Len(D)
  BY <1>1
<1>3. Len(P) = n + 1 /\ Len(D) = n
  BY <1>0, <1>2
<1>4. AddPoseAndTimeDiff(b, p, dt) = [poses |-> Append(P, p), dts |-> Append(D, dt)]
  BY <1>3 DEF AddPoseAndTimeDiff, SizePoses, SizeTimeDiffs
<1>. HIDE DEF P, D
<1>5. Append(P, p) \in Seq(PoseRecords) /\ Len(Append(P, p)) = (n + 1) + 1
  BY <1>1, <1>3, AppendProperties
<1>6. Append(D, dt) \in Seq(Nat) /\ Len(Append(D, dt)) = n + 1
  BY <1>1, <1>3, AppendProperties
<1>7. [poses |-> Append(P, p), dts |-> Append(D, dt)] \in TimedBands
  BY <1>5, <1>6 DEF TimedBands, Bands
<1>. QED  BY <1>4, <1>5, <1>7 DEF ProperBands

LEMMA ProperIsTimed ==
  ProperBands \subseteq TimedBands /\ TimedBands \subseteq Bands
BY DEF ProperBands, TimedBands

\* A pose is replaced by one at another place, or fixed.
LEMMA PosesReplaced ==
  ASSUME NEW b \in TimedBands, NEW poses \in Seq(PoseRecords), Len(poses) = Len(b.poses)
  PROVE  /\ [b EXCEPT !.poses = poses] \in TimedBands
         /\ b \in ProperBands => [b EXCEPT !.poses = poses] \in ProperBands
<1>0. b \in Bands /\ Len(b.poses) = Len(b.dts) + 1
  BY DEF TimedBands
<1>1. [b EXCEPT !.poses = poses] = [poses |-> poses, dts |-> b.dts] /\ b.dts \in Seq(Nat)
  BY <1>0 DEF Bands
<1>. QED  BY <1>0, <1>1 DEF TimedBands, ProperBands, Bands

\* A time difference is replaced.
LEMMA TimesReplaced ==
  ASSUME NEW b \in TimedBands, NEW dts \in Seq(Nat), Len(dts) = Len(b.dts)
  PROVE  /\ [b EXCEPT !.dts = dts] \in TimedBands
         /\ [b EXCEPT !.dts = dts].poses = b.poses
         /\ [b EXCEPT !.dts = dts].dts = dts
         /\ b \in ProperBands => [b EXCEPT !.dts = dts] \in ProperBands
<1>0. b \in Bands /\ Len(b.poses) = Len(b.dts) + 1
  BY DEF TimedBands
<1>1. [b EXCEPT !.dts = dts] = [poses |-> b.poses, dts |-> dts] /\ b.poses \in Seq(PoseRecords)
  BY <1>0 DEF Bands
<1>. QED  BY <1>0, <1>1 DEF TimedBands, ProperBands, Bands

-----------------------------------------------------------------------------
(* The seeds of initTrajectoryToGoal().                                    *)

LEMMA PlacedParts ==
  ASSUME NEW p \in Placed
  PROVE  p.x \in Int /\ p.yaw \in Int
BY DEF Placed

LEMMA PosesArePlaced ==
  PoseRecords \subseteq Placed /\ Samples \subseteq Placed
BY DEF PoseRecords, Samples, Placed

LEMMA PoseAtType ==
  ASSUME NEW x \in Int, NEW yaw \in Int
  PROVE  PoseAt(x, yaw) \in PoseRecords
BY DEF PoseAt, PoseRecords

\* A plan that is not empty has a first and a last sample.
LEMMA PlanEnds ==
  ASSUME NEW S, NEW plan \in Seq(S) \ {<<>>}
  PROVE  /\ Len(plan) \in Nat \ {0}
         /\ \A i \in 1 .. Len(plan) : plan[i] \in S
         /\ plan[1] \in S /\ Last(plan) \in S
<1>1. Len(plan) \in Nat \ {0}
  BY EmptySeq
<1>2. \A i \in 1 .. Len(plan) : plan[i] \in S
  BY Elements
<1>3. 1 \in 1 .. Len(plan) /\ Len(plan) \in 1 .. Len(plan)
  BY <1>1
<1>. QED  BY <1>1, <1>2, <1>3 DEF Last

LEMMA InteriorType ==
  ASSUME NEW n \in Nat
  PROVE  /\ Larger(0, n - 2) \in Nat
         /\ \A k \in 1 .. Larger(0, n - 2) : k \in 1 .. n /\ k + 1 \in 1 .. n
BY DEF Larger

LEMMA MissingType ==
  ASSUME NEW n \in Int
  PROVE  Larger(0, n) \in Nat
BY DEF Larger

\* The flag of a pose changes.
LEMMA FixedType ==
  ASSUME NEW b \in TimedBands, NEW i \in 0 .. SizePoses(b) - 1, NEW status \in BOOLEAN
  PROVE  /\ SetPoseVertexFixed(b, i, status) \in TimedBands
         /\ b \in ProperBands => SetPoseVertexFixed(b, i, status) \in ProperBands
<1>. DEFINE P == b.poses  p == P[i + 1]  q == [p EXCEPT !.fixed = status]
            R == [P EXCEPT ![i + 1] = q]
<1>1. P \in Seq(PoseRecords) /\ Len(P) \in Nat /\ i + 1 \in 1 .. Len(P)
  BY BandParts, ProperIsTimed DEF SizePoses
<1>2. p \in PoseRecords
  BY <1>1, Elements
<1>3. q \in PoseRecords
  BY <1>2 DEF PoseRecords
<1>4. SetPoseVertexFixed(b, i, status) = [b EXCEPT !.poses = R]
  BY <1>1, <1>2 DEF SetPoseVertexFixed, TimedBands, Bands
<1>. HIDE DEF q, P
<1>5. R \in Seq(PoseRecords) /\ Len(R) = Len(P)
  BY <1>1, <1>3, Replaced
<1>. HIDE DEF R
<1>. QED  BY <1>4, <1>5, PosesReplaced DEF P

LEMMA BegunType ==
  ASSUME NEW x \in Int, NEW yaw \in Int
  PROVE  Begun(x, yaw) \in TimedBands
<1>. DEFINE p == PoseAt(x, yaw)
            P == Append(<<>>, p)
            D == <<>>
            b == [poses |-> P, dts |-> D]
<1>1. p \in PoseRecords
  BY PoseAtType
<1>2. AddPose(EmptyBand, p) = b
  BY DEF AddPose, EmptyBand
<1>. HIDE DEF p
<1>3. <<>> \in Seq(PoseRecords) /\ Len(<<>>) = 0 /\ D \in Seq(Nat) /\ Len(D) = 0
  BY EmptySeq
<1>4. P \in Seq(PoseRecords) /\ Len(P) = 0 + 1
  BY <1>1, <1>3, AppendProperties
<1>. HIDE DEF P, D
<1>5. b \in TimedBands /\ SizePoses(b) = 1
  <2>1. b \in TimedBands
    BY <1>3, <1>4, TimedBand
  <2>. QED  BY <2>1, <1>4 DEF SizePoses
<1>. HIDE DEF b
<1>6. Begun(x, yaw) = SetPoseVertexFixed(b, 0, TRUE)
  BY <1>2 DEF Begun, p
<1>7. 0 \in 0 .. SizePoses(b) - 1
  BY <1>5
<1>. QED  BY <1>5, <1>6, <1>7, FixedType

LEMMA ClosedType ==
  ASSUME NEW b \in TimedBands, NEW goal \in PoseRecords, NEW dt \in Nat
  PROVE  Closed(b, goal, dt) \in ProperBands
<1>. DEFINE c == AddPoseAndTimeDiff(b, goal, dt)
<1>1. c \in ProperBands
  BY Added
<1>2. Closed(b, goal, dt) = SetPoseVertexFixed(c, SizePoses(c) - 1, TRUE)
  BY DEF Closed
<1>. HIDE DEF c
<1>3. c \in TimedBands /\ SizePoses(c) - 1 \in 0 .. SizePoses(c) - 1
  BY <1>1, Indexed, ProperIsTimed DEF ProperBands, SizePoses
<1>. QED  BY <1>1, <1>2, <1>3, FixedType

LEMMA AddSampleType ==
  ASSUME NEW b \in TimedBands, NEW p \in Placed
  PROVE  AddSample(b, p) \in TimedBands
<1>1. p.x \in Int /\ Normalize(p.yaw) \in Int /\ BackPose(b) \in Placed
  BY PlacedParts, NormalizeType, Indexed, PosesArePlaced
<1>2. PoseAt(p.x, Normalize(p.yaw)) \in PoseRecords
  BY <1>1, PoseAtType
<1>3. EstimateDeltaT(BackPose(b), p) \in Nat
  BY <1>1, EstimateDeltaTType
<1>. QED  BY <1>2, <1>3, Added, ProperIsTimed DEF AddSample

LEMMA AddMidpointType ==
  ASSUME NEW b \in TimedBands, NEW goal \in PoseRecords
  PROVE  AddMidpoint(b, goal) \in TimedBands
<1>. DEFINE m == Average(BackPose(b), goal)
<1>1. BackPose(b) \in PoseRecords
  BY Indexed
<1>2. m \in PoseRecords
  BY <1>1, AverageType
<1>3. EstimateDeltaT(BackPose(b), m) \in Nat
  BY <1>1, <1>2, EstimateDeltaTType, PosesArePlaced
<1>. QED  BY <1>2, <1>3, Added, ProperIsTimed DEF AddMidpoint

LEMMA AddStraightMidpointType ==
  ASSUME NEW b \in TimedBands, NEW goal \in PoseRecords
  PROVE  AddStraightMidpoint(b, goal) \in TimedBands
<1>. DEFINE m == Average(BackPose(b), goal)
<1>1. BackPose(b) \in PoseRecords
  BY Indexed
<1>2. m \in PoseRecords
  BY <1>1, AverageType
<1>3. TravelTime(BackPose(b), m) \in Nat
  BY <1>1, <1>2, TravelTimeType, PosesArePlaced
<1>. QED  BY <1>2, <1>3, Added, ProperIsTimed DEF AddStraightMidpoint

LEMMA AddPositionType ==
  ASSUME NEW b \in TimedBands, NEW x \in Int, NEW backwards \in BOOLEAN
  PROVE  AddPosition(b, x, backwards) \in TimedBands
<1>. DEFINE dx == x - BackPose(b).x
            heading == IF dx < 0 THEN -(FullTurn \div 2) ELSE 0
            time == Larger(1, StepTime(Magnitude(dx)))
<1>1. dx \in Int
  BY Indexed DEF PoseRecords
<1>2. heading \in Int
  BY DEF FullTurn
<1>3. heading + FullTurn \div 2 \in Int
  BY <1>2 DEF FullTurn
<1>. HIDE DEF dx, heading
<1>4. Turned(heading, backwards) \in Int
  BY <1>2, <1>3, NormalizeType DEF Turned
<1>5. time \in Nat
  BY <1>1, MagnitudeType, StepTimeType, LargerType
<1>6. PoseAt(x, Turned(heading, backwards)) \in PoseRecords
  BY <1>4, PoseAtType
<1>7. AddPosition(b, x, backwards) = AddPoseAndTimeDiff(b, PoseAt(x, Turned(heading, backwards)), time)
  BY DEF AddPosition, dx, heading
<1>. HIDE DEF time
<1>. QED  BY <1>5, <1>6, <1>7, Added, ProperIsTimed

\* The samples between the first and the last, one by one.
LEMMA AddSamplesSteps ==
  ASSUME NEW b \in TimedBands, NEW plan \in Seq(Placed)
  PROVE  \E g : /\ g[0] = b /\ AddSamples(b, plan) = g[Larger(0, Len(plan) - 2)]
                /\ \A k \in 1 .. Larger(0, Len(plan) - 2) : g[k] = AddSample(g[k - 1], plan[k + 1])
                /\ \A k \in 0 .. Larger(0, Len(plan) - 2) : g[k] \in TimedBands
<1>. DEFINE n == Larger(0, Len(plan) - 2)
            base == b
            added[k \in 0 .. n] == IF k = 0 THEN b ELSE AddSample(added[k - 1], plan[k + 1])
            step == [e \in (1 .. n) \X TimedBands |-> AddSample(e[2], plan[e[1] + 1])]
<1>1. n \in Nat
  BY InteriorType
<1>2. base \in TimedBands
  OBVIOUS
<1>3. ASSUME NEW k \in 1 .. n, NEW c \in TimedBands  PROVE AddSample(c, plan[k + 1]) \in TimedBands
  <2>1. k + 1 \in 1 .. Len(plan)
    BY InteriorType
  <2>2. plan[k + 1] \in Placed
    BY <2>1, Elements
  <2>. QED  BY <2>2, AddSampleType
<1>. HIDE DEF n, base
<1>4. step \in [(1 .. n) \X TimedBands -> TimedBands]
  BY <1>3
<1>5. PICK g \in [0 .. n -> TimedBands] : Chain(g, n, base, step)
  BY <1>1, <1>2, <1>4, Recursion
<1>6. ASSUME NEW k \in 1 .. n  PROVE g[k] = AddSample(g[k - 1], plan[k + 1])
  <2>1. k - 1 \in 0 .. n
    BY <1>1
  <2>2. <<k, g[k - 1]>> \in (1 .. n) \X TimedBands /\ g[k] = step[<<k, g[k - 1]>>]
    BY <1>5, <2>1 DEF Chain
  <2>. QED  BY <2>2
<1>7. g = [k \in 0 .. n |-> IF k = 0 THEN base ELSE AddSample(g[k - 1], plan[k + 1])]
  <2>1. ASSUME NEW k \in 0 .. n  PROVE k = 0 \/ k \in 1 .. n
    BY <1>1
  <2>. QED  BY <1>5, <1>6, <2>1 DEF Chain
<1>8. added = [k \in 0 .. n |-> IF k = 0 THEN base ELSE AddSample(added[k - 1], plan[k + 1])]
  BY <1>7 DEF base
<1>. HIDE DEF added
<1>9. added[0] = base
  BY <1>1, <1>8
<1>10. ASSUME NEW k \in 1 .. n  PROVE added[k] = AddSample(added[k - 1], plan[k + 1])
  <2>1. k \in 0 .. n /\ k # 0
    BY <1>1
  <2>. QED  BY <2>1, <1>8
<1>11. \A k \in 1 .. n : added[k - 1] \in TimedBands => added[k] \in TimedBands
  BY <1>3, <1>10
<1>12. \A k \in 0 .. n : added[k] \in TimedBands
  BY <1>1, <1>2, <1>9, <1>11, AllTyped
<1>13. AddSamples(b, plan) = added[n]
  BY DEF AddSamples, added, n
<1>. QED  BY <1>9, <1>10, <1>12, <1>13 DEF n, base

LEMMA AddSamplesType ==
  ASSUME NEW b \in TimedBands, NEW plan \in Seq(Placed)
  PROVE  AddSamples(b, plan) \in TimedBands
<1>1. PICK g : /\ AddSamples(b, plan) = g[Larger(0, Len(plan) - 2)]
               /\ \A k \in 0 .. Larger(0, Len(plan) - 2) : g[k] \in TimedBands
  BY AddSamplesSteps
<1>2. Larger(0, Len(plan) - 2) \in 0 .. Larger(0, Len(plan) - 2)
  BY InteriorType
<1>. QED  BY <1>1, <1>2

\* Midpoints up to the number of poses that is asked for: what a midpoint
\* keeps, all of them keep.
LEMMA FillSamplesIn ==
  ASSUME NEW S, S \subseteq TimedBands, NEW b \in S, NEW goal \in PoseRecords,
         NEW minSamples \in Nat, \A c \in S : AddMidpoint(c, goal) \in S
  PROVE  FillSamples(b, goal, minSamples) \in S
<1>. DEFINE n == Larger(0, minSamples - 1 - SizePoses(b))
            base == b
            filled[k \in 0 .. n] == IF k = 0 THEN b ELSE AddMidpoint(filled[k - 1], goal)
            step == [e \in (1 .. n) \X S |-> AddMidpoint(e[2], goal)]
<1>1. n \in Nat
  <2>1. b \in TimedBands
    OBVIOUS
  <2>. QED  BY <2>1, Indexed, MissingType
<1>2. base \in S
  OBVIOUS
<1>3. ASSUME NEW k \in 1 .. n, NEW c \in S  PROVE AddMidpoint(c, goal) \in S
  OBVIOUS
<1>. HIDE DEF n, base
<1>4. step \in [(1 .. n) \X S -> S]
  BY <1>3
<1>5. PICK g \in [0 .. n -> S] : Chain(g, n, base, step)
  BY <1>1, <1>2, <1>4, Recursion
<1>6. ASSUME NEW k \in 1 .. n  PROVE g[k] = AddMidpoint(g[k - 1], goal)
  <2>1. k - 1 \in 0 .. n
    BY <1>1
  <2>2. <<k, g[k - 1]>> \in (1 .. n) \X S /\ g[k] = step[<<k, g[k - 1]>>]
    BY <1>5, <2>1 DEF Chain
  <2>. QED  BY <2>2
<1>7. g = [k \in 0 .. n |-> IF k = 0 THEN base ELSE AddMidpoint(g[k - 1], goal)]
  <2>1. ASSUME NEW k \in 0 .. n  PROVE k = 0 \/ k \in 1 .. n
    BY <1>1
  <2>. QED  BY <1>5, <1>6, <2>1 DEF Chain
<1>8. filled = [k \in 0 .. n |-> IF k = 0 THEN base ELSE AddMidpoint(filled[k - 1], goal)]
  BY <1>7 DEF base
<1>. HIDE DEF filled
<1>9. filled[0] = base
  BY <1>1, <1>8
<1>10. ASSUME NEW k \in 1 .. n  PROVE filled[k] = AddMidpoint(filled[k - 1], goal)
  <2>1. k \in 0 .. n /\ k # 0
    BY <1>1
  <2>. QED  BY <2>1, <1>8
<1>11. \A k \in 1 .. n : filled[k - 1] \in S => filled[k] \in S
  BY <1>3, <1>10
<1>12. \A k \in 0 .. n : filled[k] \in S
  BY <1>1, <1>2, <1>9, <1>11, AllTyped
<1>13. FillSamples(b, goal, minSamples) = filled[n]
  BY DEF FillSamples, filled, n
<1>. QED  BY <1>1, <1>12, <1>13

LEMMA FillSamplesType ==
  ASSUME NEW b \in TimedBands, NEW goal \in PoseRecords, NEW minSamples \in Nat
  PROVE  FillSamples(b, goal, minSamples) \in TimedBands
BY AddMidpointType, FillSamplesIn

\* The band over a plan.
LEMMA InitTrajectoryToGoalType ==
  ASSUME NEW plan \in Seq(Placed) \ {<<>>}, NEW minSamples \in Nat
  PROVE  InitTrajectoryToGoal(plan, minSamples) \in ProperBands
<1>. DEFINE start == plan[1]
            goal == PoseAt(Last(plan).x, start.yaw + Normalize(Last(plan).yaw - start.yaw))
            filled == FillSamples(AddSamples(Begun(start.x, start.yaw), plan), goal, minSamples)
            dt == EstimateDeltaT(BackPose(filled), goal)
<1>1. start.x \in Int /\ start.yaw \in Int /\ Last(plan).x \in Int /\ Last(plan).yaw \in Int
  BY PlanEnds, PlacedParts
<1>2. Normalize(Last(plan).yaw - start.yaw) \in Int
  <2>1. PICK l \in Int, s \in Int : l = Last(plan).yaw /\ s = start.yaw
    BY <1>1
  <2>2. l - s \in Int
    OBVIOUS
  <2>. QED  BY <2>1, <2>2, NormalizeType
<1>3. goal \in PoseRecords
  BY <1>1, <1>2 DEF PoseAt, PoseRecords
<1>. HIDE DEF goal
<1>4. AddSamples(Begun(start.x, start.yaw), plan) \in TimedBands
  BY <1>1, BegunType, AddSamplesType
<1>5. filled \in TimedBands
  BY <1>3, <1>4, FillSamplesType
<1>6. InitTrajectoryToGoal(plan, minSamples) = Closed(filled, goal, dt)
  BY DEF InitTrajectoryToGoal, goal
<1>. HIDE DEF filled
<1>7. dt \in Nat
  BY <1>3, <1>5, EstimateDeltaTType, Indexed, PosesArePlaced
<1>. QED  BY <1>3, <1>5, <1>6, <1>7, ClosedType

\* The positions of a path between the first and the last: what one of them
\* keeps, all of them keep.
LEMMA AddPositionsIn ==
  ASSUME NEW S, NEW b \in S, NEW path \in Seq(Int), NEW backwards \in BOOLEAN,
         \A c \in S, x \in Int : AddPosition(c, x, backwards) \in S
  PROVE  AddPositions(b, path, backwards) \in S
<1>. DEFINE n == Larger(0, Len(path) - 2)
            base == b
            added[k \in 0 .. n] == IF k = 0 THEN b
                                   ELSE AddPosition(added[k - 1], path[k + 1], backwards)
            step == [e \in (1 .. n) \X S |-> AddPosition(e[2], path[e[1] + 1], backwards)]
<1>1. n \in Nat
  BY InteriorType
<1>2. base \in S
  OBVIOUS
<1>3. ASSUME NEW k \in 1 .. n, NEW c \in S  PROVE AddPosition(c, path[k + 1], backwards) \in S
  <2>1. k + 1 \in 1 .. Len(path)
    BY InteriorType
  <2>2. path[k + 1] \in Int
    BY <2>1, Elements
  <2>. QED  BY <2>2
<1>. HIDE DEF n, base
<1>4. step \in [(1 .. n) \X S -> S]
  BY <1>3
<1>5. PICK g \in [0 .. n -> S] : Chain(g, n, base, step)
  BY <1>1, <1>2, <1>4, Recursion
<1>6. ASSUME NEW k \in 1 .. n  PROVE g[k] = AddPosition(g[k - 1], path[k + 1], backwards)
  <2>1. k - 1 \in 0 .. n
    BY <1>1
  <2>2. <<k, g[k - 1]>> \in (1 .. n) \X S /\ g[k] = step[<<k, g[k - 1]>>]
    BY <1>5, <2>1 DEF Chain
  <2>. QED  BY <2>2
<1>7. g = [k \in 0 .. n |-> IF k = 0 THEN base ELSE AddPosition(g[k - 1], path[k + 1], backwards)]
  <2>1. ASSUME NEW k \in 0 .. n  PROVE k = 0 \/ k \in 1 .. n
    BY <1>1
  <2>. QED  BY <1>5, <1>6, <2>1 DEF Chain
<1>8. added = [k \in 0 .. n |-> IF k = 0 THEN base ELSE AddPosition(added[k - 1], path[k + 1], backwards)]
  BY <1>7 DEF base
<1>. HIDE DEF added
<1>9. added[0] = base
  BY <1>1, <1>8
<1>10. ASSUME NEW k \in 1 .. n  PROVE added[k] = AddPosition(added[k - 1], path[k + 1], backwards)
  <2>1. k \in 0 .. n /\ k # 0
    BY <1>1
  <2>. QED  BY <2>1, <1>8
<1>11. \A k \in 1 .. n : added[k - 1] \in S => added[k] \in S
  BY <1>3, <1>10
<1>12. \A k \in 0 .. n : added[k] \in S
  BY <1>1, <1>2, <1>9, <1>11, AllTyped
<1>13. AddPositions(b, path, backwards) = added[n]
  BY DEF AddPositions, added, n
<1>. QED  BY <1>1, <1>12, <1>13

LEMMA AddPositionsType ==
  ASSUME NEW b \in TimedBands, NEW path \in Seq(Int), NEW backwards \in BOOLEAN
  PROVE  AddPositions(b, path, backwards) \in TimedBands
BY AddPositionType, AddPositionsIn

\* The points that bisect what is left of a path.
LEMMA BisectStepIn ==
  ASSUME NEW S, NEW goal, \A e \in S, dt \in Nat :
           AddPoseAndTimeDiff(e, Average(BackPose(e), goal), dt) \in S,
         NEW c \in [band : S, time : Nat]
  PROVE  [band |-> AddPoseAndTimeDiff(c.band, Average(BackPose(c.band), goal), (c.time + 1) \div 2),
          time |-> (c.time + 1) \div 2] \in [band : S, time : Nat]
<1>. DEFINE b == c.band  t == c.time  h == (t + 1) \div 2
<1>1. b \in S /\ t \in Nat
  OBVIOUS
<1>. HIDE DEF b, t
<1>2. h \in Nat
  BY <1>1
<1>. HIDE DEF h
<1>3. AddPoseAndTimeDiff(b, Average(BackPose(b), goal), h) \in S
  BY <1>1, <1>2
<1>. QED  BY <1>2, <1>3 DEF b, t, h

\* What a pose halfway keeps, bisection keeps.
LEMMA BisectIn ==
  ASSUME NEW S, S \subseteq TimedBands, NEW b \in S, NEW goal, NEW time \in Nat,
         NEW minSamples \in Nat,
         \A e \in S, dt \in Nat : AddPoseAndTimeDiff(e, Average(BackPose(e), goal), dt) \in S
  PROVE  Bisect(b, goal, time, minSamples) \in [band : S, time : Nat]
<1>. DEFINE n == Larger(0, minSamples - 1 - SizePoses(b))
            base == [band |-> b, time |-> time]
            bisected[k \in 0 .. n] == IF k = 0 THEN [band |-> b, time |-> time] ELSE [band |-> AddPoseAndTimeDiff(bisected[k - 1].band, Average(BackPose(bisected[k - 1].band), goal), (bisected[k - 1].time + 1) \div 2), time |-> (bisected[k - 1].time + 1) \div 2]
            step == [e \in (1 .. n) \X [band : S, time : Nat] |-> [band |-> AddPoseAndTimeDiff(e[2].band, Average(BackPose(e[2].band), goal), (e[2].time + 1) \div 2), time |-> (e[2].time + 1) \div 2]]
<1>1. n \in Nat
  <2>1. b \in TimedBands
    OBVIOUS
  <2>2. SizePoses(b) \in Nat
    BY <2>1, Indexed
  <2>3. minSamples - 1 - SizePoses(b) \in Int
    BY <2>2
  <2>. QED  BY <2>3, MissingType
<1>2. base \in [band : S, time : Nat]
  OBVIOUS
<1>3. ASSUME NEW k \in 1 .. n, NEW c \in [band : S, time : Nat]  PROVE [band |-> AddPoseAndTimeDiff(c.band, Average(BackPose(c.band), goal), (c.time + 1) \div 2), time |-> (c.time + 1) \div 2] \in [band : S, time : Nat]
  BY BisectStepIn
<1>. HIDE DEF n, base
<1>4. step \in [(1 .. n) \X [band : S, time : Nat] -> [band : S, time : Nat]]
  BY <1>3
<1>5. PICK g \in [0 .. n -> [band : S, time : Nat]] : Chain(g, n, base, step)
  BY <1>1, <1>2, <1>4, Recursion
<1>6. ASSUME NEW k \in 1 .. n  PROVE g[k] = [band |-> AddPoseAndTimeDiff(g[k - 1].band, Average(BackPose(g[k - 1].band), goal), (g[k - 1].time + 1) \div 2), time |-> (g[k - 1].time + 1) \div 2]
  <2>1. k - 1 \in 0 .. n
    BY <1>1
  <2>2. <<k, g[k - 1]>> \in (1 .. n) \X [band : S, time : Nat] /\ g[k] = step[<<k, g[k - 1]>>]
    BY <1>5, <2>1 DEF Chain
  <2>. QED  BY <2>2
<1>7. g = [k \in 0 .. n |-> IF k = 0 THEN base ELSE [band |-> AddPoseAndTimeDiff(g[k - 1].band, Average(BackPose(g[k - 1].band), goal), (g[k - 1].time + 1) \div 2), time |-> (g[k - 1].time + 1) \div 2]]
  <2>1. ASSUME NEW k \in 0 .. n  PROVE k = 0 \/ k \in 1 .. n
    BY <1>1
  <2>. QED  BY <1>5, <1>6, <2>1 DEF Chain
<1>8. bisected = [k \in 0 .. n |-> IF k = 0 THEN base ELSE [band |-> AddPoseAndTimeDiff(bisected[k - 1].band, Average(BackPose(bisected[k - 1].band), goal), (bisected[k - 1].time + 1) \div 2), time |-> (bisected[k - 1].time + 1) \div 2]]
  BY <1>7 DEF base
<1>. HIDE DEF bisected
<1>9. bisected[0] = base
  BY <1>1, <1>8
<1>10. ASSUME NEW k \in 1 .. n  PROVE bisected[k] = [band |-> AddPoseAndTimeDiff(bisected[k - 1].band, Average(BackPose(bisected[k - 1].band), goal), (bisected[k - 1].time + 1) \div 2), time |-> (bisected[k - 1].time + 1) \div 2]
  <2>1. k \in 0 .. n /\ k # 0
    BY <1>1
  <2>. QED  BY <2>1, <1>8
<1>11. \A k \in 1 .. n : bisected[k - 1] \in [band : S, time : Nat] => bisected[k] \in [band : S, time : Nat]
  BY <1>3, <1>10
<1>12. \A k \in 0 .. n : bisected[k] \in [band : S, time : Nat]
  BY <1>1, <1>2, <1>9, <1>11, AllTyped
<1>13. Bisect(b, goal, time, minSamples) = bisected[n]
  BY DEF Bisect, bisected, n
<1>. QED  BY <1>1, <1>12, <1>13

LEMMA BisectType ==
  ASSUME NEW b \in TimedBands, NEW goal \in PoseRecords, NEW time \in Nat, NEW minSamples \in Nat
  PROVE  Bisect(b, goal, time, minSamples) \in [band : TimedBands, time : Nat]
<1>1. ASSUME NEW e \in TimedBands, NEW dt \in Nat
      PROVE  AddPoseAndTimeDiff(e, Average(BackPose(e), goal), dt) \in TimedBands
  BY Indexed, AverageType, Added, ProperIsTimed
<1>. QED  BY <1>1, BisectIn

\* The band over a path of the exploration.
LEMMA InitTrajectoryToGoalPathType ==
  ASSUME NEW path \in Seq(Int) \ {<<>>}, NEW startYaw \in Int, NEW goalYaw \in Int,
         NEW minSamples \in Nat, NEW guessBackwards \in BOOLEAN
  PROVE  InitTrajectoryToGoalPath(path, startYaw, goalYaw, minSamples, guessBackwards) \in ProperBands
<1>. DEFINE towards == (Last(path) - path[1]) * Along(startYaw)
            backwards == guessBackwards /\ towards < 0
            goal == PoseAt(Last(path), goalYaw)
            interior == AddPositions(Begun(path[1], startYaw), path, backwards)
            rest == StepTime(Magnitude(Last(path) - BackPose(interior).x))
            filled == Bisect(interior, goal, rest, minSamples)
<1>1. path[1] \in Int /\ Last(path) \in Int
  BY PlanEnds
<1>2. backwards \in BOOLEAN
  OBVIOUS
<1>3. goal \in PoseRecords
  BY <1>1, PoseAtType
<1>. HIDE DEF backwards, goal
<1>4. interior \in TimedBands
  BY <1>1, <1>2, BegunType, AddPositionsType
<1>. HIDE DEF interior
<1>5. Last(path) - BackPose(interior).x \in Int
  BY <1>1, <1>4, Indexed DEF PoseRecords
<1>6. rest \in Nat
  BY <1>5, MagnitudeType, StepTimeType
<1>. HIDE DEF rest
<1>7. filled \in [band : TimedBands, time : Nat]
  BY <1>3, <1>4, <1>6, BisectType
<1>8. InitTrajectoryToGoalPath(path, startYaw, goalYaw, minSamples, guessBackwards) =
        Closed(filled.band, goal, filled.time)
  BY DEF InitTrajectoryToGoalPath, backwards, goal, interior, rest
<1>. HIDE DEF filled
<1>. QED  BY <1>3, <1>7, <1>8, ClosedType

\* The straight band ends a band of midpoints.
EndsStraight(c, b, target) == c = Closed(b, target, TravelTime(BackPose(b), target))

\* What a midpoint keeps, the midpoints of a straight band keep.
LEMMA StraightFilledIn ==
  ASSUME NEW S, NEW start, NEW goal, NEW target, target = PoseAt(goal.x, goal.yaw),
         NEW base, base = Begun(start.x, start.yaw), base \in S, NEW minSamples \in Nat,
         \A c \in S : AddStraightMidpoint(c, target) \in S
  PROVE  \E b \in S : EndsStraight(InitTrajectoryToGoalStraight(start, goal, minSamples), b, target)
<1>. DEFINE n == Larger(0, minSamples - 2)
            filled[k \in 0 .. n] == IF k = 0 THEN Begun(start.x, start.yaw) ELSE AddStraightMidpoint(filled[k - 1], target)
            step == [e \in (1 .. n) \X S |-> AddStraightMidpoint(e[2], target)]
<1>1. n \in Nat
  BY MissingType
<1>2. base \in S
  OBVIOUS
<1>3. ASSUME NEW k \in 1 .. n, NEW c \in S  PROVE AddStraightMidpoint(c, target) \in S
  OBVIOUS
<1>. HIDE DEF n
<1>4. step \in [(1 .. n) \X S -> S]
  BY <1>3
<1>5. PICK g \in [0 .. n -> S] : Chain(g, n, base, step)
  BY <1>1, <1>2, <1>4, Recursion
<1>6. ASSUME NEW k \in 1 .. n  PROVE g[k] = AddStraightMidpoint(g[k - 1], target)
  <2>1. k - 1 \in 0 .. n
    BY <1>1
  <2>2. <<k, g[k - 1]>> \in (1 .. n) \X S /\ g[k] = step[<<k, g[k - 1]>>]
    BY <1>5, <2>1 DEF Chain
  <2>. QED  BY <2>2
<1>7. g = [k \in 0 .. n |-> IF k = 0 THEN base ELSE AddStraightMidpoint(g[k - 1], target)]
  <2>1. ASSUME NEW k \in 0 .. n  PROVE k = 0 \/ k \in 1 .. n
    BY <1>1
  <2>. QED  BY <1>5, <1>6, <2>1 DEF Chain
<1>8. filled = [k \in 0 .. n |-> IF k = 0 THEN base ELSE AddStraightMidpoint(filled[k - 1], target)]
  BY <1>7
<1>. HIDE DEF filled
<1>9. filled[0] = base
  BY <1>1, <1>8
<1>10. ASSUME NEW k \in 1 .. n  PROVE filled[k] = AddStraightMidpoint(filled[k - 1], target)
  <2>1. k \in 0 .. n /\ k # 0
    BY <1>1
  <2>. QED  BY <2>1, <1>8
<1>11. \A k \in 1 .. n : filled[k - 1] \in S => filled[k] \in S
  BY <1>3, <1>10
<1>12. \A k \in 0 .. n : filled[k] \in S
  BY <1>1, <1>2, <1>9, <1>11, AllTyped
<1>13. InitTrajectoryToGoalStraight(start, goal, minSamples)
         = Closed(filled[n], target, TravelTime(BackPose(filled[n]), target))
  BY DEF InitTrajectoryToGoalStraight, filled, n
<1>14. filled[n] \in S
  BY <1>1, <1>12
<1>. QED  BY <1>13, <1>14 DEF EndsStraight

\* The straight band between two poses.
LEMMA InitTrajectoryToGoalStraightType ==
  ASSUME NEW start \in Samples, NEW goal \in Samples, NEW minSamples \in Nat
  PROVE  InitTrajectoryToGoalStraight(start, goal, minSamples) \in ProperBands
<1>. DEFINE target == PoseAt(goal.x, goal.yaw)
<1>1. target \in PoseRecords
  BY PoseAtType DEF Samples
<1>2. Begun(start.x, start.yaw) \in TimedBands
  BY BegunType DEF Samples
<1>. HIDE DEF target
<1>3. \A c \in TimedBands : AddStraightMidpoint(c, target) \in TimedBands
  BY <1>1, AddStraightMidpointType
<1>4. PICK b \in TimedBands :
        EndsStraight(InitTrajectoryToGoalStraight(start, goal, minSamples), b, target)
  <2>1. target = PoseAt(goal.x, goal.yaw)
    BY DEF target
  <2>. QED  BY <1>2, <1>3, <2>1, StraightFilledIn
<1>5. TravelTime(BackPose(b), target) \in Nat
  BY <1>1, TravelTimeType, Indexed, PosesArePlaced
<1>. QED  BY <1>1, <1>4, <1>5, ClosedType DEF EndsStraight

-----------------------------------------------------------------------------
(* The pivot seed.                                                         *)

\* The samples of a seed.
Seeds == Seq(Placed) \ {<<>>}

LEMMA SeedLast ==
  ASSUME NEW seed \in Seeds
  PROVE  Last(seed) \in Placed /\ Last(seed).x \in Int /\ Last(seed).yaw \in Int
<1>1. Last(seed) \in Placed
  BY PlanEnds DEF Seeds
<1>. QED  BY <1>1, PlacedParts

LEMMA SeedAppended ==
  ASSUME NEW seed \in Seeds, NEW p \in Placed
  PROVE  Append(seed, p) \in Seeds
<1>1. seed \in Seq(Placed) /\ Len(seed) \in Nat
  BY DEF Seeds
<1>2. Append(seed, p) \in Seq(Placed) /\ Len(Append(seed, p)) = Len(seed) + 1
  BY <1>1, AppendProperties
<1>3. Append(seed, p) # <<>>
  BY <1>1, <1>2, EmptySeq
<1>. QED  BY <1>2, <1>3 DEF Seeds

LEMMA SeedExtended ==
  ASSUME NEW seed \in Seeds, NEW more \in Seq(Placed)
  PROVE  seed \o more \in Seeds
<1>1. seed \in Seq(Placed) /\ Len(seed) \in Nat \ {0} /\ Len(more) \in Nat
  BY PlanEnds DEF Seeds
<1>2. seed \o more \in Seq(Placed) /\ Len(seed \o more) = Len(seed) + Len(more)
  BY <1>1, ConcatProperties
<1>3. seed \o more # <<>>
  BY <1>1, <1>2, EmptySeq
<1>. QED  BY <1>2, <1>3 DEF Seeds

\* A turn in pieces.
LEMMA AppendTurnType ==
  ASSUME NEW seed \in Seeds, NEW swept \in Int
  PROVE  AppendTurn(seed, swept) \in Seeds
<1>. DEFINE pieces == (Magnitude(swept) + Quarter - 1) \div Quarter
            last == Last(seed)
            more == [j \in 1 .. pieces |-> PoseAt(last.x, last.yaw + (swept * j) \div pieces)]
<1>1. pieces \in Nat
  <2>1. Magnitude(swept) \in Nat
    BY MagnitudeType
  <2>. QED  BY <2>1 DEF Quarter
<1>. HIDE DEF pieces
<1>2. ASSUME NEW j \in 1 .. pieces
      PROVE  PoseAt(last.x, last.yaw + (swept * j) \div pieces) \in Placed
  <2>. DEFINE a == swept * j
  <2>1. \A c, d \in Int : c * d \in Int
    OBVIOUS
  <2>2. a \in Int /\ pieces \in Nat \ {0}
    BY <1>1, <2>1
  <2>. HIDE DEF a
  <2>3. a \div pieces \in Int
    BY <2>2
  <2>4. last.x \in Int /\ last.yaw \in Int
    BY SeedLast
  <2>5. PoseAt(last.x, last.yaw + a \div pieces) \in PoseRecords
    BY <2>3, <2>4, PoseAtType
  <2>. QED  BY <2>5, PosesArePlaced DEF a
<1>3. AppendTurn(seed, swept) = seed \o more
  BY DEF AppendTurn, pieces
<1>4. more \in Seq(Placed)
  BY <1>1, <1>2
<1>. HIDE DEF more
<1>. QED  BY <1>3, <1>4, SeedExtended

LEMMA TravelHeadingType ==
  ASSUME NEW yaw \in Int, NEW dx \in Int, NEW backwards \in BOOLEAN
  PROVE  TravelHeading(yaw, dx, backwards) \in Int
<1>. DEFINE forward == IF dx > 0 THEN 0 ELSE FullTurn \div 2
<1>1. forward \in Int /\ forward + FullTurn \div 2 \in Int
  BY DEF FullTurn
<1>2. TravelHeading(yaw, dx, backwards) \in {forward, forward + FullTurn \div 2}
  BY DEF TravelHeading
<1>. QED  BY <1>1, <1>2

LEMMA SurgeToType ==
  ASSUME NEW seed \in Seeds, NEW x \in Int, NEW backwards \in BOOLEAN
  PROVE  SurgeTo(seed, x, backwards) \in Seeds
<1>. DEFINE from == Last(seed)
            dx == x - from.x
            angle == Normalize(TravelHeading(from.yaw, dx, backwards) - from.yaw)
            aligned == AppendTurn(seed, angle)
<1>1. from.x \in Int /\ from.yaw \in Int /\ dx \in Int
  BY SeedLast
<1>2. TravelHeading(from.yaw, dx, backwards) - from.yaw \in Int
  BY <1>1, TravelHeadingType
<1>3. angle \in Int
  BY <1>2, NormalizeType
<1>4. SurgeTo(seed, x, backwards) = IF dx = 0 THEN seed ELSE Append(aligned, PoseAt(x, Last(aligned).yaw))
  BY DEF SurgeTo
<1>. HIDE DEF angle
<1>5. aligned \in Seeds
  BY <1>3, AppendTurnType
<1>. HIDE DEF aligned
<1>6. PoseAt(x, Last(aligned).yaw) \in Placed
  BY <1>5, SeedLast, PoseAtType, PosesArePlaced
<1>7. Append(aligned, PoseAt(x, Last(aligned).yaw)) \in Seeds
  BY <1>5, <1>6, SeedAppended
<1>. QED  BY <1>4, <1>7

LEMMA AddLegType ==
  ASSUME NEW seed \in Seeds, NEW guide \in Seq(Placed), NEW i \in 1 .. Len(guide),
         NEW backwards \in BOOLEAN, NEW keepBranch \in BOOLEAN, NEW terminalYaw \in Int
  PROVE  AddLeg(seed, guide, i, backwards, keepBranch, terminalYaw) \in Seeds
<1>. DEFINE moved == SurgeTo(seed, guide[i].x, backwards)
            turn0 == IF i = Len(guide) /\ keepBranch THEN terminalYaw - Last(moved).yaw
                     ELSE Normalize(guide[i].yaw - Last(moved).yaw)
<1>1. guide[i].x \in Int /\ guide[i].yaw \in Int
  BY Elements, PlacedParts
<1>2. moved \in Seeds
  BY <1>1, SurgeToType
<1>3. AddLeg(seed, guide, i, backwards, keepBranch, terminalYaw) \in {AppendTurn(moved, turn0), moved}
  BY DEF AddLeg
<1>. HIDE DEF moved
<1>4. Last(moved).yaw \in Int
  BY <1>2, SeedLast
<1>8. terminalYaw - Last(moved).yaw \in Int /\ guide[i].yaw - Last(moved).yaw \in Int
  BY <1>1, <1>4
<1>5. terminalYaw - Last(moved).yaw \in Int /\ Normalize(guide[i].yaw - Last(moved).yaw) \in Int
  BY <1>8, NormalizeType
<1>6. turn0 \in Int
  BY <1>5
<1>. HIDE DEF turn0
<1>7. AppendTurn(moved, turn0) \in Seeds
  BY <1>2, <1>6, AppendTurnType
<1>. QED  BY <1>2, <1>3, <1>7

\* The guide keeps the first and the last sample of a plan.
LEMMA GuideType ==
  ASSUME NEW plan \in Seeds
  PROVE  /\ Guide(plan) \in Seeds /\ Len(Guide(plan)) >= 2
         /\ Guide(plan)[1] = plan[1] /\ Last(Guide(plan)) = Last(plan)
<1>. DEFINE Kept == {s \in Seeds : s[1] = plan[1]}
            n == Larger(0, Len(plan) - 2)
            base == <<plan[1]>>
            kept[k \in 0 .. n] == IF k = 0 THEN <<plan[1]>> ELSE (IF Straight(kept[k - 1], plan, k + 1) THEN kept[k - 1] ELSE Append(kept[k - 1], plan[k + 1]))
            step == [e \in (1 .. n) \X Kept |-> (IF Straight(e[2], plan, e[1] + 1) THEN e[2] ELSE Append(e[2], plan[e[1] + 1]))]
<1>1. n \in Nat
  BY InteriorType DEF Seeds
<1>2. base \in Kept
  <2>1. plan[1] \in Placed
    BY PlanEnds DEF Seeds
  <2>. DEFINE p == plan[1]
  <2>. HIDE DEF p
  <2>2. <<p>> \in Seq(Placed) /\ Len(<<p>>) = 1
    BY <2>1 DEF p
  <2>3. <<p>> # <<>>
    BY <2>2, EmptySeq
  <2>. QED  BY <2>2, <2>3 DEF Seeds, p
<1>3. ASSUME NEW k \in 1 .. n, NEW c \in Kept  PROVE (IF Straight(c, plan, k + 1) THEN c ELSE Append(c, plan[k + 1])) \in Kept
  <2>1. k + 1 \in 1 .. Len(plan)
    BY InteriorType DEF Seeds
  <2>2. plan[k + 1] \in Placed
    BY <2>1, Elements DEF Seeds
  <2>3. Append(c, plan[k + 1]) \in Seeds
    BY <2>2, SeedAppended
  <2>4. Append(c, plan[k + 1])[1] = c[1]
    <3>1. c \in Seq(Placed) /\ 1 \in 1 .. Len(c)
      BY PlanEnds DEF Seeds
    <3>. QED  BY <2>2, <3>1, AppendProperties
  <2>. QED  BY <2>3, <2>4
<1>. HIDE DEF n, base
<1>4. step \in [(1 .. n) \X Kept -> Kept]
  BY <1>3
<1>5. PICK g \in [0 .. n -> Kept] : Chain(g, n, base, step)
  BY <1>1, <1>2, <1>4, Recursion
<1>6. ASSUME NEW k \in 1 .. n  PROVE g[k] = (IF Straight(g[k - 1], plan, k + 1) THEN g[k - 1] ELSE Append(g[k - 1], plan[k + 1]))
  <2>1. k - 1 \in 0 .. n
    BY <1>1
  <2>2. <<k, g[k - 1]>> \in (1 .. n) \X Kept /\ g[k] = step[<<k, g[k - 1]>>]
    BY <1>5, <2>1 DEF Chain
  <2>. QED  BY <2>2
<1>7. g = [k \in 0 .. n |-> IF k = 0 THEN base ELSE (IF Straight(g[k - 1], plan, k + 1) THEN g[k - 1] ELSE Append(g[k - 1], plan[k + 1]))]
  <2>1. ASSUME NEW k \in 0 .. n  PROVE k = 0 \/ k \in 1 .. n
    BY <1>1
  <2>. QED  BY <1>5, <1>6, <2>1 DEF Chain
<1>8. kept = [k \in 0 .. n |-> IF k = 0 THEN base ELSE (IF Straight(kept[k - 1], plan, k + 1) THEN kept[k - 1] ELSE Append(kept[k - 1], plan[k + 1]))]
  BY <1>7 DEF base
<1>. HIDE DEF kept
<1>9. kept[0] = base
  BY <1>1, <1>8
<1>10. ASSUME NEW k \in 1 .. n  PROVE kept[k] = (IF Straight(kept[k - 1], plan, k + 1) THEN kept[k - 1] ELSE Append(kept[k - 1], plan[k + 1]))
  <2>1. k \in 0 .. n /\ k # 0
    BY <1>1
  <2>. QED  BY <2>1, <1>8
<1>11. \A k \in 1 .. n : kept[k - 1] \in Kept => kept[k] \in Kept
  BY <1>3, <1>10
<1>12. \A k \in 0 .. n : kept[k] \in Kept
  BY <1>1, <1>2, <1>9, <1>11, AllTyped
<1>13. Guide(plan) = Append(kept[n], Last(plan))
  BY DEF Guide, kept, n
<1>14. Last(plan) \in Placed
  BY SeedLast
<1>15. kept[n] \in Seeds /\ kept[n][1] = plan[1]
  BY <1>1, <1>12
<1>. DEFINE s == kept[n]  l == Last(plan)
<1>16. s \in Seq(Placed) /\ Len(s) \in Nat \ {0}
  BY <1>15, PlanEnds DEF Seeds
<1>. HIDE DEF s, l
<1>17. /\ Len(Append(s, l)) = Len(s) + 1 /\ Append(s, l)[Len(s) + 1] = l
       /\ Append(s, l)[1] = s[1]
  <2>1. l \in Placed /\ 1 \in 1 .. Len(s)
    BY <1>14, <1>16 DEF l
  <2>. QED  BY <1>16, <2>1, AppendProperties
<1>18. Append(s, l) \in Seeds
  BY <1>14, <1>15, SeedAppended DEF s, l
<1>19. Len(Append(s, l)) >= 2 /\ Last(Append(s, l)) = l
  BY <1>16, <1>17 DEF Last
<1>. QED  BY <1>13, <1>15, <1>17, <1>18, <1>19 DEF s, l

\* A pivot seed grows leg by leg, and is never empty.
GrowsToPivotSeed(g, plan, backwards, keepBranch, terminalYaw) ==
  LET guide == Guide(plan)  n == Len(guide) - 1 IN
  /\ g[0] = <<guide[1]>> /\ PivotSeed(plan, backwards, keepBranch, terminalYaw) = g[n]
  /\ \A k \in 1 .. n :
       g[k] = AddLeg(g[k - 1], guide, k + 1, backwards, keepBranch, terminalYaw)
  /\ \A k \in 0 .. n : g[k] \in Seeds

LEMMA PivotSeedSteps ==
  ASSUME NEW plan \in Seeds, NEW backwards \in BOOLEAN, NEW keepBranch \in BOOLEAN, NEW terminalYaw \in Int
  PROVE  \E g : GrowsToPivotSeed(g, plan, backwards, keepBranch, terminalYaw)
<1>. DEFINE guide == Guide(plan)
<1>0. guide \in Seeds /\ Len(guide) \in Nat \ {0}
  BY GuideType, PlanEnds DEF Seeds
<1>. DEFINE n == Len(guide) - 1
            base == <<guide[1]>>
            seed[k \in 0 .. n] == IF k = 0 THEN <<guide[1]>> ELSE AddLeg(seed[k - 1], guide, k + 1, backwards, keepBranch, terminalYaw)
            step == [e \in (1 .. n) \X Seeds |-> AddLeg(e[2], guide, e[1] + 1, backwards, keepBranch, terminalYaw)]
<1>1. n \in Nat
  BY <1>0, PlanEnds DEF Seeds
<1>2. base \in Seeds
  <2>1. guide[1] \in Placed
    BY <1>0, PlanEnds DEF Seeds
  <2>. DEFINE p == guide[1]
  <2>. HIDE DEF p
  <2>2. <<p>> \in Seq(Placed) /\ Len(<<p>>) = 1
    BY <2>1 DEF p
  <2>3. <<p>> # <<>>
    BY <2>2, EmptySeq
  <2>. QED  BY <2>2, <2>3 DEF Seeds, p
<1>3. ASSUME NEW k \in 1 .. n, NEW c \in Seeds  PROVE AddLeg(c, guide, k + 1, backwards, keepBranch, terminalYaw) \in Seeds
  <2>1. guide \in Seq(Placed) /\ k + 1 \in 1 .. Len(guide)
    BY <1>0 DEF Seeds
  <2>. QED  BY <2>1, AddLegType
<1>. HIDE DEF n, base
<1>4. step \in [(1 .. n) \X Seeds -> Seeds]
  BY <1>3
<1>5. PICK g \in [0 .. n -> Seeds] : Chain(g, n, base, step)
  BY <1>1, <1>2, <1>4, Recursion
<1>6. ASSUME NEW k \in 1 .. n  PROVE g[k] = AddLeg(g[k - 1], guide, k + 1, backwards, keepBranch, terminalYaw)
  <2>1. k - 1 \in 0 .. n
    BY <1>1
  <2>2. <<k, g[k - 1]>> \in (1 .. n) \X Seeds /\ g[k] = step[<<k, g[k - 1]>>]
    BY <1>5, <2>1 DEF Chain
  <2>. QED  BY <2>2
<1>7. g = [k \in 0 .. n |-> IF k = 0 THEN base ELSE AddLeg(g[k - 1], guide, k + 1, backwards, keepBranch, terminalYaw)]
  <2>1. ASSUME NEW k \in 0 .. n  PROVE k = 0 \/ k \in 1 .. n
    BY <1>1
  <2>. QED  BY <1>5, <1>6, <2>1 DEF Chain
<1>8. seed = [k \in 0 .. n |-> IF k = 0 THEN base ELSE AddLeg(seed[k - 1], guide, k + 1, backwards, keepBranch, terminalYaw)]
  BY <1>7 DEF base
<1>. HIDE DEF seed
<1>9. seed[0] = base
  BY <1>1, <1>8
<1>10. ASSUME NEW k \in 1 .. n  PROVE seed[k] = AddLeg(seed[k - 1], guide, k + 1, backwards, keepBranch, terminalYaw)
  <2>1. k \in 0 .. n /\ k # 0
    BY <1>1
  <2>. QED  BY <2>1, <1>8
<1>11. \A k \in 1 .. n : seed[k - 1] \in Seeds => seed[k] \in Seeds
  BY <1>3, <1>10
<1>12. \A k \in 0 .. n : seed[k] \in Seeds
  BY <1>1, <1>2, <1>9, <1>11, AllTyped
<1>13. PivotSeed(plan, backwards, keepBranch, terminalYaw) = seed[n]
  BY DEF PivotSeed, seed, n
<1>14. GrowsToPivotSeed(seed, plan, backwards, keepBranch, terminalYaw)
  BY <1>9, <1>10, <1>12, <1>13 DEF n, base, GrowsToPivotSeed
<1>. QED  BY <1>14

LEMMA PivotSeedType ==
  ASSUME NEW plan \in Seeds, NEW backwards \in BOOLEAN, NEW keepBranch \in BOOLEAN, NEW terminalYaw \in Int
  PROVE  PivotSeed(plan, backwards, keepBranch, terminalYaw) \in Seeds
<1>. DEFINE n == Len(Guide(plan)) - 1
<1>0. PICK g : GrowsToPivotSeed(g, plan, backwards, keepBranch, terminalYaw)
  BY PivotSeedSteps
<1>1. /\ PivotSeed(plan, backwards, keepBranch, terminalYaw) = g[n]
      /\ \A k \in 0 .. n : g[k] \in Seeds
  BY <1>0 DEF GrowsToPivotSeed
<1>2. n \in 0 .. n
  BY GuideType, PlanEnds DEF Seeds
<1>. HIDE DEF n
<1>. QED  BY <1>1, <1>2

-----------------------------------------------------------------------------
(* Bands of a given size, as poses and time differences come and go.       *)

Sized(p, d) == {b \in Bands : Len(b.poses) = p /\ Len(b.dts) = d}

LEMMA SizedParts ==
  ASSUME NEW p \in Nat, NEW d \in Nat, NEW b \in Sized(p, d)
  PROVE  /\ b = [poses |-> b.poses, dts |-> b.dts]
         /\ b.poses \in Seq(PoseRecords) /\ b.dts \in Seq(Nat)
         /\ Len(b.poses) = p /\ Len(b.dts) = d
         /\ SizePoses(b) = p /\ SizeTimeDiffs(b) = d
         /\ \A i \in 1 .. p : b.poses[i] \in PoseRecords
         /\ \A i \in 1 .. d : b.dts[i] \in Nat
<1>1. b \in Bands /\ Len(b.poses) = p /\ Len(b.dts) = d
  BY DEF Sized
<1>. QED  BY <1>1, BandParts DEF SizePoses, SizeTimeDiffs

\* A band is made of as many poses and time differences.
LEMMA SizedBand ==
  ASSUME NEW p \in Nat, NEW d \in Nat, NEW poses \in Seq(PoseRecords), NEW dts \in Seq(Nat),
         Len(poses) = p, Len(dts) = d
  PROVE  [poses |-> poses, dts |-> dts] \in Sized(p, d)
BY DEF Sized, Bands

LEMMA TimedIsSized ==
  ASSUME NEW n \in Nat
  PROVE  /\ Sized(n + 1, n) \subseteq TimedBands
         /\ n >= 1 => Sized(n + 1, n) \subseteq ProperBands
BY DEF Sized, TimedBands, ProperBands

LEMMA SizedIsTimed ==
  ASSUME NEW b \in TimedBands
  PROVE  /\ SizeTimeDiffs(b) \in Nat /\ SizePoses(b) = SizeTimeDiffs(b) + 1
         /\ b \in Sized(SizeTimeDiffs(b) + 1, SizeTimeDiffs(b))
         /\ b \in ProperBands => SizeTimeDiffs(b) >= 1
BY Indexed DEF Sized, TimedBands, ProperBands, SizePoses, SizeTimeDiffs

LEMMA SetTimeDiffSize ==
  ASSUME NEW p \in Nat, NEW d \in Nat, NEW b \in Sized(p, d), NEW i \in 0 .. d - 1, NEW dt \in Nat
  PROVE  SetTimeDiff(b, i, dt) \in Sized(p, d)
<1>. DEFINE P == b.poses  D == b.dts  E == [D EXCEPT ![i + 1] = dt]
<1>1. P \in Seq(PoseRecords) /\ D \in Seq(Nat) /\ Len(P) = p /\ Len(D) = d /\ i + 1 \in 1 .. Len(D)
  BY SizedParts
<1>2. SetTimeDiff(b, i, dt) = [poses |-> P, dts |-> E]
  <2>1. SetTimeDiff(b, i, dt) = [b EXCEPT !.dts = E]
    BY <1>1 DEF SetTimeDiff, Sized, Bands
  <2>2. ASSUME NEW e0  PROVE [b EXCEPT !.dts = e0] = [poses |-> P, dts |-> e0]
    BY DEF Sized, Bands
  <2>. QED  BY <2>1, <2>2
<1>. HIDE DEF P, D
<1>3. E \in Seq(Nat) /\ Len(E) = d
  BY <1>1, Replaced
<1>. HIDE DEF E
<1>. QED  BY <1>1, <1>2, <1>3, SizedBand

LEMMA InsertPoseSize ==
  ASSUME NEW p \in Nat, NEW d \in Nat, NEW b \in Sized(p, d), NEW i \in 0 .. p, NEW e \in PoseRecords
  PROVE  InsertPose(b, i, e) \in Sized(p + 1, d)
<1>. DEFINE P == b.poses  D == b.dts  E == InsertAt(P, i + 1, e)
<1>1. P \in Seq(PoseRecords) /\ D \in Seq(Nat) /\ Len(P) = p /\ Len(D) = d
  BY SizedParts
<1>2. InsertPose(b, i, e) = [poses |-> E, dts |-> D]
  BY SizedParts DEF InsertPose
<1>. HIDE DEF P, D
<1>3. E \in Seq(PoseRecords) /\ Len(E) = p + 1
  <2>1. PICK j \in Nat : j = i + 1 /\ j \in 1 .. p + 1
    OBVIOUS
  <2>2. P \in Seq(PoseRecords) /\ Len(P) = p /\ j \in 1 .. p + 1
    BY <1>1, <2>1
  <2>3. InsertAt(P, j, e) \in Seq(PoseRecords)
    BY <2>2, Inserted
  <2>4. Len(InsertAt(P, j, e)) = p + 1
    BY <2>2, Inserted
  <2>. QED  BY <2>1, <2>3, <2>4
<1>. HIDE DEF E
<1>. QED  BY <1>1, <1>2, <1>3, SizedBand

LEMMA InsertTimeDiffSize ==
  ASSUME NEW p \in Nat, NEW d \in Nat, NEW b \in Sized(p, d), NEW i \in 0 .. d, NEW dt \in Nat
  PROVE  InsertTimeDiff(b, i, dt) \in Sized(p, d + 1)
<1>. DEFINE P == b.poses  D == b.dts  E == InsertAt(D, i + 1, dt)
<1>1. P \in Seq(PoseRecords) /\ D \in Seq(Nat) /\ Len(P) = p /\ Len(D) = d /\ i + 1 \in 1 .. d + 1
  BY SizedParts
<1>2. InsertTimeDiff(b, i, dt) = [poses |-> P, dts |-> E]
  BY SizedParts DEF InsertTimeDiff
<1>. HIDE DEF P, D
<1>3. E \in Seq(Nat) /\ Len(E) = d + 1
  BY <1>1, Inserted
<1>. HIDE DEF E
<1>. QED  BY <1>1, <1>2, <1>3, SizedBand

LEMMA DeletePoseSize ==
  ASSUME NEW p \in Nat, NEW d \in Nat, NEW b \in Sized(p, d), NEW i \in 0 .. p - 1
  PROVE  DeletePose(b, i) \in Sized(p - 1, d)
<1>. DEFINE P == b.poses  D == b.dts  E == RemoveAt(P, i + 1)
<1>1. P \in Seq(PoseRecords) /\ D \in Seq(Nat) /\ Len(P) = p /\ Len(D) = d /\ i + 1 \in 1 .. p
  BY SizedParts
<1>2. DeletePose(b, i) = [poses |-> E, dts |-> D]
  BY SizedParts DEF DeletePose
<1>. HIDE DEF P, D
<1>3. E \in Seq(PoseRecords) /\ Len(E) = p - 1 /\ p - 1 \in Nat
  BY <1>1, Removed
<1>. HIDE DEF E
<1>. QED  BY <1>1, <1>2, <1>3, SizedBand

LEMMA DeleteTimeDiffSize ==
  ASSUME NEW p \in Nat, NEW d \in Nat, NEW b \in Sized(p, d), NEW i \in 0 .. d - 1
  PROVE  DeleteTimeDiff(b, i) \in Sized(p, d - 1)
<1>. DEFINE P == b.poses  D == b.dts  E == RemoveAt(D, i + 1)
<1>1. P \in Seq(PoseRecords) /\ D \in Seq(Nat) /\ Len(P) = p /\ Len(D) = d /\ i + 1 \in 1 .. d
  BY SizedParts
<1>2. DeleteTimeDiff(b, i) = [poses |-> P, dts |-> E]
  BY SizedParts DEF DeleteTimeDiff
<1>. HIDE DEF P, D
<1>3. E \in Seq(Nat) /\ Len(E) = d - 1 /\ d - 1 \in Nat
  BY <1>1, Removed
<1>. HIDE DEF E
<1>. QED  BY <1>1, <1>2, <1>3, SizedBand

LEMMA DeletePosesSize ==
  ASSUME NEW p \in Nat, NEW d \in Nat, NEW b \in Sized(p, d), NEW i \in 0 .. p, NEW k \in 0 .. p - i
  PROVE  DeletePoses(b, i, k) \in Sized(p - k, d)
<1>. DEFINE P == b.poses  D == b.dts  E == SubSeq(P, 1, i) \o SubSeq(P, i + k + 1, p)
<1>1. P \in Seq(PoseRecords) /\ D \in Seq(Nat) /\ Len(P) = p /\ Len(D) = d
  BY SizedParts
<1>2. DeletePoses(b, i, k) = [poses |-> E, dts |-> D]
  <2>1. DeletePoses(b, i, k) = [b EXCEPT !.poses = E]
    BY <1>1 DEF DeletePoses, Sized, Bands
  <2>2. ASSUME NEW e0  PROVE [b EXCEPT !.poses = e0] = [poses |-> e0, dts |-> D]
    BY DEF Sized, Bands
  <2>. QED  BY <2>1, <2>2
<1>. HIDE DEF P, D
<1>3. E \in Seq(PoseRecords) /\ Len(E) = p - k /\ p - k \in Nat
  BY <1>1, CutOut
<1>. HIDE DEF E
<1>. QED  BY <1>1, <1>2, <1>3, SizedBand

LEMMA DeleteTimeDiffsSize ==
  ASSUME NEW p \in Nat, NEW d \in Nat, NEW b \in Sized(p, d), NEW i \in 0 .. d, NEW k \in 0 .. d - i
  PROVE  DeleteTimeDiffs(b, i, k) \in Sized(p, d - k)
<1>. DEFINE P == b.poses  D == b.dts  E == SubSeq(D, 1, i) \o SubSeq(D, i + k + 1, d)
<1>1. P \in Seq(PoseRecords) /\ D \in Seq(Nat) /\ Len(P) = p /\ Len(D) = d
  BY SizedParts
<1>2. DeleteTimeDiffs(b, i, k) = [poses |-> P, dts |-> E]
  <2>1. DeleteTimeDiffs(b, i, k) = [b EXCEPT !.dts = E]
    BY <1>1 DEF DeleteTimeDiffs, Sized, Bands
  <2>2. ASSUME NEW e0  PROVE [b EXCEPT !.dts = e0] = [poses |-> P, dts |-> e0]
    BY DEF Sized, Bands
  <2>. QED  BY <2>1, <2>2
<1>. HIDE DEF P, D
<1>3. E \in Seq(Nat) /\ Len(E) = d - k /\ d - k \in Nat
  BY <1>1, CutOut
<1>. HIDE DEF E
<1>. QED  BY <1>1, <1>2, <1>3, SizedBand

\* c is b with its pose i moved to (x, yaw).
MovesOne(c, b, i, x, yaw) ==
  \E e \in PoseRecords :
     /\ c = [poses |-> [b.poses EXCEPT ![i + 1] = e], dts |-> b.dts]
     /\ e.x = x /\ e.yaw = yaw /\ e.fixed = b.poses[i + 1].fixed

\* A pose moves.
LEMMA MovedParts ==
  ASSUME NEW p \in Nat, NEW d \in Nat, NEW b \in Sized(p, d), NEW i \in 0 .. p - 1,
         NEW x \in Int, NEW yaw \in Int
  PROVE  MovesOne(Moved(b, i, x, yaw), b, i, x, yaw)
<1>. DEFINE P == b.poses  D == b.dts
            e == [P[i + 1] EXCEPT !.x = x, !.yaw = yaw]
            E == [P EXCEPT ![i + 1] = e]
<1>1. P \in Seq(PoseRecords) /\ D \in Seq(Nat) /\ Len(P) = p /\ Len(D) = d /\ i + 1 \in 1 .. p
  BY SizedParts
<1>2. P[i + 1] \in PoseRecords
  BY <1>1, SizedParts
<1>3. e \in PoseRecords
  BY <1>2 DEF PoseRecords
<1>4. Moved(b, i, x, yaw) = [poses |-> E, dts |-> D]
  <2>1. Moved(b, i, x, yaw) = [b EXCEPT !.poses = E]
    BY <1>1, <1>2 DEF Moved, PoseRecords, Sized, Bands
  <2>2. ASSUME NEW e0  PROVE [b EXCEPT !.poses = e0] = [poses |-> e0, dts |-> D]
    BY DEF Sized, Bands
  <2>. QED  BY <2>1, <2>2
<1>5. e.x = x /\ e.yaw = yaw /\ e.fixed = P[i + 1].fixed
  BY <1>2 DEF PoseRecords
<1>. DEFINE c == Moved(b, i, x, yaw)
<1>6. c = [poses |-> [b.poses EXCEPT ![i + 1] = e], dts |-> b.dts]
  BY <1>4
<1>7. e.fixed = b.poses[i + 1].fixed
  BY <1>5
<1>. HIDE DEF c, e, E, P, D
<1>8. MovesOne(c, b, i, x, yaw)
  BY <1>3, <1>5, <1>6, <1>7 DEF MovesOne
<1>. QED  BY <1>8 DEF c

LEMMA MovedSize ==
  ASSUME NEW p \in Nat, NEW d \in Nat, NEW b \in Sized(p, d), NEW i \in 0 .. p - 1,
         NEW x \in Int, NEW yaw \in Int
  PROVE  Moved(b, i, x, yaw) \in Sized(p, d)
<1>. DEFINE P == b.poses  D == b.dts  c == Moved(b, i, x, yaw)
<1>1. P \in Seq(PoseRecords) /\ D \in Seq(Nat) /\ Len(P) = p /\ Len(D) = d /\ i + 1 \in 1 .. p
  BY SizedParts
<1>0. MovesOne(c, b, i, x, yaw)
  BY MovedParts
<1>. HIDE DEF c
<1>2. PICK e \in PoseRecords : c = [poses |-> [P EXCEPT ![i + 1] = e], dts |-> D]
  BY <1>0 DEF MovesOne
<1>. DEFINE E == [P EXCEPT ![i + 1] = e]
<1>. HIDE DEF P, D
<1>3. E \in Seq(PoseRecords) /\ Len(E) = p
  BY <1>1, <1>2, Replaced
<1>. HIDE DEF E
<1>4. c \in Sized(p, d)
  BY <1>1, <1>2, <1>3, SizedBand DEF E
<1>. QED  BY <1>4 DEF c

-----------------------------------------------------------------------------
(* autoResize().                                                           *)

LEMMA SizedIndexed ==
  ASSUME NEW p \in Nat, NEW d \in Nat, NEW b \in Sized(p, d)
  PROVE  /\ \A i \in 0 .. p - 1 : Pose(b, i) \in PoseRecords
         /\ \A i \in 0 .. d - 1 : TimeDiff(b, i) \in Nat
BY SizedParts DEF Pose, TimeDiff

LEMMA SplitSize ==
  ASSUME NEW n \in Nat, NEW b \in Sized(n + 1, n), NEW i \in 0 .. n - 1
  PROVE  Split(b, i) \in Sized((n + 1) + 1, n + 1)
<1>. DEFINE half == TimeDiff(b, i) \div 2
            rest == TimeDiff(b, i) - half
            middle == Average(Pose(b, i), Pose(b, i + 1))
            b1 == SetTimeDiff(b, i, half)
            b2 == InsertPose(b1, i + 1, middle)
<1>1. half \in Nat /\ rest \in Nat
  BY SizedIndexed
<1>2. i \in 0 .. (n + 1) - 1 /\ i + 1 \in 0 .. (n + 1) - 1 /\ n + 1 \in Nat /\ (n + 1) + 1 \in Nat
      /\ i + 1 \in 0 .. n + 1 /\ i + 1 \in 0 .. n
  OBVIOUS
<1>3. middle \in PoseRecords
  BY <1>2, SizedIndexed, AverageType
<1>. HIDE DEF half, rest, middle
<1>4. b1 \in Sized(n + 1, n)
  BY <1>1, <1>2, SetTimeDiffSize
<1>. HIDE DEF b1
<1>5. b2 \in Sized((n + 1) + 1, n)
  BY <1>2, <1>3, <1>4, InsertPoseSize
<1>. HIDE DEF b2
<1>6. InsertTimeDiff(b2, i + 1, rest) \in Sized((n + 1) + 1, n + 1)
  BY <1>1, <1>2, <1>5, InsertTimeDiffSize
<1>. QED  BY <1>6 DEF Split, half, rest, middle, b1, b2

LEMMA ShiftExcessSize ==
  ASSUME NEW n \in Nat, NEW b \in Sized(n + 1, n), NEW i \in 0 .. n - 1, NEW dtRef \in Nat,
         TimeDiff(b, i) >= dtRef
  PROVE  ShiftExcess(b, i, dtRef) \in Sized(n + 1, n)
<1>. DEFINE dt == TimeDiff(b, i + 1) + TimeDiff(b, i) - dtRef
            shifted == IF i < SizeTimeDiffs(b) - 1 THEN SetTimeDiff(b, i + 1, dt) ELSE b
<1>1. n + 1 \in Nat /\ SizeTimeDiffs(b) = n
  BY SizedParts
<1>2. CASE i < n - 1
  <2>1. i + 1 \in 0 .. n - 1
    BY <1>2
  <2>2. dt \in Nat
    BY <1>1, <2>1, SizedIndexed
  <2>3. SetTimeDiff(b, i + 1, dt) \in Sized(n + 1, n)
    BY <1>1, <2>1, <2>2, SetTimeDiffSize
  <2>4. shifted \in Sized(n + 1, n)
    BY <2>3
  <2>. QED  BY <1>1, <2>4, SetTimeDiffSize DEF ShiftExcess
<1>3. CASE ~(i < n - 1)
  <2>1. shifted = b
    BY <1>1, <1>3
  <2>. QED  BY <1>1, <2>1, SetTimeDiffSize DEF ShiftExcess
<1>. QED  BY <1>2, <1>3

\* An interval is merged into a neighbour j; pose q goes with it.
LEMMA MergeSize ==
  ASSUME NEW n \in Nat, NEW b \in Sized(n + 1, n), NEW i \in 0 .. n - 1, NEW j \in 0 .. n - 1,
         NEW q \in 0 .. n
  PROVE  DeletePose(DeleteTimeDiff(SetTimeDiff(b, j, TimeDiff(b, j) + TimeDiff(b, i)), i), q)
           \in Sized((n + 1) - 1, n - 1)
<1>. DEFINE dt == TimeDiff(b, j) + TimeDiff(b, i)
            b1 == SetTimeDiff(b, j, dt)
            b2 == DeleteTimeDiff(b1, i)
<1>1. n + 1 \in Nat /\ n - 1 \in Nat /\ q \in 0 .. (n + 1) - 1 /\ (n + 1) - 1 \in Nat
  OBVIOUS
<1>2. dt \in Nat
  BY <1>1, SizedIndexed
<1>. HIDE DEF dt
<1>3. b1 \in Sized(n + 1, n)
  BY <1>1, <1>2, SetTimeDiffSize
<1>. HIDE DEF b1
<1>4. b2 \in Sized(n + 1, n - 1)
  BY <1>1, <1>3, DeleteTimeDiffSize
<1>. HIDE DEF b2
<1>5. DeletePose(b2, q) \in Sized((n + 1) - 1, n - 1)
  BY <1>1, <1>4, DeletePoseSize
<1>. QED  BY <1>5 DEF b2, b1, dt

\* What a step of the resizing returns.
LEMMA ResizeStepType ==
  ASSUME NEW b \in ProperBands, NEW i \in Nat, i < SizeTimeDiffs(b), NEW c \in ConfigRecords
  PROVE  /\ ResizeStep(b, i, c).band \in ProperBands
         /\ ResizeStep(b, i, c).next \in Nat
         /\ ResizeStep(b, i, c).modified \in BOOLEAN
<1>1. PICK n \in Nat : n = SizeTimeDiffs(b)
  BY SizedIsTimed, ProperIsTimed
<1>2. n >= 1 /\ b \in Sized(n + 1, n) /\ i \in 0 .. n - 1 /\ n + 1 \in Nat
  BY <1>1, SizedIsTimed, ProperIsTimed
<1>. DEFINE dt == TimeDiff(b, i)
            long == dt > c.dtRef + c.hysteresis /\ SizeTimeDiffs(b) < c.maxSamples
            short == dt < c.dtRef - c.hysteresis /\ SizeTimeDiffs(b) > c.minSamples
            more == dt > 2 * c.dtRef
            inner == i < SizeTimeDiffs(b) - 1
            r1 == [band |-> Split(b, i), next |-> i, modified |-> TRUE]
            r2 == [band |-> ShiftExcess(b, i, c.dtRef), next |-> i + 1, modified |-> FALSE]
            r3 == [band |-> MergeIntoNext(b, i), next |-> i, modified |-> TRUE]
            r4 == [band |-> MergeIntoPrevious(b, i), next |-> i + 1, modified |-> TRUE]
            r5 == [band |-> b, next |-> i + 1, modified |-> FALSE]
            Fine(r) == r.band \in ProperBands /\ r.next \in Nat /\ r.modified \in BOOLEAN
<1>3. dt \in Nat /\ c.dtRef \in Nat /\ c.hysteresis \in Nat /\ c.minSamples \in Nat /\ c.minSamples >= 3
  <2>1. dt \in Nat
    BY <1>2, SizedIndexed
  <2>2. c.dtRef \in Nat \ {0} /\ c.hysteresis \in Nat /\ c.minSamples \in Nat \ (0 .. 2)
    BY DEF ConfigRecords
  <2>. QED  BY <2>1, <2>2
<1>4. long => Fine(r1) /\ Fine(r2)
  <2>1. SUFFICES ASSUME long  PROVE Fine(r1) /\ Fine(r2)
    OBVIOUS
  <2>2. Split(b, i) \in ProperBands
    <3>1. Split(b, i) \in Sized((n + 1) + 1, n + 1) /\ n + 1 >= 1
      BY <1>2, SplitSize
    <3>. QED  BY <1>2, <3>1, TimedIsSized
  <2>3. dt >= c.dtRef
    BY <1>3, <2>1
  <2>4. ShiftExcess(b, i, c.dtRef) \in ProperBands
    <3>1. ShiftExcess(b, i, c.dtRef) \in Sized(n + 1, n)
      BY <1>2, <1>3, <2>3, ShiftExcessSize
    <3>. QED  BY <1>2, <3>1, TimedIsSized
  <2>. QED  BY <2>2, <2>4
<1>5. short /\ inner => Fine(r3)
  <2>1. SUFFICES ASSUME short, inner  PROVE Fine(r3)
    OBVIOUS
  <2>2. n > 3 /\ i + 1 \in 0 .. n - 1 /\ i + 1 \in 0 .. n
    BY <1>1, <1>2, <1>3, <2>1
  <2>3. MergeIntoNext(b, i) \in Sized((n + 1) - 1, n - 1)
    BY <1>2, <2>2, MergeSize DEF MergeIntoNext
  <2>4. (n + 1) - 1 = (n - 1) + 1 /\ n - 1 \in Nat /\ n - 1 >= 1
    BY <2>2
  <2>5. MergeIntoNext(b, i) \in ProperBands
    BY <2>3, <2>4, TimedIsSized
  <2>. QED  BY <2>5
<1>6. short /\ i = SizeTimeDiffs(b) - 1 => Fine(r4)
  <2>1. SUFFICES ASSUME short, i = n - 1  PROVE Fine(r4)
    BY <1>1
  <2>2. n > 3 /\ i - 1 \in 0 .. n - 1 /\ i \in 0 .. n
    BY <1>1, <1>2, <1>3, <2>1
  <2>3. MergeIntoPrevious(b, i) \in Sized((n + 1) - 1, n - 1)
    BY <1>2, <2>2, MergeSize DEF MergeIntoPrevious
  <2>4. (n + 1) - 1 = (n - 1) + 1 /\ n - 1 \in Nat /\ n - 1 >= 1
    BY <2>2
  <2>5. MergeIntoPrevious(b, i) \in ProperBands
    BY <2>3, <2>4, TimedIsSized
  <2>. QED  BY <2>5
<1>7. Fine(r5)
  OBVIOUS
<1>8. ResizeStep(b, i, c) =
        CASE long /\ dt > 2 * c.dtRef -> r1
          [] long /\ dt <= 2 * c.dtRef -> r2
          [] ~long /\ short /\ i < SizeTimeDiffs(b) - 1 -> r3
          [] ~long /\ short /\ i = SizeTimeDiffs(b) - 1 -> r4
          [] OTHER -> r5
  BY Zenon DEF ResizeStep
<1>10. \/ ResizeStep(b, i, c) = r5
       \/ long /\ ResizeStep(b, i, c) \in {r1, r2}
       \/ short /\ i < SizeTimeDiffs(b) - 1 /\ ResizeStep(b, i, c) = r3
       \/ short /\ i = SizeTimeDiffs(b) - 1 /\ ResizeStep(b, i, c) = r4
  <2>. HIDE DEF r1, r2, r3, r4, r5, long, short, dt
  <2>. QED  BY <1>8
<1>11. Fine(ResizeStep(b, i, c))
  <2>. HIDE DEF r1, r2, r3, r4, r5, long, short, dt, Fine
  <2>. QED  BY <1>4, <1>5, <1>6, <1>7, <1>10 DEF inner
<1>. QED  BY <1>11

-----------------------------------------------------------------------------
(* updateAndPruneTEB().                                                    *)

\* A set of numbers up to a bound has a greatest element.
LEMMA GreatestNatural ==
  ASSUME NEW n \in Nat, NEW S \in SUBSET (0 .. n), S # {}
  PROVE  \E m \in S : \A k \in S : k <= m
<1>. DEFINE T == {n - k : k \in S}
<1>1. T \in SUBSET Nat /\ T # {}
  <2>1. PICK k \in S : TRUE
    OBVIOUS
  <2>2. n - k \in T
    BY <2>1
  <2>3. T \in SUBSET Nat
    OBVIOUS
  <2>. QED  BY <2>2, <2>3
<1>2. PICK t \in T : \A k \in T : t <= k
  BY <1>1, LeastNatural
<1>3. PICK m \in S : t = n - m
  BY <1>2
<1>4. ASSUME NEW k \in S  PROVE k <= m
  <2>1. n - k \in T
    OBVIOUS
  <2>2. n - m <= n - k
    BY <1>2, <1>3, <2>1
  <2>. QED  BY <2>2
<1>. QED  BY <1>4

\* At least two poses are left by the pruning.
LEMMA NearestAheadType ==
  ASSUME NEW b \in ProperBands, NEW start \in Samples, NEW minSamples \in Nat, minSamples >= 2,
         NEW timed \in BOOLEAN
  PROVE  NearestAhead(b, start, minSamples, timed) \in 0 .. SizePoses(b) - 2
<1>. DEFINE lookahead == Smaller(SizePoses(b) - (IF timed THEN 2 ELSE minSamples), 10)
            descending == {k \in 1 .. lookahead :
                             \A i \in 1 .. k : StartDistance(b, i, start, timed)
                                                 <= StartDistance(b, i - 1, start, timed)}
<1>0. SizePoses(b) \in Nat /\ SizePoses(b) >= 2
  BY Indexed, ProperIsTimed DEF ProperBands, SizePoses
<1>1. lookahead \in Int /\ lookahead <= SizePoses(b) - 2
  <2>. DEFINE least == IF timed THEN 2 ELSE minSamples
  <2>1. least \in Nat /\ least >= 2
    OBVIOUS
  <2>. HIDE DEF least
  <2>. QED  BY <1>0, <2>1 DEF Smaller, least
<1>. HIDE DEF lookahead
<1>2. descending \in SUBSET (0 .. SizePoses(b) - 2)
  BY <1>0, <1>1
<1>3. NearestAhead(b, start, minSamples, timed) =
        IF descending = {} THEN 0 ELSE CHOOSE k \in descending : \A i \in descending : i <= k
  BY DEF NearestAhead, lookahead
<1>. HIDE DEF descending
<1>4. SizePoses(b) - 2 \in Nat
  BY <1>0
<1>5. CASE descending = {}
  BY <1>3, <1>4, <1>5
<1>6. CASE descending # {}
  <2>1. \E m \in descending : \A k \in descending : k <= m
    <3>1. PICK m \in Nat : m = SizePoses(b) - 2
      BY <1>4
    <3>. QED  BY <1>2, <1>6, <3>1, GreatestNatural
  <2>2. (CHOOSE k \in descending : \A i \in descending : i <= k) \in descending
    BY <2>1
  <2>. QED  BY <1>2, <1>3, <1>6, <2>2
<1>. QED  BY <1>5, <1>6

\* The poses passed are gone, and the first and the last one move.
MovesEnds(c, b, start, goal, n, pruned) ==
  /\ pruned \in Sized(n + 1, n)
  /\ Pose(pruned, 0) = Pose(b, 0) /\ Pose(pruned, n) = BackPose(b)
  /\ c = Moved(Moved(pruned, 0, start.x, start.yaw), n, goal.x, goal.yaw)

LEMMA UpdateAndPruneTEBSteps ==
  ASSUME NEW b \in ProperBands, NEW start \in Samples, NEW goal \in Samples,
         NEW minSamples \in Nat, minSamples >= 2, NEW timed \in BOOLEAN
  PROVE  \E n \in Nat \ {0}, pruned \in ProperBands :
           MovesEnds(UpdateAndPruneTEB(b, start, goal, minSamples, timed), b, start, goal, n, pruned)
<1>. DEFINE k == NearestAhead(b, start, minSamples, timed)
            pruned == IF k > 0 THEN DeleteTimeDiffs(DeletePoses(b, 1, k), 0, k) ELSE b
<1>1. PICK n \in Nat : n = SizeTimeDiffs(b)
  BY SizedIsTimed, ProperIsTimed
<1>2. n >= 1 /\ b \in Sized(n + 1, n) /\ SizePoses(b) = n + 1
  BY <1>1, SizedIsTimed, ProperIsTimed
<1>3. k \in 0 .. (n + 1) - 2
  BY <1>2, NearestAheadType
<1>. HIDE DEF k
<1>4. n - k \in Nat /\ n - k >= 1 /\ (n + 1) - k = (n - k) + 1
  BY <1>2, <1>3
<1>5. pruned \in Sized((n - k) + 1, n - k)
  <2>1. CASE k > 0
    <3>. DEFINE b1 == DeletePoses(b, 1, k)
    <3>1. n + 1 \in Nat /\ 1 \in 0 .. n + 1 /\ k \in 0 .. (n + 1) - 1 /\ (n + 1) - k \in Nat
          /\ 0 \in 0 .. n /\ k \in 0 .. n - 0
      BY <1>3, <1>4
    <3>2. b1 \in Sized((n + 1) - k, n)
      BY <1>2, <3>1, DeletePosesSize
    <3>. HIDE DEF b1
    <3>3. DeleteTimeDiffs(b1, 0, k) \in Sized((n + 1) - k, n - k)
      BY <3>1, <3>2, DeleteTimeDiffsSize
    <3>. QED  BY <1>4, <2>1, <3>3 DEF b1
  <2>2. CASE ~(k > 0)
    <3>1. k = 0 /\ n - k = n
      BY <1>3, <2>2
    <3>. QED  BY <1>2, <2>2, <3>1
  <2>. QED  BY <2>1, <2>2
<1>. DEFINE moved == Moved(pruned, 0, start.x, start.yaw)
            ended == Moved(moved, n - k, goal.x, goal.yaw)
<1>6. start.x \in Int /\ start.yaw \in Int /\ goal.x \in Int /\ goal.yaw \in Int
  BY DEF Samples
<1>7. (n - k) + 1 \in Nat /\ 0 \in 0 .. ((n - k) + 1) - 1 /\ n - k \in 0 .. ((n - k) + 1) - 1
  BY <1>4
<1>8. UpdateAndPruneTEB(b, start, goal, minSamples, timed) = ended
  <2>1. SizePoses(pruned) = (n - k) + 1
    BY <1>4, <1>5, <1>7, SizedParts
  <2>. HIDE DEF pruned
  <2>2. UpdateAndPruneTEB(b, start, goal, minSamples, timed) =
          [pruned EXCEPT !.poses[1].x = start.x, !.poses[1].yaw = start.yaw,
                         !.poses[SizePoses(pruned)].x = goal.x,
                         !.poses[SizePoses(pruned)].yaw = goal.yaw]
    BY DEF UpdateAndPruneTEB, pruned, k
  <2>3. ended = [[pruned EXCEPT !.poses[0 + 1].x = start.x, !.poses[0 + 1].yaw = start.yaw]
                   EXCEPT !.poses[(n - k) + 1].x = goal.x, !.poses[(n - k) + 1].yaw = goal.yaw]
    BY DEF Moved
  <2>. HIDE DEF moved, ended
  <2>4. 0 + 1 = 1
    OBVIOUS
  <2>5. ASSUME NEW c, NEW i, NEW j, NEW v1, NEW v2, NEW v3, NEW v4
        PROVE  [c EXCEPT !.poses[i].x = v1, !.poses[i].yaw = v2, !.poses[j].x = v3, !.poses[j].yaw = v4]
                 = [[c EXCEPT !.poses[i].x = v1, !.poses[i].yaw = v2]
                      EXCEPT !.poses[j].x = v3, !.poses[j].yaw = v4]
    BY Zenon
  <2>. QED  BY <2>1, <2>2, <2>3, <2>4, <2>5
<1>9. Pose(pruned, 0) = Pose(b, 0) /\ Pose(pruned, n - k) = BackPose(b)
  <2>. DEFINE P == b.poses  C == SubSeq(P, 1, 1) \o SubSeq(P, 1 + k + 1, n + 1)
  <2>1. P \in Seq(PoseRecords) /\ Len(P) = n + 1
    BY <1>2, SizedParts
  <2>2. CASE k > 0
    <3>1. pruned.poses = C
      <4>1. pruned = DeleteTimeDiffs(DeletePoses(b, 1, k), 0, k)
        BY <2>2
      <4>2. DeletePoses(b, 1, k) = [b EXCEPT !.poses = C]
        BY <1>2, <2>1 DEF DeletePoses, Sized, Bands
      <4>. HIDE DEF pruned, C
      <4>3. DeletePoses(b, 1, k) = [poses |-> C, dts |-> b.dts]
        BY <1>2, <4>2 DEF Sized, Bands
      <4>. QED  BY <4>1, <4>3 DEF DeleteTimeDiffs
    <3>2. \A j \in 1 .. (n + 1) - k : C[j] = IF j <= 1 THEN P[j] ELSE P[j + k]
      <4>1. n + 1 \in Nat /\ 1 \in 0 .. n + 1 /\ k \in 0 .. (n + 1) - 1
        BY <1>3
      <4>. HIDE DEF P
      <4>2. PICK N \in Nat : N = n + 1
        BY <4>1
      <4>3. PICK I \in 0 .. N : I = 1 /\ k \in 0 .. N - I
        BY <4>1, <4>2
      <4>4. LET c == SubSeq(P, 1, I) \o SubSeq(P, I + k + 1, N)
            IN \A j \in 1 .. N - k : c[j] = IF j <= I THEN P[j] ELSE P[j + k]
        BY <2>1, <4>2, <4>3, CutOut
      <4>. QED  BY <4>2, <4>3, <4>4
    <3>. HIDE DEF pruned, C, P
    <3>3. C[1] = P[1] /\ C[(n - k) + 1] = P[n + 1]
      <4>1. 1 \in 1 .. (n + 1) - k /\ (n - k) + 1 \in 1 .. (n + 1) - k /\ ~((n - k) + 1 <= 1)
            /\ ((n - k) + 1) + k = n + 1
        BY <1>3, <1>4
      <4>. QED  BY <3>2, <4>1
    <3>. QED  BY <2>1, <3>1, <3>3 DEF Pose, BackPose, P
  <2>3. CASE ~(k > 0)
    <3>1. k = 0 /\ n - k = n /\ pruned = b
      BY <1>3, <2>3
    <3>. HIDE DEF pruned
    <3>. QED  BY <2>1, <3>1 DEF Pose, BackPose
  <2>. QED  BY <2>2, <2>3
<1>. HIDE DEF pruned, moved, ended
<1>10. pruned \in ProperBands
  BY <1>4, <1>5, TimedIsSized
<1>11. MovesEnds(UpdateAndPruneTEB(b, start, goal, minSamples, timed), b, start, goal, n - k, pruned)
  BY <1>5, <1>8, <1>9 DEF MovesEnds, moved, ended
<1>12. n - k \in Nat \ {0}
  BY <1>4
<1>. QED  BY <1>10, <1>11, <1>12

\* Pose i moves, the others stay.
LEMMA MovedPose ==
  ASSUME NEW n \in Nat, NEW b \in Sized(n + 1, n), NEW i \in 0 .. n, NEW x \in Int, NEW yaw \in Int
  PROVE  LET c == Moved(b, i, x, yaw) IN
         /\ c \in Sized(n + 1, n)
         /\ Pose(c, i).x = x /\ Pose(c, i).yaw = yaw /\ Pose(c, i).fixed = Pose(b, i).fixed
         /\ \A k \in 0 .. n : k # i => Pose(c, k) = Pose(b, k)
<1>. DEFINE P == b.poses
            c == Moved(b, i, x, yaw)
<1>1. n + 1 \in Nat /\ i \in 0 .. (n + 1) - 1 /\ i + 1 \in 1 .. n + 1
  OBVIOUS
<1>2. c \in Sized(n + 1, n)
  BY <1>1, MovedSize
<1>3. P \in Seq(PoseRecords) /\ Len(P) = n + 1
  BY <1>1, SizedParts
<1>4. MovesOne(c, b, i, x, yaw)
  <2>1. PICK p \in Nat : p = n + 1
    BY <1>1
  <2>2. b \in Sized(p, n) /\ i \in 0 .. p - 1
    BY <1>1, <2>1
  <2>. QED  BY <2>2, MovedParts
<1>. HIDE DEF c
<1>5. PICK e \in PoseRecords : /\ c = [poses |-> [P EXCEPT ![i + 1] = e], dts |-> b.dts]
                               /\ e.x = x /\ e.yaw = yaw /\ e.fixed = P[i + 1].fixed
  BY <1>4 DEF MovesOne
<1>. DEFINE Q == [P EXCEPT ![i + 1] = e]
<1>6. c.poses = Q
  <2>. HIDE DEF Q
  <2>. QED  BY <1>5 DEF Q
<1>. HIDE DEF P
<1>7. ASSUME NEW k \in 0 .. n  PROVE k + 1 \in 1 .. n + 1 /\ (k + 1 = i + 1 <=> k = i)
  OBVIOUS
<1>8. \A j \in 1 .. n + 1 : Q[j] = IF j = i + 1 THEN e ELSE P[j]
  BY <1>1, <1>3, <1>5, Replaced
<1>. HIDE DEF Q
<1>9. ASSUME NEW k \in 0 .. n  PROVE Pose(c, k) = IF k = i THEN e ELSE Pose(b, k)
  BY <1>6, <1>7, <1>8 DEF Pose, P
<1>10. Pose(b, i) = P[i + 1] /\ Pose(c, i) = e
  BY <1>9 DEF Pose, P
<1>. QED  BY <1>2, <1>5, <1>9, <1>10 DEF c

\* The band begins at the new start and ends at the new goal.
LEMMA UpdateAndPruneTEBEnds ==
  ASSUME NEW b \in ProperBands, NEW start \in Samples, NEW goal \in Samples,
         NEW minSamples \in Nat, minSamples >= 2, NEW timed \in BOOLEAN
  PROVE  LET c == UpdateAndPruneTEB(b, start, goal, minSamples, timed) IN
         /\ c \in ProperBands
         /\ Pose(c, 0).x = start.x /\ Pose(c, 0).yaw = start.yaw
         /\ Pose(c, 0).fixed = Pose(b, 0).fixed
         /\ BackPose(c).x = goal.x /\ BackPose(c).yaw = goal.yaw
         /\ BackPose(c).fixed = BackPose(b).fixed
<1>. DEFINE c == UpdateAndPruneTEB(b, start, goal, minSamples, timed)
<1>1. PICK n \in Nat \ {0}, pruned \in ProperBands : MovesEnds(c, b, start, goal, n, pruned)
  BY UpdateAndPruneTEBSteps
<1>. HIDE DEF c
<1>. DEFINE moved == Moved(pruned, 0, start.x, start.yaw)
<1>2. /\ pruned \in Sized(n + 1, n)
      /\ Pose(pruned, 0) = Pose(b, 0) /\ Pose(pruned, n) = BackPose(b)
      /\ c = Moved(moved, n, goal.x, goal.yaw)
  BY <1>1 DEF MovesEnds
<1>3. start.x \in Int /\ start.yaw \in Int /\ goal.x \in Int /\ goal.yaw \in Int
  BY DEF Samples
<1>4. n \in Nat /\ 0 \in 0 .. n /\ n \in 0 .. n /\ n # 0 /\ n >= 1
  OBVIOUS
<1>5. /\ moved \in Sized(n + 1, n)
      /\ Pose(moved, 0).x = start.x /\ Pose(moved, 0).yaw = start.yaw
      /\ Pose(moved, 0).fixed = Pose(pruned, 0).fixed
      /\ Pose(moved, n) = Pose(pruned, n)
  BY <1>2, <1>3, <1>4, MovedPose
<1>. HIDE DEF moved
<1>6. /\ c \in Sized(n + 1, n)
      /\ Pose(c, n).x = goal.x /\ Pose(c, n).yaw = goal.yaw
      /\ Pose(c, n).fixed = Pose(moved, n).fixed
      /\ Pose(c, 0) = Pose(moved, 0)
  BY <1>2, <1>3, <1>4, <1>5, MovedPose
<1>7. c \in ProperBands
  BY <1>4, <1>6, TimedIsSized
<1>8. BackPose(c) = Pose(c, n)
  <2>1. n + 1 \in Nat
    BY <1>4
  <2>2. Len(c.poses) = n + 1
    BY <1>4, <1>6, <2>1, SizedParts
  <2>. QED  BY <2>2 DEF BackPose, Pose
<1>. QED  BY <1>2, <1>5, <1>6, <1>7, <1>8 DEF c

LEMMA UpdateAndPruneTEBType ==
  ASSUME NEW b \in ProperBands, NEW start \in Samples, NEW goal \in Samples,
         NEW minSamples \in Nat, minSamples >= 2, NEW timed \in BOOLEAN
  PROVE  UpdateAndPruneTEB(b, start, goal, minSamples, timed) \in ProperBands
BY UpdateAndPruneTEBEnds


-----------------------------------------------------------------------------
(* Turns and rollouts.                                                     *)

LEMMA TurnBetweenType ==
  ASSUME NEW p \in PoseRecords, NEW q \in PoseRecords
  PROVE  TurnBetween(p, q) \in -4 .. 3
<1>1. q.yaw - p.yaw \in Int
  BY DEF PoseRecords
<1>. QED  BY <1>1, NormalizeType DEF TurnBetween

\* Two neighbouring poses.
LEMMA Neighbours ==
  ASSUME NEW b \in TimedBands, NEW k \in 1 .. SizeTimeDiffs(b)
  PROVE  /\ Pose(b, k - 1) \in PoseRecords /\ Pose(b, k) \in PoseRecords
         /\ TimeDiff(b, k - 1) \in Nat
         /\ TurnBetween(Pose(b, k - 1), Pose(b, k)) \in -4 .. 3
<1>1. k - 1 \in 0 .. SizePoses(b) - 1 /\ k \in 0 .. SizePoses(b) - 1
      /\ k - 1 \in 0 .. SizeTimeDiffs(b) - 1
  BY Indexed
<1>2. Pose(b, k - 1) \in PoseRecords /\ Pose(b, k) \in PoseRecords /\ TimeDiff(b, k - 1) \in Nat
  BY <1>1, Indexed
<1>. QED  BY <1>2, TurnBetweenType

LEMMA FirstPose ==
  ASSUME NEW b \in TimedBands
  PROVE  Pose(b, 0) \in PoseRecords /\ Pose(b, 0) = b.poses[1]
<1>1. 0 \in 0 .. SizePoses(b) - 1
  BY Indexed
<1>. QED  BY <1>1, Indexed DEF Pose

\* The angle turned through is the sum of angles.
LEMMA AbsoluteTurnType ==
  ASSUME NEW b \in TimedBands
  PROVE  AbsoluteTurn(b) \in Nat
<1>. DEFINE n == SizeTimeDiffs(b)
            base == 0
            sum[k \in 0 .. n] == IF k = 0 THEN 0 ELSE sum[k - 1] + Magnitude(TurnBetween(Pose(b, k - 1), Pose(b, k)))
            step == [e \in (1 .. n) \X Nat |-> e[2] + Magnitude(TurnBetween(Pose(b, e[1] - 1), Pose(b, e[1])))]
<1>1. n \in Nat
  BY Indexed
<1>2. base \in Nat
  OBVIOUS
<1>3. ASSUME NEW k \in 1 .. n, NEW c \in Nat  PROVE c + Magnitude(TurnBetween(Pose(b, k - 1), Pose(b, k))) \in Nat
  <2>1. TurnBetween(Pose(b, k - 1), Pose(b, k)) \in Int
    BY Neighbours
  <2>2. Magnitude(TurnBetween(Pose(b, k - 1), Pose(b, k))) \in Nat
    BY <2>1, MagnitudeType
  <2>. QED  BY <2>2
<1>. HIDE DEF n, base
<1>4. step \in [(1 .. n) \X Nat -> Nat]
  BY <1>3
<1>5. PICK g \in [0 .. n -> Nat] : Chain(g, n, base, step)
  BY <1>1, <1>2, <1>4, Recursion
<1>6. ASSUME NEW k \in 1 .. n  PROVE g[k] = g[k - 1] + Magnitude(TurnBetween(Pose(b, k - 1), Pose(b, k)))
  <2>1. k - 1 \in 0 .. n
    BY <1>1
  <2>2. <<k, g[k - 1]>> \in (1 .. n) \X Nat /\ g[k] = step[<<k, g[k - 1]>>]
    BY <1>5, <2>1 DEF Chain
  <2>. QED  BY <2>2
<1>7. g = [k \in 0 .. n |-> IF k = 0 THEN base ELSE g[k - 1] + Magnitude(TurnBetween(Pose(b, k - 1), Pose(b, k)))]
  <2>1. ASSUME NEW k \in 0 .. n  PROVE k = 0 \/ k \in 1 .. n
    BY <1>1
  <2>. QED  BY <1>5, <1>6, <2>1 DEF Chain
<1>8. sum = [k \in 0 .. n |-> IF k = 0 THEN base ELSE sum[k - 1] + Magnitude(TurnBetween(Pose(b, k - 1), Pose(b, k)))]
  BY <1>7 DEF base
<1>. HIDE DEF sum
<1>9. sum[0] = base
  BY <1>1, <1>8
<1>10. ASSUME NEW k \in 1 .. n  PROVE sum[k] = sum[k - 1] + Magnitude(TurnBetween(Pose(b, k - 1), Pose(b, k)))
  <2>1. k \in 0 .. n /\ k # 0
    BY <1>1
  <2>. QED  BY <2>1, <1>8
<1>11. \A k \in 1 .. n : sum[k - 1] \in Nat => sum[k] \in Nat
  BY <1>3, <1>10
<1>12. \A k \in 0 .. n : sum[k] \in Nat
  BY <1>1, <1>2, <1>9, <1>11, AllTyped
<1>13. AbsoluteTurn(b) = sum[n]
  BY DEF AbsoluteTurn, sum, n
<1>. QED  BY <1>1, <1>12, <1>13

\* The heading at the end of a band.
LEMMA WindingType ==
  ASSUME NEW b \in TimedBands
  PROVE  Winding(b) \in Int
<1>. DEFINE n == SizeTimeDiffs(b)
            base == Pose(b, 0).yaw
            yaw[k \in 0 .. n] == IF k = 0 THEN Pose(b, 0).yaw ELSE yaw[k - 1] + TurnBetween(Pose(b, k - 1), Pose(b, k))
            step == [e \in (1 .. n) \X Int |-> e[2] + TurnBetween(Pose(b, e[1] - 1), Pose(b, e[1]))]
<1>1. n \in Nat
  BY Indexed
<1>2. base \in Int
  BY FirstPose DEF PoseRecords
<1>3. ASSUME NEW k \in 1 .. n, NEW c \in Int  PROVE c + TurnBetween(Pose(b, k - 1), Pose(b, k)) \in Int
  <2>1. TurnBetween(Pose(b, k - 1), Pose(b, k)) \in Int
    BY Neighbours
  <2>. QED  BY <2>1
<1>. HIDE DEF n, base
<1>4. step \in [(1 .. n) \X Int -> Int]
  BY <1>3
<1>5. PICK g \in [0 .. n -> Int] : Chain(g, n, base, step)
  BY <1>1, <1>2, <1>4, Recursion
<1>6. ASSUME NEW k \in 1 .. n  PROVE g[k] = g[k - 1] + TurnBetween(Pose(b, k - 1), Pose(b, k))
  <2>1. k - 1 \in 0 .. n
    BY <1>1
  <2>2. <<k, g[k - 1]>> \in (1 .. n) \X Int /\ g[k] = step[<<k, g[k - 1]>>]
    BY <1>5, <2>1 DEF Chain
  <2>. QED  BY <2>2
<1>7. g = [k \in 0 .. n |-> IF k = 0 THEN base ELSE g[k - 1] + TurnBetween(Pose(b, k - 1), Pose(b, k))]
  <2>1. ASSUME NEW k \in 0 .. n  PROVE k = 0 \/ k \in 1 .. n
    BY <1>1
  <2>. QED  BY <1>5, <1>6, <2>1 DEF Chain
<1>8. yaw = [k \in 0 .. n |-> IF k = 0 THEN base ELSE yaw[k - 1] + TurnBetween(Pose(b, k - 1), Pose(b, k))]
  BY <1>7 DEF base
<1>. HIDE DEF yaw
<1>9. yaw[0] = base
  BY <1>1, <1>8
<1>10. ASSUME NEW k \in 1 .. n  PROVE yaw[k] = yaw[k - 1] + TurnBetween(Pose(b, k - 1), Pose(b, k))
  <2>1. k \in 0 .. n /\ k # 0
    BY <1>1
  <2>. QED  BY <2>1, <1>8
<1>11. \A k \in 1 .. n : yaw[k - 1] \in Int => yaw[k] \in Int
  BY <1>3, <1>10
<1>12. \A k \in 0 .. n : yaw[k] \in Int
  BY <1>1, <1>2, <1>9, <1>11, AllTyped
<1>13. Winding(b) = yaw[n]
  BY DEF Winding, yaw, n
<1>. QED  BY <1>1, <1>12, <1>13

\* The step that control k of band b makes.
Shift(b, k) == Pose(b, k).x - Pose(b, k - 1).x
Rotation(b, k) == TurnBetween(Pose(b, k - 1), Pose(b, k))
Held(b, k) == Smaller(Quarter, Larger(Larger(Magnitude(Shift(b, k)), Magnitude(Rotation(b, k))),
                                      TimeDiff(b, k - 1)))

\* Pose k of c is where that control leads from the one before.
Steps(c, b, k) ==
  /\ c.poses[k + 1].x = c.poses[k].x + Shift(b, k)
  /\ c.poses[k + 1].yaw = c.poses[k].yaw + Rotation(b, k)
  /\ c.poses[k + 1].fixed = Pose(b, k).fixed
  /\ c.dts[k] = Held(b, k)

\* The control, the pose and the time of one step.
LEMMA StepType ==
  ASSUME NEW b \in TimedBands, NEW k \in 1 .. SizeTimeDiffs(b)
  PROVE  /\ Shift(b, k) \in Int /\ Rotation(b, k) \in -4 .. 3 /\ Held(b, k) \in Nat
         /\ Held(b, k) <= Quarter /\ Pose(b, k).fixed \in BOOLEAN
<1>1. Shift(b, k) \in Int /\ Rotation(b, k) \in -4 .. 3 /\ Pose(b, k).fixed \in BOOLEAN
      /\ TimeDiff(b, k - 1) \in Nat
  BY Neighbours DEF Shift, Rotation, PoseRecords
<1>2. Magnitude(Shift(b, k)) \in Nat /\ Magnitude(Rotation(b, k)) \in Nat
  <2>1. Rotation(b, k) \in Int
    BY <1>1
  <2>. QED  BY <1>1, <2>1, MagnitudeType
<1>3. Larger(Larger(Magnitude(Shift(b, k)), Magnitude(Rotation(b, k))), TimeDiff(b, k - 1)) \in Nat
  BY <1>1, <1>2, LargerType
<1>4. \A t \in Nat : Smaller(2, t) \in Nat /\ Smaller(2, t) <= 2
  BY DEF Smaller
<1>. QED  BY <1>1, <1>3, <1>4 DEF Held, Quarter

LEMMA IntegratedSize ==
  ASSUME NEW b \in TimedBands, NEW k \in 1 .. SizeTimeDiffs(b), NEW j \in Nat, NEW c \in Sized(j + 1, j)
  PROVE  /\ Integrated(c, b, k) \in Sized((j + 1) + 1, j + 1)
         /\ \A i \in 1 .. j + 1 : Integrated(c, b, k).poses[i] = c.poses[i]
         /\ \A i \in 1 .. j : Integrated(c, b, k).dts[i] = c.dts[i]
         /\ LET e == Integrated(c, b, k) IN
              /\ e.poses[(j + 1) + 1].x = e.poses[j + 1].x + Shift(b, k)
              /\ e.poses[(j + 1) + 1].yaw = e.poses[j + 1].yaw + Rotation(b, k)
              /\ e.poses[(j + 1) + 1].fixed = Pose(b, k).fixed
              /\ e.dts[j + 1] = Held(b, k)
<1>. DEFINE P == c.poses  D == c.dts  from == P[j + 1]
            q == [x |-> from.x + Shift(b, k), yaw |-> from.yaw + Rotation(b, k),
                  fixed |-> Pose(b, k).fixed]
            h == Held(b, k)
            PP == Append(P, q)  DD == Append(D, h)
<1>0. j + 1 \in Nat /\ j + 1 \in 1 .. j + 1
  OBVIOUS
<1>1. P \in Seq(PoseRecords) /\ D \in Seq(Nat) /\ Len(P) = j + 1 /\ Len(D) = j
      /\ from \in PoseRecords
  BY <1>0, SizedParts
<1>2. Integrated(c, b, k) = [poses |-> PP, dts |-> DD]
  BY <1>1 DEF Integrated, BackPose, Shift, Rotation, Held
<1>3. q \in PoseRecords /\ h \in Nat
  <2>1. from.x \in Int /\ from.yaw \in Int
    BY <1>1 DEF PoseRecords
  <2>. HIDE DEF from
  <2>2. Shift(b, k) \in Int /\ Rotation(b, k) \in Int /\ h \in Nat /\ Pose(b, k).fixed \in BOOLEAN
    BY StepType
  <2>. QED  BY <2>1, <2>2 DEF PoseRecords
<1>4. q.x = from.x + Shift(b, k) /\ q.yaw = from.yaw + Rotation(b, k) /\ q.fixed = Pose(b, k).fixed
  OBVIOUS
<1>. HIDE DEF q, h, P, D
<1>5. /\ PP \in Seq(PoseRecords) /\ Len(PP) = (j + 1) + 1
      /\ \A i \in 1 .. j + 1 : PP[i] = P[i]
      /\ PP[(j + 1) + 1] = q
  BY <1>0, <1>1, <1>3, AppendProperties
<1>6. /\ DD \in Seq(Nat) /\ Len(DD) = j + 1
      /\ \A i \in 1 .. j : DD[i] = D[i]
      /\ DD[j + 1] = h
  BY <1>0, <1>1, <1>3, AppendProperties
<1>. HIDE DEF PP, DD
<1>7. [poses |-> PP, dts |-> DD] \in Sized((j + 1) + 1, j + 1)
  BY <1>0, <1>5, <1>6 DEF Sized, Bands
<1>8. PP[j + 1] = from
  BY <1>0, <1>5
<1>. HIDE DEF from
<1>. QED  BY <1>2, <1>4, <1>5, <1>6, <1>7, <1>8 DEF P, D, h

\* A rollout has a pose for every pose of the band, integrated from the first.
LEMMA RolloutSteps ==
  ASSUME NEW b \in TimedBands
  PROVE  /\ Rollout(b) \in Sized(SizeTimeDiffs(b) + 1, SizeTimeDiffs(b))
         /\ Rollout(b).poses[1] = Pose(b, 0)
         /\ \A k \in 1 .. SizeTimeDiffs(b) : Steps(Rollout(b), b, k)
<1>. DEFINE n == SizeTimeDiffs(b)
            base == [poses |-> <<Pose(b, 0)>>, dts |-> <<>>]
            rolled[k \in 0 .. n] == IF k = 0 THEN [poses |-> <<Pose(b, 0)>>, dts |-> <<>>] ELSE Integrated(rolled[k - 1], b, k)
            step == [e \in (1 .. n) \X TimedBands |-> Integrated(e[2], b, e[1])]
<1>0. base \in Sized(0 + 1, 0) /\ base.poses[1] = Pose(b, 0)
  <2>. DEFINE q == Pose(b, 0)  D == <<>>
  <2>1. q \in PoseRecords
    BY FirstPose
  <2>. HIDE DEF q
  <2>2. <<q>> \in Seq(PoseRecords) /\ Len(<<q>>) = 0 + 1 /\ <<q>>[1] = q
    BY <2>1
  <2>3. D \in Seq(Nat) /\ Len(D) = 0
    BY EmptySeq
  <2>. DEFINE R == <<q>>
  <2>. HIDE DEF D, R
  <2>4. [poses |-> R, dts |-> D] \in Sized(0 + 1, 0)
    BY <2>2, <2>3 DEF R, Sized, Bands
  <2>. QED  BY <2>2, <2>4 DEF D, q, R
<1>1. n \in Nat
  BY Indexed
<1>2. base \in TimedBands
  BY <1>0, TimedIsSized
<1>3. ASSUME NEW k \in 1 .. n, NEW c \in TimedBands  PROVE Integrated(c, b, k) \in TimedBands
  <2>1. PICK j \in Nat : j = SizeTimeDiffs(c)
    BY SizedIsTimed
  <2>2. c \in Sized(j + 1, j)
    BY <2>1, SizedIsTimed
  <2>3. Integrated(c, b, k) \in Sized((j + 1) + 1, j + 1) /\ j + 1 \in Nat
    BY <2>2, IntegratedSize
  <2>. QED  BY <2>3, TimedIsSized
<1>. HIDE DEF n, base
<1>4. step \in [(1 .. n) \X TimedBands -> TimedBands]
  BY <1>3
<1>5. PICK g \in [0 .. n -> TimedBands] : Chain(g, n, base, step)
  BY <1>1, <1>2, <1>4, Recursion
<1>6. ASSUME NEW k \in 1 .. n  PROVE g[k] = Integrated(g[k - 1], b, k)
  <2>1. k - 1 \in 0 .. n
    BY <1>1
  <2>2. <<k, g[k - 1]>> \in (1 .. n) \X TimedBands /\ g[k] = step[<<k, g[k - 1]>>]
    BY <1>5, <2>1 DEF Chain
  <2>. QED  BY <2>2
<1>7. g = [k \in 0 .. n |-> IF k = 0 THEN base ELSE Integrated(g[k - 1], b, k)]
  <2>1. ASSUME NEW k \in 0 .. n  PROVE k = 0 \/ k \in 1 .. n
    BY <1>1
  <2>. QED  BY <1>5, <1>6, <2>1 DEF Chain
<1>8. rolled = [k \in 0 .. n |-> IF k = 0 THEN base ELSE Integrated(rolled[k - 1], b, k)]
  BY <1>7 DEF base
<1>. HIDE DEF rolled
<1>9. rolled[0] = base
  BY <1>1, <1>8
<1>10. ASSUME NEW k \in 1 .. n  PROVE rolled[k] = Integrated(rolled[k - 1], b, k)
  <2>1. k \in 0 .. n /\ k # 0
    BY <1>1
  <2>. QED  BY <2>1, <1>8
<1>11. \A k \in 1 .. n : rolled[k - 1] \in TimedBands => rolled[k] \in TimedBands
  BY <1>3, <1>10
<1>12. \A k \in 0 .. n : rolled[k] \in TimedBands
  BY <1>1, <1>2, <1>9, <1>11, AllTyped
<1>. DEFINE Fine(c, k) == /\ c \in Sized(k + 1, k)
                          /\ c.poses[1] = Pose(b, 0)
                          /\ \A i \in 1 .. k : Steps(c, b, i)
            P == {k \in 0 .. n : Fine(rolled[k], k)}
<1>13. Fine(rolled[0], 0)
  BY <1>0, <1>9 DEF base
<1>14. ASSUME NEW k \in 1 .. n, Fine(rolled[k - 1], k - 1)  PROVE Fine(rolled[k], k)
  <2>. DEFINE c == rolled[k - 1]  e == rolled[k]  j == k - 1
  <2>1. j \in Nat /\ j + 1 = k /\ k \in 1 .. SizeTimeDiffs(b) /\ e = Integrated(c, b, k)
    BY <1>1, <1>10 DEF n
  <2>2. c \in Sized(j + 1, j) /\ c.poses[1] = Pose(b, 0) /\ \A i \in 1 .. j : Steps(c, b, i)
    BY <1>14
  <2>. HIDE DEF c, e, j
  <2>3. /\ e \in Sized((j + 1) + 1, j + 1)
        /\ \A i \in 1 .. j + 1 : e.poses[i] = c.poses[i]
        /\ \A i \in 1 .. j : e.dts[i] = c.dts[i]
        /\ e.poses[(j + 1) + 1].x = e.poses[j + 1].x + Shift(b, k)
        /\ e.poses[(j + 1) + 1].yaw = e.poses[j + 1].yaw + Rotation(b, k)
        /\ e.poses[(j + 1) + 1].fixed = Pose(b, k).fixed
        /\ e.dts[j + 1] = Held(b, k)
    BY <2>1, <2>2, IntegratedSize
  <2>4. Steps(e, b, k)
    BY <2>1, <2>3 DEF Steps
  <2>5. ASSUME NEW i \in 1 .. j  PROVE Steps(e, b, i)
    <3>1. i \in 1 .. j + 1 /\ i + 1 \in 1 .. j + 1
      BY <2>1
    <3>. QED  BY <2>2, <2>3, <3>1 DEF Steps
  <2>6. \A i \in 1 .. k : i \in 1 .. j \/ i = k
    BY <2>1
  <2>7. e.poses[1] = Pose(b, 0)
    BY <2>1, <2>2, <2>3
  <2>. QED  BY <2>1, <2>3, <2>4, <2>5, <2>6, <2>7 DEF e
<1>. HIDE DEF Fine
<1>15. P = 0 .. n
  <2>1. P \in SUBSET (0 .. n) /\ 0 \in P
    BY <1>1, <1>13
  <2>2. \A k \in 1 .. n : k - 1 \in P => k \in P
    BY <1>1, <1>14
  <2>. HIDE DEF P
  <2>. QED  BY <1>1, <2>1, <2>2, IntervalInduction
<1>16. Fine(rolled[n], n)
  BY <1>1, <1>15
<1>17. Rollout(b) = rolled[n]
  BY DEF Rollout, rolled, n
<1>. QED  BY <1>16, <1>17 DEF Fine, n

-----------------------------------------------------------------------------
(* The graph.                                                              *)

LEMMA FindClosestTrajectoryPoseType ==
  ASSUME NEW b \in TimedBands, NEW x \in Int, NEW begin \in Nat
  PROVE  /\ FindClosestTrajectoryPose(b, x, begin) \in -1 .. SizePoses(b) - 1
         /\ FindClosestTrajectoryPose(b, x, begin) \in Int
<1>. DEFINE p == SizePoses(b)
            distance(i) == Magnitude(x - Pose(b, i).x)
            range == begin .. p - 1
            candidates == {i \in range : \A j \in range : distance(i) <= distance(j)}
            first == CHOOSE i \in candidates : \A j \in candidates : i <= j
<1>1. p \in Nat
  BY Indexed
<1>2. FindClosestTrajectoryPose(b, x, begin) = IF begin < 0 \/ begin >= p THEN -1 ELSE first
  BY DEF FindClosestTrajectoryPose
<1>3. CASE begin >= p
  BY <1>1, <1>2, <1>3
<1>4. CASE ~(begin >= p)
  <2>. DEFINE T == {distance(i) : i \in range}
  <2>1. ASSUME NEW i \in range  PROVE distance(i) \in Nat
    <3>1. i \in 0 .. SizePoses(b) - 1
      BY <1>1
    <3>2. x - Pose(b, i).x \in Int
      BY <3>1, Indexed DEF PoseRecords
    <3>. QED  BY <3>2, MagnitudeType
  <2>2. begin \in range
    BY <1>1, <1>4
  <2>. HIDE DEF distance
  <2>3. T \in SUBSET Nat /\ T # {}
    BY <2>1, <2>2
  <2>4. PICK t \in T : \A u \in T : t <= u
    BY <2>3, LeastNatural
  <2>5. PICK k \in range : t = distance(k)
    BY <2>4
  <2>6. k \in candidates
    BY <2>4, <2>5
  <2>7. candidates \in SUBSET Nat /\ candidates # {} /\ candidates \subseteq range
    BY <1>1, <2>6
  <2>. HIDE DEF candidates
  <2>8. \E m \in candidates : \A j \in candidates : m <= j
    BY <2>7, LeastNatural
  <2>9. first \in range
    BY <2>7, <2>8
  <2>. HIDE DEF first
  <2>. QED  BY <1>1, <1>2, <1>4, <2>9
<1>. QED  BY <1>3, <1>4

\* The edges between vertices of a graph with p poses and d time differences.
ClosedEdges(p, d) ==
  {e \in EdgeRecords : e.poses \subseteq 0 .. p - 1 /\ e.dts \subseteq 0 .. d - 1}

LEMMA EdgeKinds ==
  /\ "obstacle" \in Kinds /\ "dynamic" \in Kinds /\ "ratio" \in Kinds /\ "via" \in Kinds
  /\ "station" \in Kinds /\ "velocity" \in Kinds /\ "acceleration start" \in Kinds
  /\ "acceleration" \in Kinds /\ "acceleration goal" \in Kinds /\ "time" \in Kinds
  /\ "path" \in Kinds /\ "diff drive" \in Kinds /\ "carlike" \in Kinds /\ "rotation" \in Kinds
BY DEF Kinds

LEMMA EdgeClosed ==
  ASSUME NEW p, NEW d, NEW kind \in Kinds, NEW poses \in SUBSET (0 .. p - 1),
         NEW dts \in SUBSET (0 .. d - 1), NEW about \in Nat, p \in Nat, d \in Nat
  PROVE  Edge(kind, poses, dts, about) \in ClosedEdges(p, d)
<1>1. 0 .. p - 1 \subseteq Int /\ 0 .. d - 1 \subseteq Int
  OBVIOUS
<1>2. poses \in SUBSET Int /\ dts \in SUBSET Int
  BY <1>1
<1>3. Edge(kind, poses, dts, about) \in EdgeRecords
  BY <1>2 DEF Edge, EdgeRecords
<1>4. Edge(kind, poses, dts, about).poses = poses /\ Edge(kind, poses, dts, about).dts = dts
  BY DEF Edge
<1>. QED  BY <1>3, <1>4 DEF ClosedEdges

LEMMA SetsOfIndices ==
  ASSUME NEW i \in Int, NEW j \in Int, NEW k \in Int, NEW n \in Int
  PROVE  /\ i \in 0 .. n - 1 => {i} \in SUBSET (0 .. n - 1)
         /\ i \in 0 .. n - 1 /\ j \in 0 .. n - 1 => {i, j} \in SUBSET (0 .. n - 1)
         /\ i \in 0 .. n - 1 /\ j \in 0 .. n - 1 /\ k \in 0 .. n - 1
              => {i, j, k} \in SUBSET (0 .. n - 1)
OBVIOUS

LEMMA ObstaclesAreCounted ==
  ASSUME NEW b, NEW i, NEW c
  PROVE  /\ DOMAIN Obstacles \subseteq Nat
         /\ StaticObstacles(c) \subseteq DOMAIN Obstacles
         /\ ObstaclesOfVertex(b, i, c) \subseteq DOMAIN Obstacles
<1>1. DOMAIN Obstacles \subseteq Nat
  <2>1. DOMAIN Obstacles = 1 .. Len(Obstacles) /\ Len(Obstacles) \in Nat
    BY GraphAssumption
  <2>. QED  BY <2>1
<1>2. StaticObstacles(c) \subseteq DOMAIN Obstacles
  BY DEF StaticObstacles
<1>3. \A S : Nearest(b, i, S) \subseteq S
  BY DEF Nearest
<1>4. ObstaclesOfVertex(b, i, c) \subseteq StaticObstacles(c)
  <2>. DEFINE forced == {k \in StaticObstacles(c) : Distance(b, i, k) < c.inclusion}
              others == {k \in StaticObstacles(c) \ forced : Distance(b, i, k) <= c.cutoff}
              left == {k \in others : OnLeft(b, i, k)}
  <2>1. ObstaclesOfVertex(b, i, c) = forced \cup Nearest(b, i, left) \cup Nearest(b, i, others \ left)
    BY DEF ObstaclesOfVertex
  <2>2. forced \subseteq StaticObstacles(c) /\ left \subseteq StaticObstacles(c)
        /\ others \ left \subseteq StaticObstacles(c)
    OBVIOUS
  <2>. HIDE DEF forced, others, left
  <2>. QED  BY <1>3, <2>1, <2>2
<1>. QED  BY <1>1, <1>2, <1>4

LEMMA ObstacleEdges ==
  ASSUME NEW b \in ProperBands, NEW c \in ConfigRecords
  PROVE  /\ AddEdgesObstacles(b, c) \subseteq ClosedEdges(SizePoses(b), SizeTimeDiffs(b))
         /\ AddEdgesObstaclesLegacy(b, c) \subseteq ClosedEdges(SizePoses(b), SizeTimeDiffs(b))
         /\ AddEdgesDynamicObstacles(b, c) \subseteq ClosedEdges(SizePoses(b), SizeTimeDiffs(b))
         /\ AddEdgesVelocityObstacleRatio(b, c) \subseteq ClosedEdges(SizePoses(b), SizeTimeDiffs(b))
<1>. DEFINE p == SizePoses(b)  d == SizeTimeDiffs(b)
<1>1. p \in Nat /\ d \in Nat /\ p = d + 1
  BY Indexed, ProperIsTimed
<1>. HIDE DEF p, d
<1>2. \A k \in DOMAIN Obstacles : k \in Nat
  BY ObstaclesAreCounted
<1>3. {} \in SUBSET (0 .. d - 1)
  OBVIOUS
<1>4. ASSUME NEW kind \in Kinds, NEW i \in 0 .. p - 1, NEW k \in DOMAIN Obstacles
      PROVE  Edge(kind, {i}, {}, k) \in ClosedEdges(p, d)
  <2>1. {i} \in SUBSET (0 .. p - 1) /\ k \in Nat
    BY <1>2
  <2>. QED  BY <1>1, <1>3, <2>1, EdgeClosed
<1>5. AddEdgesObstacles(b, c) \subseteq ClosedEdges(p, d)
  <2>1. ASSUME NEW i \in 1 .. p - 2, NEW k \in ObstaclesOfVertex(b, i, c)
        PROVE  Edge("obstacle", {i}, {}, k) \in ClosedEdges(p, d)
    <3>1. i \in 0 .. p - 1 /\ k \in DOMAIN Obstacles
      BY <1>1, ObstaclesAreCounted
    <3>. QED  BY <1>4, <3>1, EdgeKinds
  <2>2. ASSUME NEW e \in AddEdgesObstacles(b, c)
        PROVE  \E i \in 1 .. p - 2 : \E k \in ObstaclesOfVertex(b, i, c) : e = Edge("obstacle", {i}, {}, k)
    BY Zenon DEF AddEdgesObstacles, p
  <2>. QED  BY <2>1, <2>2
<1>6. AddEdgesDynamicObstacles(b, c) \subseteq ClosedEdges(p, d)
  <2>1. ASSUME NEW i \in 1 .. p - 2, NEW k \in DOMAIN Obstacles
        PROVE  Edge("dynamic", {i}, {}, k) \in ClosedEdges(p, d)
    <3>1. i \in 0 .. p - 1
      BY <1>1
    <3>. QED  BY <1>4, <3>1, EdgeKinds
  <2>2. ASSUME NEW e \in AddEdgesDynamicObstacles(b, c)
        PROVE  \E i \in 1 .. p - 2 : \E k \in DOMAIN Obstacles : e = Edge("dynamic", {i}, {}, k)
    BY Zenon DEF AddEdgesDynamicObstacles, p
  <2>. QED  BY <2>1, <2>2
<1>7. AddEdgesObstaclesLegacy(b, c) \subseteq ClosedEdges(p, d)
  <2>1. ASSUME NEW k \in StaticObstacles(c), NEW i \in 0 .. p - 1
        PROVE  Edge("obstacle", {i}, {}, k) \in ClosedEdges(p, d)
    <3>1. k \in DOMAIN Obstacles
      BY ObstaclesAreCounted
    <3>. QED  BY <1>4, <3>1, EdgeKinds
  <2>2. ASSUME NEW e \in AddEdgesObstaclesLegacy(b, c)
        PROVE  \E k \in StaticObstacles(c) : \E i \in 0 .. p - 1 : e = Edge("obstacle", {i}, {}, k)
    BY Zenon DEF AddEdgesObstaclesLegacy, p
  <2>. QED  BY <2>1, <2>2
<1>8. AddEdgesVelocityObstacleRatio(b, c) \subseteq ClosedEdges(p, d)
  <2>1. ASSUME NEW i \in 0 .. p - 2, NEW k \in ObstaclesOfVertex(b, i, c)
        PROVE  Edge("ratio", {i, i + 1}, {i}, k) \in ClosedEdges(p, d)
    <3>1. {i, i + 1} \in SUBSET (0 .. p - 1) /\ {i} \in SUBSET (0 .. d - 1) /\ k \in Nat
      BY <1>1, <1>2, ObstaclesAreCounted
    <3>. QED  BY <1>1, <3>1, EdgeClosed, EdgeKinds
  <2>2. ASSUME NEW e \in AddEdgesVelocityObstacleRatio(b, c)
        PROVE  \E i \in 0 .. p - 2 : \E k \in ObstaclesOfVertex(b, i, c) :
                 e = Edge("ratio", {i, i + 1}, {i}, k)
    <3>1. ~c.legacy
      BY DEF AddEdgesVelocityObstacleRatio
    <3>. QED  BY <3>1, Zenon DEF AddEdgesVelocityObstacleRatio, p
  <2>. QED  BY <2>1, <2>2
<1>. QED  BY <1>5, <1>6, <1>7, <1>8 DEF p, d

LEMMA LocalEdges ==
  ASSUME NEW b \in ProperBands, NEW c \in ConfigRecords
  PROVE  LET E == ClosedEdges(SizePoses(b), SizeTimeDiffs(b)) IN
         /\ AddEdgesStationEnvelope(b) \subseteq E /\ AddEdgesVelocity(b) \subseteq E
         /\ AddEdgesAcceleration(b, c) \subseteq E /\ AddEdgesTimeOptimal(b) \subseteq E
         /\ AddEdgesShortestPath(b) \subseteq E /\ AddEdgesKinematicsDiffDrive(b) \subseteq E
         /\ AddEdgesKinematicsCarlike(b) \subseteq E /\ AddEdgesPreferRotDir(b) \subseteq E
<1>. DEFINE p == SizePoses(b)  d == SizeTimeDiffs(b)
<1>1. p \in Nat /\ d \in Nat /\ p = d + 1 /\ p >= 2
  BY Indexed, ProperIsTimed DEF ProperBands, SizePoses
<1>. HIDE DEF p, d
<1>2. {} \in SUBSET (0 .. d - 1) /\ {} \in SUBSET (0 .. p - 1)
  OBVIOUS
<1>3. AddEdgesStationEnvelope(b) \subseteq ClosedEdges(p, d)
  <2>1. ASSUME NEW i \in 0 .. p - 1  PROVE Edge("station", {i}, {}, 0) \in ClosedEdges(p, d)
    <3>1. {i} \in SUBSET (0 .. p - 1)
      OBVIOUS
    <3>. QED  BY <1>1, <1>2, <3>1, EdgeClosed, EdgeKinds
  <2>. QED  BY <2>1 DEF AddEdgesStationEnvelope, p
<1>4. ASSUME NEW i \in 0 .. p - 2
      PROVE  {i, i + 1} \in SUBSET (0 .. p - 1) /\ {i} \in SUBSET (0 .. d - 1)
  BY <1>1
<1>5. ASSUME NEW kind \in Kinds, NEW i \in 0 .. p - 2
      PROVE  /\ Edge(kind, {i, i + 1}, {i}, 0) \in ClosedEdges(p, d)
             /\ Edge(kind, {i, i + 1}, {}, 0) \in ClosedEdges(p, d)
  BY <1>1, <1>2, <1>4, EdgeClosed
<1>6. Intervals(b) = 0 .. p - 2
  BY DEF Intervals, p
<1>7. /\ AddEdgesVelocity(b) \subseteq ClosedEdges(p, d)
      /\ AddEdgesShortestPath(b) \subseteq ClosedEdges(p, d)
      /\ AddEdgesKinematicsDiffDrive(b) \subseteq ClosedEdges(p, d)
      /\ AddEdgesKinematicsCarlike(b) \subseteq ClosedEdges(p, d)
      /\ AddEdgesPreferRotDir(b) \subseteq ClosedEdges(p, d)
  BY <1>5, <1>6, EdgeKinds DEF AddEdgesVelocity, AddEdgesShortestPath, AddEdgesKinematicsDiffDrive,
                    AddEdgesKinematicsCarlike, AddEdgesPreferRotDir
<1>8. AddEdgesTimeOptimal(b) \subseteq ClosedEdges(p, d)
  <2>1. ASSUME NEW i \in 0 .. d - 1  PROVE Edge("time", {}, {i}, 0) \in ClosedEdges(p, d)
    <3>1. {i} \in SUBSET (0 .. d - 1)
      OBVIOUS
    <3>. QED  BY <1>1, <1>2, <3>1, EdgeClosed, EdgeKinds
  <2>. QED  BY <2>1 DEF AddEdgesTimeOptimal, d
<1>9. AddEdgesAcceleration(b, c) \subseteq ClosedEdges(p, d)
  <2>1. Edge("acceleration start", {0, 1}, {0}, 0) \in ClosedEdges(p, d)
    <3>1. {0, 1} \in SUBSET (0 .. p - 1) /\ {0} \in SUBSET (0 .. d - 1)
      BY <1>1
    <3>. QED  BY <1>1, <3>1, EdgeClosed, EdgeKinds
  <2>2. ASSUME NEW i \in 0 .. p - 3
        PROVE  Edge("acceleration", {i, i + 1, i + 2}, {i, i + 1}, 0) \in ClosedEdges(p, d)
    <3>1. {i, i + 1, i + 2} \in SUBSET (0 .. p - 1) /\ {i, i + 1} \in SUBSET (0 .. d - 1)
      BY <1>1
    <3>. QED  BY <1>1, <3>1, EdgeClosed, EdgeKinds
  <2>3. Edge("acceleration goal", {p - 2, p - 1}, {d - 1}, 0) \in ClosedEdges(p, d)
    <3>1. {p - 2, p - 1} \in SUBSET (0 .. p - 1) /\ {d - 1} \in SUBSET (0 .. d - 1)
      BY <1>1
    <3>. QED  BY <1>1, <3>1, EdgeClosed, EdgeKinds
  <2>. QED  BY <2>1, <2>2, <2>3 DEF AddEdgesAcceleration, p, d
<1>. QED  BY <1>3, <1>7, <1>8, <1>9 DEF p, d

\* One via-point, of a band with a pose between the first and the last.
LEMMA AddViaPointType ==
  ASSUME NEW b \in ProperBands, SizePoses(b) >= 3, NEW c \in ConfigRecords,
         NEW k \in 1 .. Len(ViaPoints),
         NEW found \in [start : Nat, edges : SUBSET ClosedEdges(SizePoses(b), SizeTimeDiffs(b))]
  PROVE  AddViaPoint(b, c, found, k)
           \in [start : Nat, edges : SUBSET ClosedEdges(SizePoses(b), SizeTimeDiffs(b))]
<1>. DEFINE p == SizePoses(b)  d == SizeTimeDiffs(b)
            closest == FindClosestTrajectoryPose(b, ViaPoints[k], found.start)
            inner == Smaller(closest, p - 2)
            index == IF inner < 1 /\ c.ordered THEN 1 ELSE inner
            start == IF c.ordered THEN closest + 2 ELSE found.start
            edges == IF index < 1 THEN found.edges ELSE found.edges \cup {Edge("via", {index}, {}, k)}
<1>1. p \in Nat /\ d \in Nat /\ p = d + 1 /\ p >= 3 /\ k \in Nat
  BY Indexed, ProperIsTimed
<1>2. ViaPoints[k] \in Int /\ found.start \in Nat /\ found.edges \subseteq ClosedEdges(p, d)
  BY GraphAssumption, Elements
<1>3. closest \in Int /\ closest >= -1
  BY <1>2, FindClosestTrajectoryPoseType, ProperIsTimed, <1>1
<1>4. AddViaPoint(b, c, found, k) = [start |-> start, edges |-> edges]
  BY DEF AddViaPoint
<1>. HIDE DEF p, d, closest
<1>5. inner \in Int /\ inner <= p - 2
  BY <1>1, <1>3 DEF Smaller
<1>. HIDE DEF inner
<1>6. index \in Int /\ index <= p - 2
  BY <1>1, <1>5
<1>. HIDE DEF index
<1>7. start \in Nat
  BY <1>2, <1>3
<1>8. edges \subseteq ClosedEdges(p, d)
  <2>1. CASE index < 1
    BY <1>2, <2>1
  <2>2. CASE ~(index < 1)
    <3>1. index \in 0 .. p - 1
      BY <1>1, <1>6, <2>2
    <3>2. {index} \in SUBSET (0 .. p - 1) /\ {} \in SUBSET (0 .. d - 1)
      BY <3>1
    <3>3. Edge("via", {index}, {}, k) \in ClosedEdges(p, d)
      BY <1>1, <3>2, EdgeClosed, EdgeKinds
    <3>. QED  BY <1>2, <2>2, <3>3
  <2>. QED  BY <2>1, <2>2
<1>. HIDE DEF start, edges
<1>. QED  BY <1>4, <1>7, <1>8 DEF p, d

\* The via-points, one after the other.
LEMMA ViaPointEdges ==
  ASSUME NEW b \in ProperBands, NEW c \in ConfigRecords
  PROVE  AddEdgesViaPoints(b, c) \subseteq ClosedEdges(SizePoses(b), SizeTimeDiffs(b))
<1>. DEFINE S == [start : Nat, edges : SUBSET ClosedEdges(SizePoses(b), SizeTimeDiffs(b))]
<1>0. SUFFICES ASSUME ~(SizePoses(b) < 3)  PROVE AddEdgesViaPoints(b, c) \subseteq ClosedEdges(SizePoses(b), SizeTimeDiffs(b))
  BY DEF AddEdgesViaPoints
<1>. DEFINE n == Len(ViaPoints)
            base == [start |-> 0, edges |-> {}]
            found[k \in 0 .. n] == IF k = 0 THEN [start |-> 0, edges |-> {}] ELSE AddViaPoint(b, c, found[k - 1], k)
            step == [e \in (1 .. n) \X S |-> AddViaPoint(b, c, e[2], e[1])]
<1>1. n \in Nat
  BY GraphAssumption
<1>2. base \in S
  BY DEF S
<1>3. ASSUME NEW k \in 1 .. n, NEW c0 \in S  PROVE AddViaPoint(b, c, c0, k) \in S
  <2>1. SizePoses(b) >= 3
    BY <1>0, Indexed, ProperIsTimed
  <2>. QED  BY <2>1, AddViaPointType DEF S
<1>. HIDE DEF n, base, S
<1>4. step \in [(1 .. n) \X S -> S]
  BY <1>3
<1>5. PICK g \in [0 .. n -> S] : Chain(g, n, base, step)
  BY <1>1, <1>2, <1>4, Recursion
<1>6. ASSUME NEW k \in 1 .. n  PROVE g[k] = AddViaPoint(b, c, g[k - 1], k)
  <2>1. k - 1 \in 0 .. n
    BY <1>1
  <2>2. <<k, g[k - 1]>> \in (1 .. n) \X S /\ g[k] = step[<<k, g[k - 1]>>]
    BY <1>5, <2>1 DEF Chain
  <2>. QED  BY <2>2
<1>7. g = [k \in 0 .. n |-> IF k = 0 THEN base ELSE AddViaPoint(b, c, g[k - 1], k)]
  <2>1. ASSUME NEW k \in 0 .. n  PROVE k = 0 \/ k \in 1 .. n
    BY <1>1
  <2>. QED  BY <1>5, <1>6, <2>1 DEF Chain
<1>8. found = [k \in 0 .. n |-> IF k = 0 THEN base ELSE AddViaPoint(b, c, found[k - 1], k)]
  BY <1>7 DEF base
<1>. HIDE DEF found
<1>9. found[0] = base
  BY <1>1, <1>8
<1>10. ASSUME NEW k \in 1 .. n  PROVE found[k] = AddViaPoint(b, c, found[k - 1], k)
  <2>1. k \in 0 .. n /\ k # 0
    BY <1>1
  <2>. QED  BY <2>1, <1>8
<1>11. \A k \in 1 .. n : found[k - 1] \in S => found[k] \in S
  BY <1>3, <1>10
<1>12. \A k \in 0 .. n : found[k] \in S
  BY <1>1, <1>2, <1>9, <1>11, AllTyped
<1>13. AddEdgesViaPoints(b, c) = found[n].edges
  BY <1>0 DEF AddEdgesViaPoints, found, n
<1>14. found[n] \in S
  BY <1>1, <1>12
<1>. QED  BY <1>13, <1>14 DEF S

\* Every edge connects vertices of the graph it is added to.
LEMMA GraphOfBand ==
  ASSUME NEW b \in ProperBands, NEW c \in ConfigRecords
  PROVE  /\ BuildGraph(b, c).poses = SizePoses(b) /\ BuildGraph(b, c).dts = SizeTimeDiffs(b)
         /\ GraphClosed(BuildGraph(b, c))
         /\ BuildGraph(b, c) \in [poses : Nat, dts : Nat, edges : SUBSET EdgeRecords]
<1>. DEFINE p == SizePoses(b)  d == SizeTimeDiffs(b)
            g == BuildGraph(b, c)
            E == (IF c.legacy THEN AddEdgesObstaclesLegacy(b, c) ELSE AddEdgesObstacles(b, c))
                 \cup (IF c.dynamic THEN AddEdgesDynamicObstacles(b, c) ELSE {})
                 \cup AddEdgesViaPoints(b, c)
                 \cup (IF c.station THEN AddEdgesStationEnvelope(b) ELSE {})
                 \cup AddEdgesVelocity(b)
                 \cup AddEdgesAcceleration(b, c)
                 \cup AddEdgesTimeOptimal(b)
                 \cup AddEdgesShortestPath(b)
                 \cup (IF c.carlike THEN AddEdgesKinematicsCarlike(b)
                                    ELSE AddEdgesKinematicsDiffDrive(b))
                 \cup (IF c.rotdir THEN AddEdgesPreferRotDir(b) ELSE {})
                 \cup (IF c.ratio THEN AddEdgesVelocityObstacleRatio(b, c) ELSE {})
<1>1. g = [poses |-> p, dts |-> d, edges |-> E]
  <2>1. g = [[[poses |-> 0, dts |-> 0, edges |-> {}] EXCEPT !.poses = p, !.dts = d] EXCEPT !.edges = E]
    BY Zenon DEF BuildGraph, AddTEBVertices, EmptyGraph
  <2>. HIDE DEF p, d, E, g
  <2>. QED  BY <2>1
<1>2. p \in Nat /\ d \in Nat
  BY Indexed, ProperIsTimed
<1>3. E \subseteq ClosedEdges(p, d)
  BY ObstacleEdges, LocalEdges, ViaPointEdges
<1>. HIDE DEF p, d, E, g
<1>4. g.poses = p /\ g.dts = d /\ g.edges = E
  BY <1>1
<1>5. GraphClosed(g)
  BY <1>3, <1>4 DEF GraphClosed, ClosedEdges
<1>6. g \in [poses : Nat, dts : Nat, edges : SUBSET EdgeRecords]
  BY <1>1, <1>2, <1>3 DEF ClosedEdges
<1>. QED  BY <1>4, <1>5, <1>6 DEF p, d, g

-----------------------------------------------------------------------------
(* What the actions do to a band.                                          *)

\* A pose and a time difference are inserted behind interval i.
LEMMA HalvedSize ==
  ASSUME NEW n \in Nat, NEW b \in Sized(n + 1, n), NEW i \in 0 .. n - 1,
         NEW middle \in PoseRecords, NEW half \in Nat, NEW rest \in Nat
  PROVE  InsertTimeDiff(InsertPose(SetTimeDiff(b, i, half), i + 1, middle), i + 1, rest)
           \in Sized((n + 1) + 1, n + 1)
<1>. DEFINE b1 == SetTimeDiff(b, i, half)
            b2 == InsertPose(b1, i + 1, middle)
<1>1. n + 1 \in Nat /\ (n + 1) + 1 \in Nat /\ i + 1 \in 0 .. n + 1 /\ i + 1 \in 0 .. n
  OBVIOUS
<1>2. b1 \in Sized(n + 1, n)
  BY <1>1, SetTimeDiffSize
<1>. HIDE DEF b1
<1>3. b2 \in Sized((n + 1) + 1, n)
  BY <1>1, <1>2, InsertPoseSize
<1>. HIDE DEF b2
<1>4. InsertTimeDiff(b2, i + 1, rest) \in Sized((n + 1) + 1, n + 1)
  BY <1>1, <1>3, InsertTimeDiffSize
<1>. QED  BY <1>4 DEF b1, b2

LEMMA HalvedProper ==
  ASSUME NEW b \in ProperBands, NEW i \in Nat, i < SizeTimeDiffs(b),
         NEW middle \in PoseRecords, NEW half \in Nat
  PROVE  InsertTimeDiff(InsertPose(SetTimeDiff(b, i, half), i + 1, middle), i + 1, half) \in ProperBands
<1>1. PICK n \in Nat : n = SizeTimeDiffs(b)
  BY SizedIsTimed, ProperIsTimed
<1>2. n >= 1 /\ b \in Sized(n + 1, n) /\ i \in 0 .. n - 1 /\ n + 1 \in Nat /\ n + 1 >= 1
  BY <1>1, SizedIsTimed, ProperIsTimed
<1>. DEFINE c == InsertTimeDiff(InsertPose(SetTimeDiff(b, i, half), i + 1, middle), i + 1, half)
<1>3. c \in Sized((n + 1) + 1, n + 1)
  BY <1>2, HalvedSize
<1>. HIDE DEF c
<1>4. c \in ProperBands
  BY <1>2, <1>3, TimedIsSized
<1>. QED  BY <1>4 DEF c

\* A proper band moves and stays proper, of the same size.
LEMMA MovedProper ==
  ASSUME NEW b \in ProperBands, NEW i \in 0 .. SizePoses(b) - 1, NEW x \in Int, NEW yaw \in Int
  PROVE  /\ Moved(b, i, x, yaw) \in ProperBands
         /\ SizePoses(Moved(b, i, x, yaw)) = SizePoses(b)
         /\ SizeTimeDiffs(Moved(b, i, x, yaw)) = SizeTimeDiffs(b)
<1>1. PICK n \in Nat : n = SizeTimeDiffs(b)
  BY SizedIsTimed, ProperIsTimed
<1>2. n >= 1 /\ b \in Sized(n + 1, n) /\ SizePoses(b) = n + 1 /\ n + 1 \in Nat
      /\ i \in 0 .. (n + 1) - 1
  BY <1>1, SizedIsTimed, ProperIsTimed
<1>. DEFINE c == Moved(b, i, x, yaw)
<1>3. c \in Sized(n + 1, n)
  BY <1>2, MovedSize
<1>. HIDE DEF c
<1>4. c \in ProperBands /\ SizePoses(c) = n + 1 /\ SizeTimeDiffs(c) = n
  BY <1>2, <1>3, TimedIsSized, SizedParts
<1>. QED  BY <1>1, <1>2, <1>4 DEF c

LEMMA SetTimeDiffProper ==
  ASSUME NEW b \in ProperBands, NEW i \in 0 .. SizeTimeDiffs(b) - 1, NEW dt \in Nat
  PROVE  /\ SetTimeDiff(b, i, dt) \in ProperBands
         /\ SizePoses(SetTimeDiff(b, i, dt)) = SizePoses(b)
         /\ SizeTimeDiffs(SetTimeDiff(b, i, dt)) = SizeTimeDiffs(b)
<1>1. PICK n \in Nat : n = SizeTimeDiffs(b)
  BY SizedIsTimed, ProperIsTimed
<1>2. n >= 1 /\ b \in Sized(n + 1, n) /\ SizePoses(b) = n + 1 /\ n + 1 \in Nat
      /\ i \in 0 .. n - 1
  BY <1>1, SizedIsTimed, ProperIsTimed
<1>. DEFINE c == SetTimeDiff(b, i, dt)
<1>3. c \in Sized(n + 1, n)
  BY <1>2, SetTimeDiffSize
<1>. HIDE DEF c
<1>4. c \in ProperBands /\ SizePoses(c) = n + 1 /\ SizeTimeDiffs(c) = n
  BY <1>2, <1>3, TimedIsSized, SizedParts
<1>. QED  BY <1>1, <1>2, <1>4 DEF c

LEMMA RolloutProper ==
  ASSUME NEW b \in ProperBands
  PROVE  /\ Rollout(b) \in ProperBands
         /\ SizePoses(Rollout(b)) = SizePoses(b) /\ SizeTimeDiffs(Rollout(b)) = SizeTimeDiffs(b)
<1>1. PICK n \in Nat : n = SizeTimeDiffs(b)
  BY SizedIsTimed, ProperIsTimed
<1>2. n >= 1 /\ SizePoses(b) = n + 1 /\ n + 1 \in Nat /\ b \in TimedBands
  BY <1>1, SizedIsTimed, ProperIsTimed
<1>. DEFINE c == Rollout(b)
<1>3. c \in Sized(n + 1, n)
  BY <1>1, <1>2, RolloutSteps
<1>. HIDE DEF c
<1>4. c \in ProperBands /\ SizePoses(c) = n + 1 /\ SizeTimeDiffs(c) = n
  BY <1>2, <1>3, TimedIsSized, SizedParts
<1>. QED  BY <1>1, <1>2, <1>4 DEF c

\* Only the first pose stays fixed.
LEMMA FreedProper ==
  ASSUME NEW b \in ProperBands
  PROVE  [b EXCEPT !.poses = [k \in DOMAIN b.poses |-> [b.poses[k] EXCEPT !.fixed = (k = 1)]]]
           \in ProperBands
<1>. DEFINE P == b.poses  Q == [k \in DOMAIN P |-> [P[k] EXCEPT !.fixed = (k = 1)]]
<1>1. P \in Seq(PoseRecords) /\ b \in TimedBands
  BY BandParts, ProperIsTimed
<1>2. PICK n \in Nat : n = Len(P)
  BY <1>1
<1>3. DOMAIN P = 1 .. n /\ \A k \in 1 .. n : P[k] \in PoseRecords
  BY <1>1, <1>2, Elements
<1>4. \A k \in 1 .. n : [P[k] EXCEPT !.fixed = (k = 1)] \in PoseRecords
  BY <1>3 DEF PoseRecords
<1>. HIDE DEF P
<1>5. Q \in Seq(PoseRecords) /\ Len(Q) = n
  BY <1>3, <1>4
<1>. HIDE DEF Q
<1>6. [b EXCEPT !.poses = Q] \in ProperBands
  BY <1>1, <1>2, <1>5, PosesReplaced DEF P
<1>. QED  BY <1>6 DEF Q, P

-----------------------------------------------------------------------------
(* plan().                                                                 *)

\* Estimated orientations leave the ends of a plan alone.
LEMMA OrientedType ==
  ASSUME cfg \in ConfigRecords, NEW plan \in Seq(Samples) \ {<<>>}
  PROVE  /\ Oriented(plan) \in Seeds
         /\ Oriented(plan)[1] = plan[1] /\ Last(Oriented(plan)) = Last(plan)
<1>. DEFINE n == Len(plan)
            backwards == cfg.backwards /\ (Last(plan).x - plan[1].x) * Along(plan[1].yaw) < 0
            heading(i) == IF plan[i + 1].x < plan[i].x THEN -(FullTurn \div 2) ELSE 0
            estimated(i) == [x |-> plan[i].x, yaw |-> Turned(heading(i), backwards)]
            new == [i \in DOMAIN plan |-> IF i \in {1, n} THEN plan[i] ELSE estimated(i)]
<1>1. /\ n \in Nat \ {0} /\ DOMAIN plan = 1 .. n
      /\ \A i \in 1 .. n : plan[i] \in Placed /\ plan[i].x \in Int
  <2>1. \A i \in 1 .. n : plan[i] \in Samples
    BY PlanEnds
  <2>. QED  BY <2>1, PlanEnds, PosesArePlaced, Elements DEF Samples
<1>2. Oriented(plan) = IF cfg.overwrite THEN new ELSE plan
  BY Zenon DEF Oriented, EstimateOrientations
<1>3. ASSUME NEW i  PROVE Turned(heading(i), backwards) \in Int
  <2>1. heading(i) \in {-4, 0}
    BY DEF FullTurn
  <2>. HIDE DEF heading, backwards
  <2>2. PICK h \in {-4, 0} : h = heading(i)
    BY <2>1
  <2>3. h \in Int /\ Normalize(h + FullTurn \div 2) \in Int
    BY NormalizeType DEF FullTurn
  <2>. QED  BY <2>2, <2>3 DEF Turned
<1>4. ASSUME NEW i \in 1 .. n  PROVE estimated(i) \in Placed
  <2>. HIDE DEF heading, backwards
  <2>. QED  BY <1>1, <1>3 DEF Placed
<1>. HIDE DEF estimated
<1>5. new \in Seq(Placed) /\ Len(new) = n /\ new[1] = plan[1] /\ new[n] = plan[n]
  BY <1>1, <1>4
<1>. HIDE DEF new
<1>6. new \in Seeds /\ new[1] = plan[1] /\ Last(new) = Last(plan)
  BY <1>1, <1>5, EmptySeq DEF Seeds, Last
<1>7. plan \in Seeds
  <2>1. Seq(Samples) \subseteq Seq(Placed)
    BY PosesArePlaced, SeqMonotonic
  <2>. QED  BY <2>1 DEF Seeds
<1>. QED  BY <1>2, <1>6, <1>7

\* The band initialize() leaves behind.
LEMMA InitializedType ==
  ASSUME cfg \in ConfigRecords, NEW plan \in Seq(Samples) \ {<<>>}, NEW goalYaw \in Int,
         NEW keepBranch \in BOOLEAN, NEW terminalYaw \in Int
  PROVE  Initialized(plan, goalYaw, keepBranch, terminalYaw) \in ProperBands
<1>. DEFINE pivot == PivotSeed(plan, cfg.backwards, keepBranch, terminalYaw)
            seed == IF cfg.differential THEN pivot ELSE Oriented(plan)
            b == InitTrajectoryToGoal(seed, cfg.minSamples)
            P == b.poses  n == SizePoses(b)
            yaw == IF cfg.differential THEN Winding(b) ELSE goalYaw
            e == [P[n] EXCEPT !.yaw = yaw]
            Q == [P EXCEPT ![n] = e]
<1>1. plan \in Seeds
  <2>1. plan \in Seq(Placed)
    <3>1. Seq(Samples) \subseteq Seq(Placed)
      BY PosesArePlaced, SeqMonotonic
    <3>. QED  BY <3>1
  <2>. QED  BY <2>1 DEF Seeds
<1>2. cfg.backwards \in BOOLEAN /\ cfg.minSamples \in Nat
  BY DEF ConfigRecords
<1>3. pivot \in Seeds
  BY <1>1, <1>2, PivotSeedType
<1>. HIDE DEF pivot
<1>4. seed \in Seeds
  BY <1>3, OrientedType
<1>5. Initialized(plan, goalYaw, keepBranch, terminalYaw) = [b EXCEPT !.poses[n].yaw = yaw]
  BY Zenon DEF Initialized, pivot
<1>. HIDE DEF seed
<1>6. b \in ProperBands
  BY <1>2, <1>4, InitTrajectoryToGoalType DEF Seeds
<1>. HIDE DEF b
<1>7. P \in Seq(PoseRecords) /\ n = Len(P) /\ n \in 1 .. Len(P) /\ b \in TimedBands /\ b \in Bands
  <2>1. b \in TimedBands /\ b \in Bands
    BY <1>6, ProperIsTimed
  <2>2. P \in Seq(PoseRecords) /\ Len(P) \in Nat
    BY <2>1, BandParts
  <2>3. n = Len(P) /\ Len(P) >= 2
    BY <1>6 DEF ProperBands, SizePoses
  <2>. QED  BY <2>1, <2>2, <2>3
<1>8. yaw \in Int
  BY <1>7, WindingType
<1>9. P[n] \in PoseRecords
  BY <1>7, Elements
<1>. HIDE DEF yaw, n
<1>10. e \in PoseRecords
  BY <1>8, <1>9 DEF PoseRecords
<1>11. [b EXCEPT !.poses[n].yaw = yaw] = [b EXCEPT !.poses = Q]
  BY <1>7, <1>9 DEF Bands, PoseRecords
<1>. HIDE DEF e, P
<1>12. Q \in Seq(PoseRecords) /\ Len(Q) = Len(P)
  BY <1>7, <1>10, Replaced
<1>. HIDE DEF Q
<1>13. [b EXCEPT !.poses = Q] \in ProperBands
  BY <1>6, <1>7, <1>12, PosesReplaced DEF P
<1>. QED  BY <1>5, <1>11, <1>13

\* A band that can be warm started from is proper.
LEMMA InitIsProper ==
  ASSUME NEW b \in {EmptyBand} \cup ProperBands
  PROVE  (IsInit(b) => b \in ProperBands) /\ (~IsInit(b) => b = EmptyBand)
<1>1. ~IsInit(EmptyBand)
  BY DEF IsInit, EmptyBand
<1>2. ASSUME b \in ProperBands  PROVE IsInit(b)
  <2>1. b.poses \in Seq(PoseRecords) /\ b.dts \in Seq(Nat) /\ Len(b.dts) >= 1 /\ Len(b.poses) >= 2
    <3>1. b \in Bands /\ b \in TimedBands
      BY <1>2, ProperIsTimed
    <3>. QED  BY <1>2, <3>1, BandParts DEF ProperBands, TimedBands
  <2>2. b.poses # <<>> /\ b.dts # <<>>
    BY <2>1, EmptySeq
  <2>. QED  BY <2>2 DEF IsInit
<1>. QED  BY <1>1, <1>2

\* The heading at the end of a plan is reached in steps, one turn each.
LEMMA SummedHeadingSteps ==
  ASSUME NEW plan \in Seq(Samples) \ {<<>>}
  PROVE  \E g : /\ g[0] = plan[1].yaw /\ SummedHeading(plan) = g[Len(plan) - 1]
                /\ \A k \in 1 .. Len(plan) - 1 :
                     g[k] = g[k - 1] + Normalize(plan[k + 1].yaw - plan[k].yaw)
                /\ \A k \in 0 .. Len(plan) - 1 : g[k] \in Int
<1>. DEFINE n == Len(plan) - 1
            base == plan[1].yaw
            turns(k) == Normalize(plan[k + 1].yaw - plan[k].yaw)
            yaw[k \in 0 .. n] ==
              IF k = 0 THEN plan[1].yaw ELSE yaw[k - 1] + Normalize(plan[k + 1].yaw - plan[k].yaw)
            step == [e \in (1 .. n) \X Int |-> e[2] + turns(e[1])]
<1>1. n \in Nat /\ \A i \in 1 .. n + 1 : plan[i].yaw \in Int
  <2>1. Len(plan) \in Nat \ {0} /\ \A i \in 1 .. Len(plan) : plan[i] \in Samples
    BY PlanEnds
  <2>. QED  BY <2>1 DEF Samples
<1>2. base \in Int
  BY <1>1
<1>3. ASSUME NEW k \in 1 .. n  PROVE turns(k) \in Int
  <2>1. plan[k + 1].yaw - plan[k].yaw \in Int
    BY <1>1
  <2>. QED  BY <2>1, NormalizeType
<1>. HIDE DEF n, base
<1>4. step \in [(1 .. n) \X Int -> Int]
  <2>. HIDE DEF turns
  <2>. QED  BY <1>3
<1>5. PICK g \in [0 .. n -> Int] : Chain(g, n, base, step)
  BY <1>1, <1>2, <1>4, Recursion
<1>6. ASSUME NEW k \in 1 .. n  PROVE g[k] = g[k - 1] + turns(k)
  <2>1. k - 1 \in 0 .. n
    BY <1>1
  <2>2. <<k, g[k - 1]>> \in (1 .. n) \X Int /\ g[k] = step[<<k, g[k - 1]>>]
    BY <1>5, <2>1 DEF Chain
  <2>. QED  BY <2>2
<1>7. g = [k \in 0 .. n |-> IF k = 0 THEN base ELSE g[k - 1] + turns(k)]
  <2>1. ASSUME NEW k \in 0 .. n  PROVE k = 0 \/ k \in 1 .. n
    BY <1>1
  <2>. HIDE DEF turns
  <2>. QED  BY <1>5, <1>6, <2>1 DEF Chain
<1>8. yaw = [k \in 0 .. n |-> IF k = 0 THEN base ELSE yaw[k - 1] + turns(k)]
  BY <1>7 DEF base
<1>. HIDE DEF yaw
<1>9. yaw[0] = base
  BY <1>1, <1>8
<1>10. ASSUME NEW k \in 1 .. n  PROVE yaw[k] = yaw[k - 1] + turns(k)
  <2>1. k \in 0 .. n /\ k # 0
    BY <1>1
  <2>. QED  BY <2>1, <1>8
<1>. HIDE DEF turns
<1>11. \A k \in 1 .. n : yaw[k - 1] \in Int => yaw[k] \in Int
  BY <1>3, <1>10
<1>12. \A k \in 0 .. n : yaw[k] \in Int
  BY <1>1, <1>2, <1>9, <1>11, AllTyped
<1>13. SummedHeading(plan) = yaw[n]
  BY DEF SummedHeading, yaw, n
<1>. QED  BY <1>9, <1>10, <1>12, <1>13 DEF n, base, turns

LEMMA TerminalHeadingType ==
  ASSUME NEW plan \in Seq(Samples) \ {<<>>}
  PROVE  TerminalHeading(plan) \in Int
<1>1. plan[1].yaw \in Int /\ Last(plan).yaw \in Int /\ Len(plan) - 1 \in 0 .. Len(plan) - 1
  <2>1. Len(plan) \in Nat \ {0} /\ plan[1] \in Samples /\ Last(plan) \in Samples
    BY PlanEnds
  <2>. QED  BY <2>1 DEF Samples
<1>2. Last(plan).yaw - plan[1].yaw \in Int
  BY <1>1
<1>3. Normalize(Last(plan).yaw - plan[1].yaw) \in Int
  BY <1>2, NormalizeType
<1>4. SummedHeading(plan) \in Int
  BY <1>1, SummedHeadingSteps
<1>. QED  BY <1>1, <1>3, <1>4 DEF TerminalHeading

\* The request plan() works on.
LEMMA PrepareType ==
  ASSUME cfg \in ConfigRecords, band \in {EmptyBand} \cup ProperBands,
         NEW plan \in Seq(Samples) \ {<<>>}
  PROVE  /\ Prepare(plan) \in RequestRecords
         /\ Prepare(plan).plan = plan /\ Prepare(plan).retried = FALSE
         /\ Prepare(plan).warm => band \in ProperBands
<1>. DEFINE first == plan[1]
            wanted == Last(plan)
            branch == TerminalHeading(plan)
            warm == /\ IsInit(band)
                    /\ Magnitude(wanted.x - BackPose(band).x) < cfg.reinitDistance
                    /\ Magnitude(Normalize(branch - BackPose(band).yaw)) < cfg.reinitAngle
            startYaw == IF warm /\ cfg.differential
                        THEN Pose(band, 0).yaw + Normalize(first.yaw - Pose(band, 0).yaw)
                        ELSE first.yaw
            goalYaw == IF warm THEN BackPose(band).yaw + Normalize(branch - BackPose(band).yaw)
                       ELSE branch
            same == IsInit(band) /\ first = [x |-> Pose(band, 0).x,
                                             yaw |-> Normalize(Pose(band, 0).yaw)]
            oldTurn == IF same THEN BackPose(band).yaw - Pose(band, 0).yaw ELSE Null
<1>1. first \in Samples /\ wanted \in Samples
  BY PlanEnds
<1>2. first.x \in Int /\ first.yaw \in Int /\ wanted.x \in Int /\ wanted.yaw \in Int
  BY <1>1 DEF Samples
<1>3. branch \in Int
  BY TerminalHeadingType
<1>4. ASSUME IsInit(band)
      PROVE  BackPose(band).yaw \in Int /\ Pose(band, 0).yaw \in Int
  <2>1. band \in TimedBands
    BY <1>4, InitIsProper, ProperIsTimed
  <2>. QED  BY <2>1, Indexed, FirstPose DEF PoseRecords
<1>5. Prepare(plan) = [plan |-> plan, warm |-> warm, retried |-> FALSE, cold |-> Null,
                       start |-> [x |-> first.x, yaw |-> startYaw],
                       goal |-> [x |-> wanted.x, yaw |-> goalYaw],
                       terminalYaw |-> goalYaw - startYaw + first.yaw, oldTurn |-> oldTurn]
  BY Zenon DEF Prepare
<1>6. warm \in BOOLEAN /\ (warm => IsInit(band)) /\ (same => IsInit(band))
  OBVIOUS
<1>7. startYaw \in Int
  <2>1. CASE warm /\ cfg.differential
    <3>1. first.yaw - Pose(band, 0).yaw \in Int /\ Pose(band, 0).yaw \in Int
      BY <1>2, <1>4, <2>1
    <3>2. Normalize(first.yaw - Pose(band, 0).yaw) \in Int
      BY <3>1, NormalizeType
    <3>. QED  BY <2>1, <3>1, <3>2
  <2>2. CASE ~(warm /\ cfg.differential)
    <3>1. startYaw = first.yaw
      BY <2>2
    <3>. QED  BY <1>2, <3>1
  <2>. QED  BY <2>1, <2>2
<1>. HIDE DEF branch
<1>8. goalYaw \in Int
  <2>1. CASE warm
    <3>1. branch - BackPose(band).yaw \in Int /\ BackPose(band).yaw \in Int
      BY <1>3, <1>4, <2>1
    <3>2. Normalize(branch - BackPose(band).yaw) \in Int
      BY <3>1, NormalizeType
    <3>. QED  BY <2>1, <3>1, <3>2
  <2>2. CASE ~warm
    BY <1>3, <2>2
  <2>. QED  BY <2>1, <2>2
<1>9. oldTurn \in Int \cup {Null}
  BY <1>4, <1>6
<1>. HIDE DEF warm, startYaw, goalYaw, same, oldTurn
<1>10. goalYaw - startYaw + first.yaw \in Int
  BY <1>2, <1>7, <1>8
<1>11. Prepare(plan) \in RequestRecords
  BY <1>2, <1>5, <1>6, <1>7, <1>8, <1>9, <1>10 DEF RequestRecords, Samples
<1>. QED  BY <1>5, <1>6, <1>11, InitIsProper

-----------------------------------------------------------------------------
(* The inductive invariant.                                                *)

\* The counters and flags of a call, whatever it is doing.
CountersTyped ==
  /\ cfg \in Configs
  /\ pc \in Labels
  /\ loop \in [at : Nat, rep : 0 .. 99, modified : BOOLEAN, iteration : Nat]
  /\ requested \in Samples \cup {Null}
  /\ turn \in Nat /\ expired \in BOOLEAN /\ answer \in BOOLEAN
  /\ cost \in {"none", "current", "stale"}

\* A call in progress works on a proper band, and so would its repetition.
CallHasBand ==
  IF pc = "idle" THEN request = Null /\ band \in {EmptyBand} \cup ProperBands
  ELSE /\ request \in RequestRecords /\ band \in ProperBands
       /\ request.warm => request.cold \in ProperBands

\* The optimizer holds the graph of a band of this size, or nothing.
GraphOfSize ==
  IF pc \in {"prepare", "solve"}
  THEN /\ graph \in [poses : Nat, dts : Nat, edges : SUBSET EdgeRecords]
       /\ graph.poses = SizePoses(band) /\ graph.dts = SizeTimeDiffs(band)
       /\ GraphClosed(graph)
  ELSE graph = EmptyGraph

IInv == CountersTyped /\ CallHasBand /\ GraphOfSize

LEMMA EmptyBandIsBand ==
  EmptyBand \in Bands
<1>. DEFINE P == <<>>
<1>1. P \in Seq(PoseRecords) /\ P \in Seq(Nat)
  BY EmptySeq
<1>2. EmptyBand = [poses |-> P, dts |-> P]
  BY DEF EmptyBand
<1>. HIDE DEF P
<1>. QED  BY <1>1, <1>2 DEF Bands

LEMMA InvariantTypes ==
  IInv => TypeOK
<1>. SUFFICES ASSUME IInv  PROVE TypeOK
  OBVIOUS
<1>1. band \in Bands
  BY EmptyBandIsBand, ProperIsTimed DEF IInv, CallHasBand
<1>2. graph \in [poses : Nat, dts : Nat, edges : SUBSET EdgeRecords]
  BY DEF IInv, GraphOfSize, EmptyGraph
<1>. QED  BY <1>1, <1>2 DEF IInv, CountersTyped, CallHasBand, TypeOK

LEMMA InvariantShape ==
  IInv => GraphMatchesBand
<1>. SUFFICES ASSUME IInv  PROVE GraphMatchesBand
  OBVIOUS
<1>1. BandShape
  BY DEF IInv, CallHasBand, BandShape, ProperBands, TimedBands, SizePoses, SizeTimeDiffs
<1>. QED  BY <1>1 DEF IInv, GraphOfSize, GraphMatchesBand

LEMMA ConfigTyped ==
  ASSUME IInv
  PROVE  cfg \in ConfigRecords
BY PlannerAssumption DEF IInv, CountersTyped

LEMMA InitKeeps ==
  Init => IInv
<1>. SUFFICES ASSUME Init  PROVE IInv
  OBVIOUS
<1>1. CountersTyped
  <2>1. NoLoop \in [at : Nat, rep : 0 .. 99, modified : BOOLEAN, iteration : Nat]
    BY DEF NoLoop
  <2>2. turn = 0 /\ 0 \in Nat /\ expired = TRUE /\ answer = FALSE
    BY DEF Init
  <2>3. turn \in Nat /\ expired \in BOOLEAN /\ answer \in BOOLEAN
    BY <2>2
  <2>. QED  BY <2>1, <2>3 DEF Init, CountersTyped, Labels
<1>. QED  BY <1>1 DEF Init, IInv, CallHasBand, GraphOfSize

\* The plans that are asked for.
LEMMA PlanTyped ==
  ASSUME IInv, NEW plan \in cfg.plans
  PROVE  plan \in Seq(Samples) \ {<<>>}
BY ConfigTyped DEF ConfigRecords

LEMMA AfterSeedType ==
  AfterSeed \in {"subdivide", "optimize"}
BY DEF AfterSeed

LEMMA ForgetType ==
  Forget \in {"none", "current", "stale"}
BY DEF Forget

LEMMA ColdBandType ==
  ASSUME IInv, NEW r \in RequestRecords
  PROVE  ColdBand(r) \in ProperBands
<1>1. r.plan \in Seq(Samples) \ {<<>>} /\ r.goal.yaw \in Int /\ r.terminalYaw \in Int
  BY DEF RequestRecords, Samples
<1>. QED  BY <1>1, ConfigTyped, InitializedType DEF ColdBand

\* A cold band can be kept with the request.
LEMMA RequestWithCold ==
  ASSUME NEW r \in RequestRecords, NEW b \in ProperBands \cup {Null}
  PROVE  /\ [r EXCEPT !.cold = b] \in RequestRecords /\ [r EXCEPT !.cold = b].cold = b
         /\ [r EXCEPT !.cold = b].warm = r.warm
BY ProperIsTimed DEF RequestRecords

LEMMA PlanKeeps ==
  ASSUME IInv, NEW plan \in cfg.plans, Plan(plan)
  PROVE  IInv'
<1>. DEFINE r == Prepare(plan)
            c == IF r.warm THEN ColdBand(r) ELSE r.cold
            q == [r EXCEPT !.cold = c]
            updated == UpdateAndPruneTEB(band, r.start, r.goal, cfg.minSamples, cfg.differential)
            fresh == Initialized(plan, r.goal.yaw, FALSE, r.terminalYaw)
<1>1. cfg \in ConfigRecords /\ plan \in Seq(Samples) \ {<<>>}
  BY ConfigTyped, PlanTyped
<1>2. pc = "idle" /\ band \in {EmptyBand} \cup ProperBands /\ graph = EmptyGraph
  BY DEF Plan, IInv, CallHasBand, GraphOfSize
<1>3. r \in RequestRecords /\ (r.warm => band \in ProperBands)
  BY <1>1, <1>2, PrepareType
<1>4. request' = q /\ band' = IF r.warm THEN updated ELSE fresh
  BY DEF Plan
<1>5. r.cold = Null
  BY DEF Prepare
<1>6. UNCHANGED <<cfg, graph, loop, requested, turn>> /\ pc' = AfterSeed /\ expired' = FALSE
      /\ answer' = FALSE /\ cost' = Forget
  BY DEF Plan
<1>. HIDE DEF r
<1>7. c \in ProperBands \cup {Null} /\ (r.warm => c \in ProperBands)
  BY <1>3, <1>5, ColdBandType
<1>8. q \in RequestRecords /\ (q.warm => q.cold \in ProperBands)
  <2>. HIDE DEF c
  <2>. QED  BY <1>3, <1>7, RequestWithCold
<1>9. r.start \in Samples /\ r.goal \in Samples /\ r.goal.yaw \in Int /\ r.terminalYaw \in Int
  BY <1>3 DEF RequestRecords, Samples
<1>10. r.warm => updated \in ProperBands
  <2>1. cfg.minSamples \in Nat /\ cfg.minSamples >= 2 /\ cfg.differential \in BOOLEAN
    <3>1. cfg.minSamples \in Nat \ (0 .. 2) /\ cfg.differential \in BOOLEAN
      BY <1>1 DEF ConfigRecords
    <3>. QED  BY <3>1
  <2>. QED  BY <1>3, <1>9, <2>1, UpdateAndPruneTEBType
<1>11. fresh \in ProperBands
  BY <1>1, <1>9, InitializedType
<1>. HIDE DEF updated, fresh, q
<1>12. CountersTyped'
  BY <1>6, AfterSeedType, ForgetType DEF IInv, CountersTyped, Labels
<1>13. CallHasBand'
  BY <1>4, <1>6, <1>8, <1>10, <1>11, AfterSeedType DEF CallHasBand
<1>14. GraphOfSize'
  BY <1>2, <1>6, AfterSeedType DEF GraphOfSize
<1>. QED  BY <1>12, <1>13, <1>14 DEF IInv

\* The bands a candidate begins with.
LEMMA NewCandidatesType ==
  ASSUME IInv, NEW plan \in Seq(Samples) \ {<<>>}
  PROVE  NewCandidates(plan) \subseteq ProperBands
<1>. DEFINE seeded == InitTrajectoryToGoal(Oriented(plan), cfg.minSamples)
            path == [i \in DOMAIN plan |-> plan[i].x]
            explored == InitTrajectoryToGoalPath(path, plan[1].yaw, Last(plan).yaw,
                                                 cfg.minSamples, cfg.backwards)
            straight == InitTrajectoryToGoalStraight(plan[1], Last(plan), cfg.minSamples)
<1>1. cfg \in ConfigRecords /\ cfg.minSamples \in Nat /\ cfg.backwards \in BOOLEAN
  BY ConfigTyped DEF ConfigRecords
<1>2. plan[1] \in Samples /\ Last(plan) \in Samples /\ Len(plan) \in Nat \ {0}
      /\ \A i \in 1 .. Len(plan) : plan[i] \in Samples
  BY PlanEnds
<1>3. plan[1].yaw \in Int /\ Last(plan).yaw \in Int
  BY <1>2 DEF Samples
<1>4. seeded \in ProperBands
  BY <1>1, OrientedType, InitTrajectoryToGoalType DEF Seeds
<1>5. path \in Seq(Int) \ {<<>>}
  <2>1. PICK n \in Nat \ {0} : n = Len(plan)
    BY <1>2
  <2>2. DOMAIN plan = 1 .. n /\ \A i \in 1 .. n : plan[i].x \in Int
    BY <1>2, <2>1 DEF Samples
  <2>3. path \in Seq(Int) /\ Len(path) = n
    BY <2>2
  <2>. HIDE DEF path
  <2>. QED  BY <2>1, <2>3, EmptySeq
<1>. HIDE DEF path
<1>6. explored \in ProperBands
  BY <1>1, <1>3, <1>5, InitTrajectoryToGoalPathType
<1>7. straight \in ProperBands
  BY <1>1, <1>2, InitTrajectoryToGoalStraightType
<1>8. NewCandidates(plan) \subseteq {seeded, explored, straight}
  BY Zenon DEF NewCandidates, path
<1>. QED  BY <1>4, <1>6, <1>7, <1>8

LEMMA OptimizeCandidateKeeps ==
  ASSUME IInv, NEW plan \in cfg.plans, OptimizeCandidate(plan)
  PROVE  IInv'
<1>. DEFINE r == Prepare(plan)
            q == [r EXCEPT !.warm = FALSE]
            updated == UpdateAndPruneTEB(band, plan[1], Last(plan), 3, FALSE)
<1>1. cfg \in ConfigRecords /\ plan \in Seq(Samples) \ {<<>>}
  BY ConfigTyped, PlanTyped
<1>2. pc = "idle" /\ band \in {EmptyBand} \cup ProperBands /\ graph = EmptyGraph
  BY DEF OptimizeCandidate, IInv, CallHasBand, GraphOfSize
<1>3. r \in RequestRecords
  BY <1>1, <1>2, PrepareType
<1>4. request' = q /\ band' \in IF IsInit(band) THEN {updated} ELSE NewCandidates(plan)
  BY DEF OptimizeCandidate
<1>5. UNCHANGED <<cfg, graph, loop, requested, turn, expired>> /\ pc' = "optimize"
      /\ answer' = FALSE /\ cost' = Forget
  BY DEF OptimizeCandidate
<1>. HIDE DEF r
<1>6. q \in RequestRecords /\ ~q.warm
  BY <1>3 DEF RequestRecords
<1>7. IsInit(band) => updated \in ProperBands
  <2>1. plan[1] \in Samples /\ Last(plan) \in Samples
    BY <1>1, PlanEnds
  <2>2. IsInit(band) => band \in ProperBands
    BY <1>2, InitIsProper
  <2>3. 3 \in Nat /\ 3 >= 2 /\ FALSE \in BOOLEAN
    OBVIOUS
  <2>. QED  BY <2>1, <2>2, <2>3, UpdateAndPruneTEBType
<1>8. NewCandidates(plan) \subseteq ProperBands
  BY <1>1, NewCandidatesType
<1>. HIDE DEF updated, q
<1>9. band' \in ProperBands
  BY <1>4, <1>7, <1>8
<1>10. CountersTyped'
  BY <1>5, ForgetType DEF IInv, CountersTyped, Labels
<1>11. CallHasBand'
  BY <1>4, <1>5, <1>6, <1>9 DEF CallHasBand
<1>12. GraphOfSize'
  BY <1>2, <1>5 DEF GraphOfSize
<1>. QED  BY <1>10, <1>11, <1>12 DEF IInv

LEMMA SubdivideKeeps ==
  ASSUME IInv, Subdivide
  PROVE  IInv'
<1>. DEFINE i == loop.at
            from == Pose(band, i)
            to == Pose(band, i + 1)
            angle == TurnBetween(from, to)
            sideways == Along(from.yaw + angle \div 2) = 0
            x == IF sideways THEN from.x ELSE from.x + (to.x - from.x) \div 2
            yaw == from.yaw + angle \div 2
            middle == PoseAt(x, yaw)
            half == Larger(1, TimeDiff(band, i) \div 2)
            halved == InsertTimeDiff(InsertPose(SetTimeDiff(band, i, half), i + 1, middle), i + 1, half)
            freed == [band EXCEPT !.poses =
                        [k \in DOMAIN band.poses |-> [band.poses[k] EXCEPT !.fixed = (k = 1)]]]
<1>1. pc = "subdivide" /\ band \in ProperBands /\ graph = EmptyGraph /\ i \in Nat
      /\ request \in RequestRecords /\ (request.warm => request.cold \in ProperBands)
  BY DEF Subdivide, IInv, CallHasBand, GraphOfSize, CountersTyped
<1>2. UNCHANGED <<cfg, graph, requested, turn, expired, request, answer, cost>>
  BY DEF Subdivide
<1>3. CASE i < SizeTimeDiffs(band)
  <2>1. \/ band' = halved /\ UNCHANGED <<loop, pc>>
        \/ loop' = [loop EXCEPT !.at = i + 1] /\ UNCHANGED <<band, pc>>
    BY <1>3, Zenon DEF Subdivide
  <2>2. middle \in PoseRecords /\ half \in Nat
    <3>1. SizeTimeDiffs(band) \in Nat /\ band \in TimedBands
      BY <1>1, Indexed, ProperIsTimed
    <3>2. i + 1 \in 1 .. SizeTimeDiffs(band) /\ (i + 1) - 1 = i
      BY <1>1, <1>3, <3>1
    <3>3. PICK k \in 1 .. SizeTimeDiffs(band) : k = i + 1 /\ k - 1 = i
      BY <3>2
    <3>4. from \in PoseRecords /\ to \in PoseRecords /\ TimeDiff(band, i) \in Nat /\ angle \in -4 .. 3
      BY <3>1, <3>3, Neighbours
    <3>5. from.x \in Int /\ from.yaw \in Int /\ to.x \in Int
      BY <3>4 DEF PoseRecords
    <3>. HIDE DEF from, to, angle
    <3>6. yaw \in Int
      BY <3>4, <3>5
    <3>7. x \in Int
      <4>1. to.x - from.x \in Int
        BY <3>5
      <4>2. from.x + (to.x - from.x) \div 2 \in Int
        BY <3>5, <4>1, HalfType
      <4>. HIDE DEF sideways
      <4>. QED  BY <3>5, <4>2
    <3>8. half \in Nat
      <4>1. TimeDiff(band, i) \div 2 \in Nat /\ 1 \in Nat
        BY <3>4, HalfType
      <4>. QED  BY <4>1, LargerType
    <3>. HIDE DEF x, yaw
    <3>. QED  BY <3>6, <3>7, <3>8, PoseAtType
  <2>. HIDE DEF middle, half
  <2>3. halved \in ProperBands
    BY <1>1, <1>3, <2>2, HalvedProper
  <2>. HIDE DEF halved, i
  <2>4. band' \in ProperBands /\ pc' = pc
    BY <1>1, <2>1, <2>3
  <2>5. loop' \in [at : Nat, rep : 0 .. 99, modified : BOOLEAN, iteration : Nat]
    BY <1>1, <2>1 DEF IInv, CountersTyped
  <2>6. CountersTyped'
    BY <1>2, <2>4, <2>5 DEF IInv, CountersTyped
  <2>7. CallHasBand'
    BY <1>1, <1>2, <2>4 DEF CallHasBand
  <2>8. GraphOfSize'
    BY <1>1, <1>2, <2>4 DEF GraphOfSize
  <2>. QED  BY <2>6, <2>7, <2>8 DEF IInv
<1>4. CASE ~(i < SizeTimeDiffs(band))
  <2>1. band' = freed /\ loop' = NoLoop /\ pc' = "optimize"
    BY <1>4, Zenon DEF Subdivide
  <2>2. freed \in ProperBands
    BY <1>1, FreedProper
  <2>. HIDE DEF freed
  <2>3. CountersTyped'
    BY <1>2, <2>1 DEF IInv, CountersTyped, Labels, NoLoop
  <2>4. CallHasBand'
    BY <1>1, <1>2, <2>1, <2>2 DEF CallHasBand
  <2>5. GraphOfSize'
    BY <1>1, <1>2, <2>1 DEF GraphOfSize
  <2>. QED  BY <2>3, <2>4, <2>5 DEF IInv
<1>. QED  BY <1>3, <1>4

\* The call ends here, or is repeated from its cold seed.
LEMMA FailKeeps ==
  ASSUME IInv, pc # "idle", NEW left, left \subseteq ProperBands, Fail(left)
  PROVE  /\ CallHasBand' /\ pc' \in {"idle", "subdivide", "optimize"} /\ loop' = NoLoop
         /\ answer' \in BOOLEAN
<1>0. request \in RequestRecords /\ band \in ProperBands
      /\ (request.warm => request.cold \in ProperBands) /\ answer \in BOOLEAN
  BY DEF IInv, CallHasBand, CountersTyped
<1>1. CASE request.warm /\ ~request.retried
  <2>. DEFINE q == [request EXCEPT !.retried = TRUE]
  <2>1. /\ request' = q /\ band' = request.cold /\ pc' = AfterSeed /\ loop' = NoLoop
        /\ answer' = answer
    BY <1>1 DEF Fail
  <2>2. q \in RequestRecords /\ q.cold = request.cold
    BY <1>0 DEF RequestRecords
  <2>. HIDE DEF q
  <2>3. band' \in ProperBands /\ pc' \in {"subdivide", "optimize"}
    BY <1>0, <1>1, <2>1, AfterSeedType
  <2>4. CallHasBand'
    BY <1>0, <1>1, <2>1, <2>2, <2>3 DEF CallHasBand
  <2>. QED  BY <1>0, <2>1, <2>3, <2>4
<1>2. CASE ~(request.warm /\ ~request.retried)
  <2>1. request' = Null /\ answer' = FALSE /\ pc' = "idle" /\ loop' = NoLoop /\ band' \in left
    BY <1>2 DEF Fail, Answer
  <2>2. CallHasBand'
    BY <2>1 DEF CallHasBand
  <2>. QED  BY <2>1, <2>2
<1>. QED  BY <1>1, <1>2

LEMMA NoLoopType ==
  NoLoop \in [at : Nat, rep : 0 .. 99, modified : BOOLEAN, iteration : Nat]
BY DEF NoLoop

\* A failed call leaves an invariant state when the graph is cleared.
LEMMA FailKeepsAll ==
  ASSUME IInv, pc # "idle", NEW left, left \subseteq ProperBands, Fail(left),
         graph' = EmptyGraph, UNCHANGED <<cfg, expired, cost>>,
         requested' \in Samples \cup {Null}, turn' \in Nat
  PROVE  IInv'
<1>1. /\ CallHasBand' /\ pc' \in {"idle", "subdivide", "optimize"} /\ loop' = NoLoop
      /\ answer' \in BOOLEAN
  BY FailKeeps
<1>2. CountersTyped'
  BY <1>1, NoLoopType DEF IInv, CountersTyped, Labels
<1>3. GraphOfSize'
  BY <1>1 DEF GraphOfSize
<1>. QED  BY <1>1, <1>2, <1>3 DEF IInv

LEMMA InCall ==
  ASSUME IInv, pc # "idle"
  PROVE  /\ band \in ProperBands /\ {band} \subseteq ProperBands /\ band \in TimedBands
         /\ request \in RequestRecords /\ (request.warm => request.cold \in ProperBands)
         /\ cfg \in ConfigRecords
         /\ loop \in [at : Nat, rep : 0 .. 99, modified : BOOLEAN, iteration : Nat]
         /\ requested \in Samples \cup {Null} /\ turn \in Nat
BY ConfigTyped, ProperIsTimed DEF IInv, CallHasBand, CountersTyped

LEMMA OptimizeKeeps ==
  ASSUME IInv, Optimize
  PROVE  IInv'
<1>1. pc = "optimize" /\ graph = EmptyGraph /\ UNCHANGED <<cfg, graph, turn, expired, cost>>
  BY DEF Optimize, IInv, GraphOfSize
<1>2. CASE cfg.activate
  <2>. DEFINE s == [x |-> BackPose(band).x, yaw |-> BackPose(band).yaw]
  <2>1. requested' = s /\ pc' = "iterate" /\ UNCHANGED <<band, loop, request, answer>>
    BY <1>2 DEF Optimize
  <2>2. s \in Samples
    <3>1. BackPose(band) \in PoseRecords
      BY <1>1, InCall, Indexed
    <3>2. BackPose(band).x \in Int /\ BackPose(band).yaw \in Int
      BY <3>1 DEF PoseRecords
    <3>. QED  BY <3>2 DEF Samples
  <2>. HIDE DEF s
  <2>3. CountersTyped'
    BY <1>1, <2>1, <2>2 DEF IInv, CountersTyped, Labels
  <2>4. CallHasBand' /\ GraphOfSize'
    BY <1>1, <2>1 DEF IInv, CallHasBand, GraphOfSize
  <2>. QED  BY <2>3, <2>4 DEF IInv
<1>3. CASE ~cfg.activate
  <2>1. Fail({band}) /\ UNCHANGED requested
    BY <1>3 DEF Optimize
  <2>. QED  BY <1>1, <2>1, InCall, FailKeepsAll
<1>. QED  BY <1>2, <1>3

LEMMA IterateKeeps ==
  ASSUME IInv, Iterate
  PROVE  IInv'
<1>1. pc = "iterate" /\ graph = EmptyGraph
      /\ UNCHANGED <<cfg, band, graph, requested, turn, expired, cost>>
  BY DEF Iterate, IInv, GraphOfSize
<1>2. \/ pc' \in {"resize", "build"} /\ UNCHANGED <<loop, request, answer>>
      \/ Answer(TRUE)
  BY DEF Iterate
<1>3. CASE pc' \in {"resize", "build"} /\ UNCHANGED <<loop, request, answer>>
  BY <1>1, <1>3 DEF IInv, CountersTyped, CallHasBand, GraphOfSize, Labels
<1>4. CASE Answer(TRUE)
  <2>1. request' = Null /\ answer' = TRUE /\ pc' = "idle" /\ loop' = NoLoop
    BY <1>4 DEF Answer
  <2>2. CountersTyped'
    BY <1>1, <2>1, NoLoopType DEF IInv, CountersTyped, Labels
  <2>3. CallHasBand'
    BY <1>1, <2>1, InCall DEF CallHasBand
  <2>4. GraphOfSize'
    BY <1>1, <2>1 DEF GraphOfSize
  <2>. QED  BY <2>2, <2>3, <2>4 DEF IInv
<1>. QED  BY <1>2, <1>3, <1>4

LEMMA ResizeKeeps ==
  ASSUME IInv, Resize
  PROVE  IInv'
<1>1. pc = "resize" /\ graph = EmptyGraph /\ graph' = graph
      /\ UNCHANGED <<cfg, graph, requested, turn, expired, request, answer, cost>>
  BY DEF Resize, IInv, GraphOfSize
<1>2. band \in ProperBands /\ cfg \in ConfigRecords
      /\ loop \in [at : Nat, rep : 0 .. 99, modified : BOOLEAN, iteration : Nat]
  BY <1>1, InCall
<1>3. CASE loop.at < SizeTimeDiffs(band)
  <2>. DEFINE step == ResizeStep(band, loop.at, cfg)
  <2>1. band' = step.band /\ pc' = pc
        /\ loop' = [loop EXCEPT !.at = step.next, !.modified = @ \/ step.modified]
    BY <1>3 DEF Resize
  <2>2. step.band \in ProperBands /\ step.next \in Nat /\ step.modified \in BOOLEAN
    <3>1. loop.at \in Nat
      BY <1>2
    <3>. QED  BY <1>2, <1>3, <3>1, ResizeStepType
  <2>. HIDE DEF step
  <2>3. loop' \in [at : Nat, rep : 0 .. 99, modified : BOOLEAN, iteration : Nat]
    BY <1>2, <2>1, <2>2
  <2>4. CountersTyped'
    BY <1>1, <2>1, <2>3 DEF IInv, CountersTyped
  <2>5. CallHasBand' /\ GraphOfSize'
    BY <1>1, <2>1, <2>2 DEF IInv, CallHasBand, GraphOfSize
  <2>. QED  BY <2>4, <2>5 DEF IInv
<1>4. CASE ~(loop.at < SizeTimeDiffs(band))
  <2>1. band' = band
        /\ \/ /\ loop.rep + 1 < 100
              /\ loop' = [loop EXCEPT !.at = 0, !.rep = @ + 1, !.modified = FALSE] /\ pc' = pc
           \/ loop' = [NoLoop EXCEPT !.iteration = loop.iteration] /\ pc' = "build"
    BY <1>4, Zenon DEF Resize
  <2>2. loop' \in [at : Nat, rep : 0 .. 99, modified : BOOLEAN, iteration : Nat]
    <3>1. loop.rep \in 0 .. 99 /\ loop.iteration \in Nat
      BY <1>2
    <3>2. CASE /\ loop.rep + 1 < 100
               /\ loop' = [loop EXCEPT !.at = 0, !.rep = @ + 1, !.modified = FALSE]
      <4>1. loop.rep + 1 \in 0 .. 99 /\ 0 \in Nat
        BY <3>1, <3>2
      <4>. QED  BY <1>2, <3>2, <4>1
    <3>3. CASE loop' = [NoLoop EXCEPT !.iteration = loop.iteration]
      BY <3>1, <3>3, NoLoopType
    <3>. QED  BY <2>1, <3>2, <3>3
  <2>3. CountersTyped'
    BY <1>1, <2>1, <2>2 DEF IInv, CountersTyped, Labels
  <2>4. CallHasBand' /\ GraphOfSize'
    BY <1>1, <2>1 DEF IInv, CallHasBand, GraphOfSize
  <2>. QED  BY <2>3, <2>4 DEF IInv
<1>. QED  BY <1>3, <1>4

LEMMA BuildKeeps ==
  ASSUME IInv, Build
  PROVE  IInv'
<1>1. pc = "build" /\ graph = EmptyGraph /\ UNCHANGED <<cfg, requested, turn, expired, cost>>
  BY DEF Build, IInv, GraphOfSize
<1>2. graph' = BuildGraph(band, cfg) /\ pc' = "prepare" /\ UNCHANGED <<band, loop, request, answer>>
  BY <1>1 DEF Build
<1>3. CountersTyped' /\ CallHasBand'
  BY <1>1, <1>2 DEF IInv, CountersTyped, CallHasBand, Labels
<1>4. GraphOfSize'
  <2>1. band \in ProperBands /\ cfg \in ConfigRecords
    BY <1>1, InCall
  <2>. DEFINE g == BuildGraph(band, cfg)
  <2>2. /\ g.poses = SizePoses(band) /\ g.dts = SizeTimeDiffs(band) /\ GraphClosed(g)
        /\ g \in [poses : Nat, dts : Nat, edges : SUBSET EdgeRecords]
    BY <2>1, GraphOfBand
  <2>. HIDE DEF g
  <2>3. graph' = g /\ band' = band /\ pc' = "prepare"
    BY <1>2 DEF g
  <2>4. GraphClosed(graph)'
    BY <2>2, <2>3 DEF GraphClosed
  <2>5. SizePoses(band)' = SizePoses(band) /\ SizeTimeDiffs(band)' = SizeTimeDiffs(band)
    BY <2>3 DEF SizePoses, SizeTimeDiffs
  <2>. QED  BY <2>2, <2>3, <2>4, <2>5 DEF GraphOfSize
<1>. QED  BY <1>3, <1>4 DEF IInv

LEMMA PrepareSolveKeeps ==
  ASSUME IInv, PrepareSolve
  PROVE  IInv'
<1>1. pc = "prepare" /\ UNCHANGED <<cfg, requested, expired, cost>>
  BY DEF PrepareSolve
<1>2. \/ graph' = EmptyGraph /\ Fail({band}) /\ UNCHANGED turn
      \/ pc' = "solve" /\ turn' = AbsoluteTurn(band) /\ UNCHANGED <<band, graph, loop, request, answer>>
  BY Zenon DEF PrepareSolve
<1>3. CASE graph' = EmptyGraph /\ Fail({band}) /\ UNCHANGED turn
  BY <1>1, <1>3, InCall, FailKeepsAll
<1>4. CASE pc' = "solve" /\ turn' = AbsoluteTurn(band) /\ UNCHANGED <<band, graph, loop, request, answer>>
  <2>1. AbsoluteTurn(band) \in Nat
    BY <1>1, InCall, AbsoluteTurnType
  <2>2. CountersTyped'
    BY <1>1, <1>4, <2>1 DEF IInv, CountersTyped, Labels
  <2>3. CallHasBand' /\ GraphOfSize'
    BY <1>1, <1>4 DEF IInv, CallHasBand, GraphOfSize
  <2>. QED  BY <2>2, <2>3 DEF IInv
<1>. QED  BY <1>2, <1>3, <1>4

\* A step of a solver that changes the values of a band, not its size.
LEMMA SolverKeeps ==
  ASSUME IInv, pc = "solve", band' \in ProperBands,
         SizePoses(band)' = SizePoses(band), SizeTimeDiffs(band)' = SizeTimeDiffs(band),
         UNCHANGED <<cfg, graph, pc, loop, requested, turn, expired, request, answer, cost>>
  PROVE  IInv'
<1>1. CountersTyped' /\ CallHasBand'
  BY DEF IInv, CountersTyped, CallHasBand
<1>2. GraphClosed(graph)'
  BY DEF IInv, GraphOfSize, GraphClosed
<1>3. GraphOfSize'
  BY <1>2 DEF IInv, GraphOfSize
<1>. QED  BY <1>1, <1>3 DEF IInv

LEMMA MoveVertexKeeps ==
  ASSUME IInv, MoveVertex
  PROVE  IInv'
<1>1. pc = "solve" /\ UNCHANGED <<cfg, graph, pc, loop, requested, turn, expired, request, answer, cost>>
  BY DEF MoveVertex
<1>2. band \in ProperBands /\ band \in TimedBands
  BY <1>1, InCall
<1>3. CASE \E i \in 0 .. SizePoses(band) - 1, x \in Positions :
             band' = Moved(band, i, x, Pose(band, i).yaw)
  <2>1. PICK i \in 0 .. SizePoses(band) - 1, x \in Positions :
          band' = Moved(band, i, x, Pose(band, i).yaw)
    BY <1>3
  <2>2. x \in Int /\ Pose(band, i).yaw \in Int
    BY <1>2, PlannerAssumption, Indexed DEF PoseRecords
  <2>. DEFINE c == Moved(band, i, x, Pose(band, i).yaw)
  <2>3. c \in ProperBands /\ SizePoses(c) = SizePoses(band) /\ SizeTimeDiffs(c) = SizeTimeDiffs(band)
    BY <1>2, <2>2, MovedProper
  <2>. HIDE DEF c
  <2>4. band' = c
    BY <2>1 DEF c
  <2>5. SizePoses(band)' = SizePoses(c) /\ SizeTimeDiffs(band)' = SizeTimeDiffs(c)
    BY <2>4 DEF SizePoses, SizeTimeDiffs
  <2>. QED  BY <1>1, <2>3, <2>4, <2>5, SolverKeeps
<1>4. CASE \E i \in 0 .. SizeTimeDiffs(band) - 1, dt \in Durations :
             band' = SetTimeDiff(band, i, dt)
  <2>1. PICK i \in 0 .. SizeTimeDiffs(band) - 1, dt \in Durations : band' = SetTimeDiff(band, i, dt)
    BY <1>4
  <2>2. dt \in Nat
    BY PlannerAssumption
  <2>. DEFINE c == SetTimeDiff(band, i, dt)
  <2>3. c \in ProperBands /\ SizePoses(c) = SizePoses(band) /\ SizeTimeDiffs(c) = SizeTimeDiffs(band)
    BY <1>2, <2>2, SetTimeDiffProper
  <2>. HIDE DEF c
  <2>4. band' = c
    BY <2>1 DEF c
  <2>5. SizePoses(band)' = SizePoses(c) /\ SizeTimeDiffs(band)' = SizeTimeDiffs(c)
    BY <2>4 DEF SizePoses, SizeTimeDiffs
  <2>. QED  BY <1>1, <2>3, <2>4, <2>5, SolverKeeps
<1>. QED  BY <1>3, <1>4 DEF MoveVertex

LEMMA MoveControlKeeps ==
  ASSUME IInv, MoveControl
  PROVE  IInv'
<1>1. pc = "solve" /\ UNCHANGED <<cfg, graph, pc, loop, requested, turn, expired, request, answer, cost>>
  BY DEF MoveControl
<1>2. band \in ProperBands /\ band \in TimedBands
  BY <1>1, InCall
<1>3. PICK i \in 1 .. SizePoses(band) - 2, x \in Positions, angle \in {-Quarter, 0, Quarter} :
        band' = Rollout(Moved(band, i, x, Pose(band, i - 1).yaw + angle))
  BY DEF MoveControl
<1>. DEFINE yaw == Pose(band, i - 1).yaw + angle
            m == Moved(band, i, x, yaw)
            c == Rollout(m)
<1>4. x \in Int /\ yaw \in Int /\ i \in 0 .. SizePoses(band) - 1
  <2>1. i - 1 \in 0 .. SizePoses(band) - 1 /\ i \in 0 .. SizePoses(band) - 1
    BY <1>2, Indexed
  <2>2. Pose(band, i - 1).yaw \in Int
    BY <1>2, <2>1, Indexed DEF PoseRecords
  <2>3. angle \in Int
    BY DEF Quarter
  <2>. QED  BY <2>1, <2>2, <2>3, PlannerAssumption
<1>. HIDE DEF yaw
<1>5. m \in ProperBands /\ SizePoses(m) = SizePoses(band) /\ SizeTimeDiffs(m) = SizeTimeDiffs(band)
  BY <1>2, <1>4, MovedProper
<1>. HIDE DEF m
<1>6. c \in ProperBands /\ SizePoses(c) = SizePoses(band) /\ SizeTimeDiffs(c) = SizeTimeDiffs(band)
  BY <1>5, RolloutProper
<1>. HIDE DEF c
<1>7. band' = c
  BY <1>3 DEF c, m, yaw
<1>8. SizePoses(band)' = SizePoses(c) /\ SizeTimeDiffs(band)' = SizeTimeDiffs(c)
  BY <1>7 DEF SizePoses, SizeTimeDiffs
<1>. QED  BY <1>1, <1>6, <1>7, <1>8, SolverKeeps

LEMMA ExpireKeeps ==
  ASSUME IInv, Expire
  PROVE  IInv'
<1>1. /\ expired' = TRUE
      /\ UNCHANGED <<cfg, band, graph, pc, loop, requested, turn, request, answer, cost>>
  BY DEF Expire
<1>2. CountersTyped' /\ CallHasBand'
  BY <1>1 DEF IInv, CountersTyped, CallHasBand
<1>3. GraphClosed(graph)' = GraphClosed(graph) /\ SizePoses(band)' = SizePoses(band)
      /\ SizeTimeDiffs(band)' = SizeTimeDiffs(band)
  BY <1>1
<1>4. GraphOfSize'
  BY <1>1, <1>3 DEF IInv, GraphOfSize
<1>. QED  BY <1>2, <1>4 DEF IInv

LEMMA SolvedKeeps ==
  ASSUME IInv, Solved
  PROVE  IInv'
<1>1. pc = "solve" /\ UNCHANGED <<cfg, requested, turn, expired>> /\ graph' = EmptyGraph
      /\ band' = IF cfg.differential THEN Rollout(band) ELSE band
  BY DEF Solved
<1>2. band' \in ProperBands
  BY <1>1, InCall, RolloutProper
<1>3. cost' \in {"none", "current", "stale"}
  BY DEF Solved, IInv, CountersTyped
<1>4. \/ Answer(TRUE)
      \/ loop' = [loop EXCEPT !.iteration = @ + 1] /\ pc' = "iterate" /\ UNCHANGED <<request, answer>>
  BY Zenon DEF Solved
<1>5. CASE Answer(TRUE)
  <2>1. request' = Null /\ answer' = TRUE /\ pc' = "idle" /\ loop' = NoLoop
    BY <1>5 DEF Answer
  <2>2. CountersTyped'
    BY <1>1, <1>3, <2>1, NoLoopType DEF IInv, CountersTyped, Labels
  <2>3. CallHasBand' /\ GraphOfSize'
    BY <1>1, <1>2, <2>1 DEF CallHasBand, GraphOfSize
  <2>. QED  BY <2>2, <2>3 DEF IInv
<1>6. CASE loop' = [loop EXCEPT !.iteration = @ + 1] /\ pc' = "iterate" /\ UNCHANGED <<request, answer>>
  <2>1. loop' \in [at : Nat, rep : 0 .. 99, modified : BOOLEAN, iteration : Nat]
    BY <1>1, <1>6, InCall
  <2>2. CountersTyped'
    BY <1>1, <1>3, <1>6, <2>1 DEF IInv, CountersTyped, Labels
  <2>3. CallHasBand' /\ GraphOfSize'
    BY <1>1, <1>2, <1>6 DEF IInv, CallHasBand, GraphOfSize
  <2>. QED  BY <2>2, <2>3 DEF IInv
<1>. QED  BY <1>4, <1>5, <1>6

LEMMA UnsolvedKeeps ==
  ASSUME IInv, Unsolved
  PROVE  IInv'
<1>. DEFINE moved == {Moved(band, SizePoses(band) - 1, x, BackPose(band).yaw) : x \in Positions}
            left == IF cfg.differential THEN moved ELSE {band}
<1>1. pc = "solve" /\ UNCHANGED <<cfg, requested, turn, expired, cost>> /\ graph' = EmptyGraph
      /\ Fail(left)
  BY Zenon DEF Unsolved
<1>2. band \in ProperBands /\ band \in TimedBands
  BY <1>1, InCall
<1>3. ASSUME NEW x \in Positions
      PROVE  Moved(band, SizePoses(band) - 1, x, BackPose(band).yaw) \in ProperBands
  <2>1. x \in Int /\ BackPose(band).yaw \in Int /\ SizePoses(band) - 1 \in 0 .. SizePoses(band) - 1
    BY <1>2, PlannerAssumption, Indexed DEF PoseRecords, ProperBands
  <2>. QED  BY <1>2, <2>1, MovedProper
<1>4. left \subseteq ProperBands
  BY <1>2, <1>3
<1>. HIDE DEF left
<1>. QED  BY <1>1, <1>4, InCall, FailKeepsAll

LEMMA ClearPlannerKeeps ==
  ASSUME IInv, ClearPlanner
  PROVE  IInv'
<1>1. pc = "idle" /\ band' = ClearTimedElasticBand(band) /\ graph' = EmptyGraph /\ answer' = FALSE
      /\ UNCHANGED <<cfg, pc, loop, requested, turn, expired, request, cost>>
  BY DEF ClearPlanner
<1>2. band' = EmptyBand
  <2>1. band \in Bands
    BY <1>1, EmptyBandIsBand, ProperIsTimed DEF IInv, CallHasBand
  <2>. QED  BY <1>1, <2>1 DEF ClearTimedElasticBand, EmptyBand, Bands
<1>3. CountersTyped' /\ CallHasBand' /\ GraphOfSize'
  BY <1>1, <1>2 DEF IInv, CountersTyped, CallHasBand, GraphOfSize
<1>. QED  BY <1>3 DEF IInv

LEMMA StutterKeeps ==
  ASSUME IInv, UNCHANGED vars
  PROVE  IInv'
<1>1. UNCHANGED <<cfg, band, graph, pc, loop, requested, turn, expired, request, answer, cost>>
  BY DEF vars
<1>2. GraphClosed(graph)' = GraphClosed(graph) /\ SizePoses(band)' = SizePoses(band)
      /\ SizeTimeDiffs(band)' = SizeTimeDiffs(band)
  BY <1>1
<1>3. CountersTyped' /\ CallHasBand' /\ GraphOfSize'
  BY <1>1, <1>2 DEF IInv, CountersTyped, CallHasBand, GraphOfSize
<1>. QED  BY <1>3 DEF IInv

LEMMA StepKeeps ==
  ASSUME IInv, [Next]_vars
  PROVE  IInv'
<1>1. ASSUME NEW plan \in cfg.plans, Plan(plan)  PROVE IInv'
  BY <1>1, PlanKeeps
<1>2. ASSUME NEW plan \in cfg.plans, OptimizeCandidate(plan)  PROVE IInv'
  BY <1>2, OptimizeCandidateKeeps
<1>3. ASSUME Step  PROVE IInv'
  BY <1>3, SubdivideKeeps, OptimizeKeeps, IterateKeeps, ResizeKeeps, BuildKeeps, PrepareSolveKeeps,
     SolvedKeeps, UnsolvedKeeps DEF Step, Finish
<1>. QED  BY <1>1, <1>2, <1>3, ClearPlannerKeeps, ExpireKeeps, MoveVertexKeeps, MoveControlKeeps,
             StutterKeeps DEF Next, Call

LEMMA InvariantHolds ==
  Spec => []IInv
<1>1. IInv /\ [Next]_vars => IInv'
  BY StepKeeps
<1>. QED  BY InitKeeps, <1>1, PTL DEF Spec

\* Every variable stays within its type, whatever the configurations, plans,
\* obstacles and via-points are, and however long the bands become.
THEOREM TypeCorrect == Spec => []TypeOK
<1>1. IInv => TypeOK
  BY InvariantTypes
<1>. QED  BY <1>1, InvariantHolds, PTL

\* n poses come with n - 1 time differences at every step of every loop, the
\* graph of a solver has exactly the vertices of the band, and no call leaves
\* a graph behind.
THEOREM GraphAlwaysMatches == Spec => []GraphMatchesBand
<1>1. IInv => GraphMatchesBand
  BY InvariantShape
<1>. QED  BY <1>1, InvariantHolds, PTL

-----------------------------------------------------------------------------
(* Headings modulo a full turn.                                            *)

\* A wrapped heading differs by full turns, and there is only one.
LEMMA NormalizeCongruent ==
  ASSUME NEW a \in Int
  PROVE  \E q \in Int : a = Normalize(a) + 8 * q
<1>. DEFINE m == (a + 4) % 8  q == (a + 4) \div 8
<1>1. a + 4 = 8 * q + m /\ q \in Int /\ m \in Int
  OBVIOUS
<1>2. Normalize(a) = m - 4
  BY DEF Normalize, FullTurn
<1>. HIDE DEF m, q
<1>3. a = Normalize(a) + 8 * q
  BY <1>1, <1>2
<1>. QED  BY <1>1, <1>3

LEMMA NormalizeUnique ==
  ASSUME NEW a \in Int, NEW r \in -4 .. 3, NEW q \in Int, a = r + 8 * q
  PROVE  Normalize(a) = r
<1>1. Normalize(a) \in -4 .. 3
  BY NormalizeType
<1>2. PICK s \in Int : a = Normalize(a) + 8 * s
  BY NormalizeCongruent
<1>. QED  BY <1>1, <1>2

LEMMA NormalizeIdentity ==
  ASSUME NEW r \in -4 .. 3
  PROVE  Normalize(r) = r
<1>1. r \in Int /\ 0 \in Int /\ r = r + 8 * 0
  OBVIOUS
<1>. QED  BY <1>1, NormalizeUnique

\* A turn to a heading ends at that heading.
LEMMA TurnEnds ==
  ASSUME NEW a \in Int, NEW b \in Int, NEW c \in Int, Normalize(a) = Normalize(b)
  PROVE  Normalize(a + Normalize(c - b)) = Normalize(c)
<1>1. PICK i \in Int : a = Normalize(a) + 8 * i
  BY NormalizeCongruent
<1>2. PICK j \in Int : b = Normalize(b) + 8 * j
  BY NormalizeCongruent
<1>3. c - b \in Int
  OBVIOUS
<1>4. PICK k \in Int : c - b = Normalize(c - b) + 8 * k
  BY <1>3, NormalizeCongruent
<1>5. PICK l \in Int : c = Normalize(c) + 8 * l
  BY NormalizeCongruent
<1>6. Normalize(a) \in Int /\ Normalize(b) \in Int /\ Normalize(c) \in -4 .. 3 /\ Normalize(c - b) \in Int
  BY <1>3, NormalizeType
<1>. DEFINE t == a + Normalize(c - b)  q == i - j - k + l
<1>7. t \in Int /\ q \in Int /\ t = Normalize(c) + 8 * q
  BY <1>1, <1>2, <1>4, <1>5, <1>6
<1>. HIDE DEF t, q
<1>8. Normalize(t) = Normalize(c)
  BY <1>6, <1>7, NormalizeUnique
<1>. QED  BY <1>8 DEF t

-----------------------------------------------------------------------------
(* What a rollout of a feasible band is like.                              *)

\* All intervals of a band are bounded primitives.
Primitives(b) ==
  \A i \in 0 .. SizeTimeDiffs(b) - 1 : Executable(Pose(b, i), Pose(b, i + 1))

\* What AnswerExecutable says of the poses and the times.
Followable(b) ==
  \A i \in 0 .. SizeTimeDiffs(b) - 1 :
    /\ Executable(Pose(b, i), Pose(b, i + 1))
    /\ TimeDiff(b, i) <= Quarter
    /\ Magnitude(Pose(b, i + 1).yaw - Pose(b, i).yaw) <= Quarter

\* The poses of a rollout have the positions and wrapped headings of the band's
\* shifted to its own start.
LEMMA RolloutPoses ==
  ASSUME NEW b \in TimedBands
  PROVE  /\ Rollout(b) \in TimedBands
         /\ SizePoses(Rollout(b)) = SizePoses(b) /\ SizeTimeDiffs(Rollout(b)) = SizeTimeDiffs(b)
         /\ Pose(Rollout(b), 0) = Pose(b, 0)
         /\ \A k \in 1 .. SizeTimeDiffs(b) :
              /\ Pose(Rollout(b), k).x = Pose(Rollout(b), k - 1).x + Shift(b, k)
              /\ Pose(Rollout(b), k).yaw = Pose(Rollout(b), k - 1).yaw + Rotation(b, k)
              /\ TimeDiff(Rollout(b), k - 1) = Held(b, k)
<1>. DEFINE c == Rollout(b)
<1>1. PICK n \in Nat : n = SizeTimeDiffs(b)
  BY SizedIsTimed
<1>2. SizePoses(b) = n + 1 /\ n + 1 \in Nat
  BY <1>1, SizedIsTimed
<1>3. c \in Sized(n + 1, n) /\ c.poses[1] = Pose(b, 0) /\ \A k \in 1 .. n : Steps(c, b, k)
  BY <1>1, RolloutSteps
<1>. HIDE DEF c
<1>4. c \in TimedBands /\ SizePoses(c) = n + 1 /\ SizeTimeDiffs(c) = n
  BY <1>2, <1>3, TimedIsSized, SizedParts
<1>5. Pose(c, 0) = Pose(b, 0)
  BY <1>3, <1>4, FirstPose
<1>6. ASSUME NEW k \in 1 .. n
      PROVE  /\ Pose(c, k).x = Pose(c, k - 1).x + Shift(b, k)
             /\ Pose(c, k).yaw = Pose(c, k - 1).yaw + Rotation(b, k)
             /\ TimeDiff(c, k - 1) = Held(b, k)
  <2>1. (k - 1) + 1 = k
    OBVIOUS
  <2>. QED  BY <1>3, <2>1 DEF Steps, Pose, TimeDiff
<1>. QED  BY <1>1, <1>2, <1>4, <1>5, <1>6 DEF c

\* Integration keeps the positions and the wrapped headings.
LEMMA RolloutCongruent ==
  ASSUME NEW b \in TimedBands
  PROVE  \A k \in 0 .. SizeTimeDiffs(b) :
           /\ Pose(Rollout(b), k).x = Pose(b, k).x
           /\ Normalize(Pose(Rollout(b), k).yaw) = Normalize(Pose(b, k).yaw)
<1>. DEFINE c == Rollout(b)  n == SizeTimeDiffs(b)
            P == {k \in 0 .. n : /\ Pose(c, k).x = Pose(b, k).x
                                 /\ Normalize(Pose(c, k).yaw) = Normalize(Pose(b, k).yaw)}
<1>1. n \in Nat /\ c \in TimedBands /\ SizeTimeDiffs(c) = n /\ Pose(c, 0) = Pose(b, 0)
      /\ SizePoses(c) = n + 1 /\ SizePoses(b) = n + 1
  BY RolloutPoses, Indexed
<1>2. \A k \in 1 .. n : /\ Pose(c, k).x = Pose(c, k - 1).x + Shift(b, k)
                        /\ Pose(c, k).yaw = Pose(c, k - 1).yaw + Rotation(b, k)
  BY RolloutPoses
<1>. HIDE DEF c
<1>3. 0 \in P /\ P \in SUBSET (0 .. n)
  BY <1>1
<1>4. ASSUME NEW k \in 1 .. n, k - 1 \in P  PROVE k \in P
  <2>. DEFINE p == Pose(b, k - 1)  q == Pose(b, k)  r == Pose(c, k - 1)  s == Pose(c, k)
  <2>1. p \in PoseRecords /\ q \in PoseRecords /\ r \in PoseRecords
    <3>1. k - 1 \in 0 .. SizePoses(c) - 1
      BY <1>1
    <3>. QED  BY <1>1, <3>1, Neighbours, Indexed
  <2>2. r.x = p.x /\ Normalize(r.yaw) = Normalize(p.yaw)
    BY <1>4
  <2>3. s.x = r.x + (q.x - p.x) /\ s.yaw = r.yaw + Normalize(q.yaw - p.yaw)
    BY <1>2 DEF Shift, Rotation, TurnBetween
  <2>. HIDE DEF p, q, r, s
  <2>4. p.x \in Int /\ q.x \in Int /\ p.yaw \in Int /\ q.yaw \in Int /\ r.yaw \in Int
    BY <2>1 DEF PoseRecords
  <2>5. s.x = q.x
    BY <2>2, <2>3, <2>4
  <2>6. Normalize(s.yaw) = Normalize(q.yaw)
    <3>1. PICK ry \in Int, py \in Int, qy \in Int : ry = r.yaw /\ py = p.yaw /\ qy = q.yaw
      BY <2>4
    <3>2. Normalize(ry) = Normalize(py)
      BY <2>2, <3>1
    <3>3. Normalize(ry + Normalize(qy - py)) = Normalize(qy)
      BY <3>2, TurnEnds
    <3>. QED  BY <2>3, <3>1, <3>3
  <2>. QED  BY <2>5, <2>6 DEF q, s
<1>5. P = 0 .. n
  <2>. HIDE DEF P
  <2>. QED  BY <1>1, <1>3, <1>4, IntervalInduction
<1>. QED  BY <1>5 DEF c

\* The rollout of primitives can be followed, and makes the same turns.
LEMMA RolloutFollowable ==
  ASSUME NEW b \in TimedBands, Primitives(b)
  PROVE  Followable(Rollout(b))
<1>. DEFINE c == Rollout(b)  n == SizeTimeDiffs(b)
<1>1. n \in Nat /\ c \in TimedBands /\ SizeTimeDiffs(c) = n /\ SizePoses(c) = n + 1 /\ SizePoses(b) = n + 1
  BY RolloutPoses, Indexed
<1>2. \A k \in 1 .. n : /\ Pose(c, k).x = Pose(c, k - 1).x + Shift(b, k)
                        /\ Pose(c, k).yaw = Pose(c, k - 1).yaw + Rotation(b, k)
                        /\ TimeDiff(c, k - 1) = Held(b, k)
  BY RolloutPoses
<1>3. \A k \in 0 .. n : Normalize(Pose(c, k).yaw) = Normalize(Pose(b, k).yaw)
  BY RolloutCongruent
<1>. HIDE DEF c
<1>4. ASSUME NEW k \in 1 .. n
      PROVE  /\ Executable(Pose(c, k - 1), Pose(c, k)) /\ TimeDiff(c, k - 1) <= Quarter
             /\ Magnitude(Pose(c, k).yaw - Pose(c, k - 1).yaw) <= Quarter
  <2>. DEFINE p == Pose(b, k - 1)  q == Pose(b, k)  r == Pose(c, k - 1)  s == Pose(c, k)
              t == Rotation(b, k)
  <2>1. p \in PoseRecords /\ q \in PoseRecords /\ r \in PoseRecords
    <3>1. k - 1 \in 0 .. SizePoses(c) - 1
      BY <1>1
    <3>. QED  BY <1>1, <3>1, Neighbours, Indexed
  <2>2. s.x = r.x + (q.x - p.x) /\ s.yaw = r.yaw + t
    BY <1>2 DEF Shift
  <2>3. t = TurnBetween(p, q) /\ t \in -4 .. 3 /\ Held(b, k) <= Quarter
    BY StepType DEF Rotation
  <2>4. Normalize(r.yaw) = Normalize(p.yaw)
    BY <1>1, <1>3
  <2>5. Executable(p, q)
    <3>1. k - 1 \in 0 .. SizeTimeDiffs(b) - 1 /\ (k - 1) + 1 = k
      BY <1>1
    <3>. QED  BY <3>1 DEF Primitives
  <2>. HIDE DEF p, q, r, s, t
  <2>6. p.x \in Int /\ q.x \in Int /\ r.x \in Int /\ r.yaw \in Int
    BY <2>1 DEF PoseRecords
  <2>7. s.yaw - r.yaw = t /\ s.x - r.x = q.x - p.x /\ (s.x # r.x <=> q.x # p.x)
    BY <2>2, <2>3, <2>6
  <2>8. TurnBetween(r, s) = t
    BY <2>3, <2>7, NormalizeIdentity DEF TurnBetween
  <2>9. Executable(r, s)
    BY <2>3, <2>4, <2>5, <2>7, <2>8 DEF Executable
  <2>10. Magnitude(s.yaw - r.yaw) <= Quarter
    BY <2>3, <2>5, <2>7 DEF Executable
  <2>11. TimeDiff(c, k - 1) <= Quarter
    BY <1>2, <2>3
  <2>. QED  BY <2>9, <2>10, <2>11 DEF r, s
<1>5. ASSUME NEW i \in 0 .. n - 1
      PROVE  /\ Executable(Pose(c, i), Pose(c, i + 1)) /\ TimeDiff(c, i) <= Quarter
             /\ Magnitude(Pose(c, i + 1).yaw - Pose(c, i).yaw) <= Quarter
  <2>1. i + 1 \in 1 .. n /\ (i + 1) - 1 = i
    BY <1>1
  <2>2. PICK k \in 1 .. n : k = i + 1 /\ k - 1 = i
    BY <2>1
  <2>. QED  BY <1>4, <2>2
<1>. QED  BY <1>1, <1>5 DEF Followable, c

-----------------------------------------------------------------------------
(* The command.                                                            *)

\* A set with one value at most.
LEMMA AtMostOne ==
  ASSUME NEW S, \A a, b \in S : a = b
  PROVE  Cardinality(S) <= 1
<1>1. CASE S = {}
  BY <1>1, FS_EmptySet
<1>2. CASE S # {}
  <2>1. PICK a \in S : TRUE
    BY <1>2
  <2>2. S = {a}
    BY <2>1
  <2>. QED  BY <2>2, FS_Singleton
<1>. QED  BY <1>1, <1>2

\* The primitives of a command all go and all turn in one sense.
LEMMA CommandHasOneSense ==
  ASSUME NEW b
  PROVE  Cardinality(Command(b).surge) <= 1 /\ Cardinality(Command(b).turn) <= 1
<1>. DEFINE I == Previewed(b)
<1>1. ASSUME NEW i \in I, NEW j \in I, i < j
      PROVE  /\ SurgeSense(b, i) # 0 => SurgeSense(b, j) = SurgeSense(b, i)
             /\ TurnSense(b, i) # 0 /\ TurnSense(b, j) # 0 => TurnSense(b, j) = TurnSense(b, i)
  <2>1. j \in Int /\ i \in Int /\ 0 <= i /\ 0 <= j /\ \A k \in 0 .. j : Continues(b, k)
    BY DEF Previewed
  <2>2. Continues(b, j) /\ i \in 0 .. j - 1
    BY <1>1, <2>1
  <2>. QED  BY <2>2 DEF Continues
<1>2. ASSUME NEW i \in I, NEW j \in I  PROVE i < j \/ j < i \/ i = j
  <2>1. j \in Int /\ i \in Int
    BY DEF Previewed
  <2>. QED  BY <2>1
<1>. HIDE DEF I
<1>3. \A x, y \in {SurgeSense(b, i) : i \in I} \ {0} : x = y
  <2>1. SUFFICES ASSUME NEW i \in I, NEW j \in I, SurgeSense(b, i) # 0, SurgeSense(b, j) # 0
                 PROVE  SurgeSense(b, i) = SurgeSense(b, j)
    OBVIOUS
  <2>. QED  BY <1>1, <1>2, <2>1
<1>4. \A x, y \in {TurnSense(b, i) : i \in I} \ {0} : x = y
  <2>1. SUFFICES ASSUME NEW i \in I, NEW j \in I, TurnSense(b, i) # 0, TurnSense(b, j) # 0
                 PROVE  TurnSense(b, i) = TurnSense(b, j)
    OBVIOUS
  <2>. QED  BY <1>1, <1>2, <2>1
<1>. DEFINE S == {SurgeSense(b, i) : i \in I} \ {0}
            T == {TurnSense(b, i) : i \in I} \ {0}
<1>5. Command(b).surge = S /\ Command(b).turn = T
  BY DEF Command, I
<1>6. (\A x, y \in S : x = y) /\ (\A x, y \in T : x = y)
  BY <1>3, <1>4
<1>. HIDE DEF S, T
<1>. QED  BY <1>5, <1>6, AtMostOne

-----------------------------------------------------------------------------
(* An answer can be executed.                                              *)

\* A band that was solved for can be followed until the next iteration moves
\* it, and an iteration is counted only when it was solved for.
SolvedIsFollowable ==
  /\ pc \in {"idle", "subdivide", "optimize"} => loop.iteration = 0
  /\ cfg.differential /\ ((pc = "idle" /\ answer) \/ (pc = "iterate" /\ loop.iteration > 0))
       => Followable(band)

LEMMA SolvedBandFollowable ==
  ASSUME IInv, Solved, cfg.differential
  PROVE  band' = Rollout(band) /\ Followable(Rollout(band))
<1>1. pc = "solve" /\ band' = Rollout(band) /\ Feasible(band, requested)
  BY DEF Solved
<1>2. Primitives(band)
  BY <1>1 DEF Feasible, Primitives
<1>. QED  BY <1>1, <1>2, InCall, RolloutFollowable

LEMMA FailKeepsFollowable ==
  ASSUME NEW left, Fail(left)
  PROVE  /\ pc' \in {"idle", "subdivide", "optimize"} /\ loop' = NoLoop
         /\ ~(pc' = "idle" /\ answer')
<1>1. \/ pc' = AfterSeed /\ loop' = NoLoop
      \/ answer' = FALSE /\ pc' = "idle" /\ loop' = NoLoop
  BY DEF Fail, Answer
<1>. QED  BY <1>1, AfterSeedType

LEMMA FailedIsFollowable ==
  ASSUME NEW left, Fail(left)
  PROVE  SolvedIsFollowable'
<1>1. /\ pc' \in {"idle", "subdivide", "optimize"} /\ loop' = NoLoop
      /\ ~(pc' = "idle" /\ answer')
  BY FailKeepsFollowable
<1>2. loop'.iteration = 0
  BY <1>1 DEF NoLoop
<1>. QED  BY <1>1, <1>2 DEF SolvedIsFollowable

LEMMA FollowableSame ==
  ASSUME band' = band
  PROVE  Followable(band)' = Followable(band)
OBVIOUS

LEMMA FollowableKept ==
  ASSUME IInv, SolvedIsFollowable, [Next]_vars
  PROVE  SolvedIsFollowable'
<1>1. ASSUME NEW plan \in cfg.plans, Plan(plan) \/ OptimizeCandidate(plan)  PROVE SolvedIsFollowable'
  <2>1. pc = "idle" /\ loop' = loop /\ pc' \in {"subdivide", "optimize"} /\ answer' = FALSE
    BY <1>1, AfterSeedType DEF Plan, OptimizeCandidate
  <2>. QED  BY <2>1 DEF SolvedIsFollowable
<1>2. ASSUME ClearPlanner  PROVE SolvedIsFollowable'
  BY <1>2 DEF ClearPlanner, SolvedIsFollowable
<1>3. ASSUME Expire  PROVE SolvedIsFollowable'
  BY <1>3, FollowableSame DEF Expire, SolvedIsFollowable
<1>4. ASSUME Subdivide  PROVE SolvedIsFollowable'
  <2>1. pc = "subdivide" /\ loop.iteration = 0
        /\ loop \in [at : Nat, rep : 0 .. 99, modified : BOOLEAN, iteration : Nat]
    BY <1>4, InCall DEF Subdivide, SolvedIsFollowable
  <2>2. \/ UNCHANGED <<loop, pc>>
        \/ loop' = [loop EXCEPT !.at = loop.at + 1] /\ UNCHANGED pc
        \/ loop' = NoLoop /\ pc' = "optimize"
    BY <1>4, Zenon DEF Subdivide
  <2>3. loop'.iteration = 0 /\ pc' \in {"subdivide", "optimize"}
    BY <2>1, <2>2 DEF NoLoop
  <2>. QED  BY <2>3 DEF SolvedIsFollowable
<1>5. ASSUME Optimize  PROVE SolvedIsFollowable'
  <2>1. pc = "optimize" /\ loop.iteration = 0
    BY <1>5 DEF Optimize, SolvedIsFollowable
  <2>2. CASE cfg.activate
    <3>1. pc' = "iterate" /\ loop' = loop
      BY <1>5, <2>2 DEF Optimize
    <3>. QED  BY <2>1, <3>1 DEF SolvedIsFollowable
  <2>3. CASE ~cfg.activate
    <3>1. Fail({band})
      BY <1>5, <2>3 DEF Optimize
    <3>. QED  BY <3>1, FailedIsFollowable
  <2>. QED  BY <2>2, <2>3
<1>6. ASSUME Iterate  PROVE SolvedIsFollowable'
  <2>1. pc = "iterate" /\ UNCHANGED <<cfg, band>>
    BY <1>6 DEF Iterate
  <2>2. CASE loop.iteration < cfg.outer
    <3>1. pc' \in {"resize", "build"}
      BY <1>6, <2>2 DEF Iterate
    <3>. QED  BY <3>1 DEF SolvedIsFollowable
  <2>3. CASE ~(loop.iteration < cfg.outer)
    <3>1. pc' = "idle" /\ loop' = NoLoop
      BY <1>6, <2>3 DEF Iterate, Answer
    <3>2. cfg.outer \in Nat \ {0} /\ loop.iteration \in Nat
      BY <2>1, InCall DEF ConfigRecords
    <3>3. loop.iteration > 0
      BY <2>3, <3>2
    <3>4. cfg.differential => Followable(band)'
      BY <2>1, <3>3, FollowableSame DEF SolvedIsFollowable
    <3>. QED  BY <2>1, <3>1, <3>4 DEF SolvedIsFollowable, NoLoop
  <2>. QED  BY <2>2, <2>3
<1>7. ASSUME Resize  PROVE SolvedIsFollowable'
  <2>1. pc = "resize" /\ pc' \in {"resize", "build"}
    BY <1>7, Zenon DEF Resize
  <2>. QED  BY <2>1 DEF SolvedIsFollowable
<1>8. ASSUME Build  PROVE SolvedIsFollowable'
  <2>1. pc' = "prepare" \/ Fail({band})
    BY <1>8 DEF Build
  <2>. QED  BY <2>1, FailedIsFollowable DEF SolvedIsFollowable
<1>9. ASSUME PrepareSolve  PROVE SolvedIsFollowable'
  <2>1. pc' = "solve" \/ Fail({band})
    BY <1>9, Zenon DEF PrepareSolve
  <2>. QED  BY <2>1, FailedIsFollowable DEF SolvedIsFollowable
<1>10. ASSUME MoveVertex \/ MoveControl  PROVE SolvedIsFollowable'
  BY <1>10 DEF MoveVertex, MoveControl, SolvedIsFollowable
<1>11. ASSUME Solved  PROVE SolvedIsFollowable'
  <2>1. cfg' = cfg /\ \/ pc' = "idle" /\ loop' = NoLoop
                      \/ pc' = "iterate"
    BY <1>11, Zenon DEF Solved, Answer
  <2>2. cfg.differential => Followable(band)'
    <3>1. SUFFICES ASSUME cfg.differential  PROVE Followable(band)'
      OBVIOUS
    <3>. DEFINE c == Rollout(band)
    <3>2. band' = c /\ Followable(c)
      BY <1>11, <3>1, SolvedBandFollowable
    <3>. HIDE DEF c
    <3>. QED  BY <3>2 DEF Followable, Pose, TimeDiff, SizeTimeDiffs
  <2>. QED  BY <2>1, <2>2 DEF SolvedIsFollowable, NoLoop
<1>12. ASSUME Unsolved  PROVE SolvedIsFollowable'
  <2>. DEFINE left == IF cfg.differential
                      THEN {Moved(band, SizePoses(band) - 1, x, BackPose(band).yaw) : x \in Positions}
                      ELSE {band}
  <2>1. Fail(left)
    BY <1>12, Zenon DEF Unsolved
  <2>. HIDE DEF left
  <2>. QED  BY <2>1, FailedIsFollowable
<1>13. ASSUME UNCHANGED vars  PROVE SolvedIsFollowable'
  BY <1>13, FollowableSame DEF vars, SolvedIsFollowable
<1>. QED  BY <1>1, <1>2, <1>3, <1>4, <1>5, <1>6, <1>7, <1>8, <1>9, <1>10, <1>11, <1>12, <1>13
          DEF Next, Call, Step, Finish

LEMMA FollowableHolds ==
  Spec => []SolvedIsFollowable
<1>1. Init => SolvedIsFollowable
  BY DEF Init, SolvedIsFollowable, NoLoop
<1>2. IInv /\ SolvedIsFollowable /\ [Next]_vars => SolvedIsFollowable'
  BY FollowableKept
<1>. QED  BY <1>1, <1>2, InvariantHolds, PTL DEF Spec

\* An answer true of a robot that surges and turns is a sequence of bounded
\* primitives, and its command averages controls of one sense.
THEOREM AnswersAreExecutable == Spec => []AnswerExecutable
<1>1. SolvedIsFollowable => AnswerExecutable
  <2>1. SUFFICES ASSUME SolvedIsFollowable, pc = "idle", answer, cfg.differential
                 PROVE  /\ Followable(band)
                        /\ Cardinality(Command(band).surge) <= 1
                        /\ Cardinality(Command(band).turn) <= 1
    <3>1. AnswerExecutable
            <=> (pc = "idle" /\ answer /\ cfg.differential
                   => /\ Followable(band)
                      /\ Cardinality(Command(band).surge) <= 1
                      /\ Cardinality(Command(band).turn) <= 1)
      BY DEF AnswerExecutable, Followable
    <3>. QED  BY <3>1, Zenon
  <2>2. Followable(band)
    BY <2>1, Zenon DEF SolvedIsFollowable
  <2>3. Cardinality(Command(band).surge) <= 1 /\ Cardinality(Command(band).turn) <= 1
    BY CommandHasOneSense
  <2>. QED  BY <2>2, <2>3
<1>. QED  BY <1>1, FollowableHolds, PTL

-----------------------------------------------------------------------------
(* The heading at the end when no turn is wrapped.                         *)

\* There is only one way to add up the turns of a band.
LEMMA WindingOf ==
  ASSUME NEW b \in TimedBands, NEW u, u[0] = Pose(b, 0).yaw,
         \A k \in 1 .. SizeTimeDiffs(b) : u[k] = u[k - 1] + Rotation(b, k)
  PROVE  Winding(b) = u[SizeTimeDiffs(b)]
<1>. DEFINE n == SizeTimeDiffs(b)
            yaw[k \in 0 .. n] == IF k = 0 THEN Pose(b, 0).yaw
                                 ELSE yaw[k - 1] + TurnBetween(Pose(b, k - 1), Pose(b, k))
            v == [k \in 0 .. n |-> u[k]]
            P == {k \in 0 .. n : yaw[k] = u[k]}
<1>1. n \in Nat
  BY Indexed
<1>2. \A k \in 0 .. n : v[k] = IF k = 0 THEN Pose(b, 0).yaw
                               ELSE v[k - 1] + TurnBetween(Pose(b, k - 1), Pose(b, k))
  <2>1. ASSUME NEW k \in 0 .. n, k # 0
        PROVE  v[k] = v[k - 1] + TurnBetween(Pose(b, k - 1), Pose(b, k))
    <3>1. k \in 1 .. n /\ k - 1 \in 0 .. n
      BY <1>1, <2>1
    <3>2. v[k - 1] = u[k - 1] /\ v[k] = u[k]
      BY <3>1
    <3>. QED  BY <3>1, <3>2 DEF Rotation
  <2>2. 0 \in 0 .. n /\ v[0] = u[0]
    BY <1>1
  <2>. HIDE DEF v
  <2>. QED  BY <2>1, <2>2
<1>3. v = [k \in 0 .. n |-> IF k = 0 THEN Pose(b, 0).yaw
                            ELSE v[k - 1] + TurnBetween(Pose(b, k - 1), Pose(b, k))]
  BY <1>2
<1>4. \A k \in 0 .. n : yaw[k] = IF k = 0 THEN Pose(b, 0).yaw
                                 ELSE yaw[k - 1] + TurnBetween(Pose(b, k - 1), Pose(b, k))
  <2>. HIDE DEF v
  <2>1. yaw = [k \in 0 .. n |-> IF k = 0 THEN Pose(b, 0).yaw
                               ELSE yaw[k - 1] + TurnBetween(Pose(b, k - 1), Pose(b, k))]
    BY <1>3
  <2>. HIDE DEF yaw
  <2>. QED  BY <2>1
<1>5. Winding(b) = yaw[n]
  BY DEF Winding
<1>. HIDE DEF v, yaw
<1>6. P \in SUBSET (0 .. n) /\ 0 \in P
  BY <1>1, <1>4
<1>7. ASSUME NEW k \in 1 .. n, k - 1 \in P  PROVE k \in P
  BY <1>1, <1>4, <1>7 DEF Rotation
<1>8. P = 0 .. n
  <2>. HIDE DEF P
  <2>. QED  BY <1>1, <1>6, <1>7, IntervalInduction
<1>. QED  BY <1>1, <1>5, <1>8

\* Equal wrapped headings make equal turns.
LEMMA TurnCongruent ==
  ASSUME NEW a \in Int, NEW b \in Int, NEW c \in Int, NEW d \in Int,
         Normalize(a) = Normalize(c), Normalize(b) = Normalize(d)
  PROVE  Normalize(b - a) = Normalize(d - c)
<1>1. PICK i \in Int : a = Normalize(a) + 8 * i
  BY NormalizeCongruent
<1>2. PICK j \in Int : b = Normalize(b) + 8 * j
  BY NormalizeCongruent
<1>3. PICK k \in Int : c = Normalize(c) + 8 * k
  BY NormalizeCongruent
<1>4. PICK l \in Int : d = Normalize(d) + 8 * l
  BY NormalizeCongruent
<1>. DEFINE s == b - a  t == d - c
<1>5. s \in Int /\ t \in Int /\ Normalize(a) \in Int /\ Normalize(b) \in Int
  BY NormalizeType
<1>6. PICK m \in Int : t = Normalize(t) + 8 * m
  BY <1>5, NormalizeCongruent
<1>7. Normalize(t) \in -4 .. 3
  BY <1>5, NormalizeType
<1>. DEFINE q == m + j - i - l + k
<1>8. q \in Int /\ s = Normalize(t) + 8 * q
  BY <1>1, <1>2, <1>3, <1>4, <1>5, <1>6, <1>7
<1>. HIDE DEF s, t, q
<1>9. Normalize(s) = Normalize(t)
  BY <1>5, <1>7, <1>8, NormalizeUnique
<1>. QED  BY <1>9 DEF s, t

\* Two poses at the same place that look the same way.
Alike(p, q) == p.x = q.x /\ Normalize(p.yaw) = Normalize(q.yaw)

\* A turn on the spot, or a surge along the line.
PurePair(p, q) == p.x = q.x \/ (TurnBetween(p, q) = 0 /\ Normalize(p.yaw) \in {0, -4})

\* What matters of an interval is where its ends are and where they look.
LEMMA AlikePairs ==
  ASSUME NEW p \in PoseRecords, NEW q \in PoseRecords, NEW r \in PoseRecords,
         NEW s \in PoseRecords, Alike(p, r), Alike(q, s)
  PROVE  /\ TurnBetween(p, q) = TurnBetween(r, s)
         /\ PurePair(p, q) <=> PurePair(r, s)
         /\ Executable(p, q) <=> Executable(r, s)
<1>1. p.yaw \in Int /\ q.yaw \in Int /\ r.yaw \in Int /\ s.yaw \in Int
  BY DEF PoseRecords
<1>2. TurnBetween(p, q) = TurnBetween(r, s)
  <2>1. PICK a \in Int, b \in Int, c \in Int, d \in Int :
          a = p.yaw /\ b = q.yaw /\ c = r.yaw /\ d = s.yaw
    BY <1>1
  <2>2. Normalize(b - a) = Normalize(d - c)
    <3>1. Normalize(a) = Normalize(c) /\ Normalize(b) = Normalize(d)
      BY <2>1 DEF Alike
    <3>. QED  BY <3>1, TurnCongruent
  <2>. QED  BY <2>1, <2>2 DEF TurnBetween
<1>3. PurePair(p, q) <=> PurePair(r, s)
  BY <1>2 DEF Alike, PurePair
<1>4. Executable(p, q) <=> Executable(r, s)
  BY <1>2 DEF Alike, Executable
<1>. QED  BY <1>2, <1>3, <1>4

\* All intervals turn on the spot or surge along the line.
Pure(b) == \A k \in 1 .. SizeTimeDiffs(b) : PurePair(Pose(b, k - 1), Pose(b, k))

\* No turn of more than half a turn hides in the heading at the end.
Winds(b) == Winding(b) = BackPose(b).yaw

\* Two bands of the same places that look the same ways.
AlikeBands(b, c) ==
  /\ SizeTimeDiffs(b) = SizeTimeDiffs(c)
  /\ \A k \in 0 .. SizeTimeDiffs(b) : Alike(Pose(b, k), Pose(c, k))

\* The pose at the back, by its index.
LEMMA LastPose ==
  ASSUME NEW b \in TimedBands
  PROVE  BackPose(b) = Pose(b, SizeTimeDiffs(b))
BY Indexed DEF BackPose, Pose, SizePoses

\* Every pose of a band, by its index.
LEMMA AllPoses ==
  ASSUME NEW b \in TimedBands
  PROVE  \A k \in 0 .. SizeTimeDiffs(b) : Pose(b, k) \in PoseRecords
BY Indexed

\* The turns added up, at every pose.
LEMMA WindingSteps ==
  ASSUME NEW b \in TimedBands
  PROVE  \E u \in [0 .. SizeTimeDiffs(b) -> Int] :
           /\ u[0] = Pose(b, 0).yaw /\ u[SizeTimeDiffs(b)] = Winding(b)
           /\ \A k \in 1 .. SizeTimeDiffs(b) : u[k] = u[k - 1] + Rotation(b, k)
<1>. DEFINE c == Rollout(b)  n == SizeTimeDiffs(b)  u == [k \in 0 .. n |-> Pose(c, k).yaw]
<1>1. n \in Nat /\ c \in TimedBands /\ SizeTimeDiffs(c) = n /\ Pose(c, 0) = Pose(b, 0)
      /\ \A k \in 1 .. n : Pose(c, k).yaw = Pose(c, k - 1).yaw + Rotation(b, k)
  BY RolloutPoses, Indexed
<1>. HIDE DEF c
<1>2. \A k \in 0 .. n : Pose(c, k).yaw \in Int
  BY <1>1, AllPoses DEF PoseRecords
<1>3. u \in [0 .. n -> Int] /\ u[0] = Pose(b, 0).yaw
  BY <1>1, <1>2
<1>4. ASSUME NEW k \in 1 .. n  PROVE u[k] = u[k - 1] + Rotation(b, k)
  BY <1>1
<1>. HIDE DEF u
<1>5. Winding(b) = u[n]
  BY <1>3, <1>4, WindingOf
<1>. QED  BY <1>3, <1>4, <1>5

\* A rollout ends at the position of the band, with the turns added up.
LEMMA RolloutEnds ==
  ASSUME NEW b \in TimedBands
  PROVE  /\ BackPose(Rollout(b)).x = BackPose(b).x
         /\ BackPose(Rollout(b)).yaw = Winding(b)
         /\ Normalize(Winding(b)) = Normalize(BackPose(b).yaw)
<1>. DEFINE c == Rollout(b)  n == SizeTimeDiffs(b)  u == [k \in 0 .. n |-> Pose(c, k).yaw]
<1>1. n \in Nat /\ c \in TimedBands /\ SizeTimeDiffs(c) = n /\ Pose(c, 0) = Pose(b, 0)
      /\ \A k \in 1 .. n : Pose(c, k).yaw = Pose(c, k - 1).yaw + Rotation(b, k)
  BY RolloutPoses, Indexed
<1>2. Pose(c, n).x = Pose(b, n).x /\ Normalize(Pose(c, n).yaw) = Normalize(Pose(b, n).yaw)
  BY <1>1, RolloutCongruent
<1>. HIDE DEF c
<1>3. u[0] = Pose(b, 0).yaw /\ u[n] = Pose(c, n).yaw
  BY <1>1
<1>4. ASSUME NEW k \in 1 .. n  PROVE u[k] = u[k - 1] + Rotation(b, k)
  BY <1>1
<1>. HIDE DEF u
<1>5. Winding(b) = u[n]
  BY <1>3, <1>4, WindingOf
<1>6. BackPose(b) = Pose(b, n) /\ BackPose(c) = Pose(c, n)
  BY <1>1, LastPose
<1>. QED  BY <1>2, <1>3, <1>5, <1>6 DEF c

\* Bands that are alike turn alike.
LEMMA AlikeTurns ==
  ASSUME NEW b \in TimedBands, NEW c \in TimedBands, AlikeBands(b, c)
  PROVE  /\ \A k \in 1 .. SizeTimeDiffs(b) :
              /\ Rotation(b, k) = Rotation(c, k)
              /\ PurePair(Pose(b, k - 1), Pose(b, k)) <=> PurePair(Pose(c, k - 1), Pose(c, k))
              /\ Executable(Pose(b, k - 1), Pose(b, k)) <=> Executable(Pose(c, k - 1), Pose(c, k))
         /\ Pure(b) <=> Pure(c)
         /\ Primitives(b) <=> Primitives(c)
         /\ Pose(b, 0).yaw = Pose(c, 0).yaw => Winding(b) = Winding(c)
<1>. DEFINE n == SizeTimeDiffs(b)
<1>1. n \in Nat /\ SizeTimeDiffs(c) = n
  BY Indexed DEF AlikeBands
<1>2. ASSUME NEW k \in 1 .. n
      PROVE  /\ Rotation(b, k) = Rotation(c, k)
             /\ PurePair(Pose(b, k - 1), Pose(b, k)) <=> PurePair(Pose(c, k - 1), Pose(c, k))
             /\ Executable(Pose(b, k - 1), Pose(b, k)) <=> Executable(Pose(c, k - 1), Pose(c, k))
  <2>1. k - 1 \in 0 .. n /\ k \in 0 .. n
    BY <1>1
  <2>2. /\ Pose(b, k - 1) \in PoseRecords /\ Pose(b, k) \in PoseRecords
        /\ Pose(c, k - 1) \in PoseRecords /\ Pose(c, k) \in PoseRecords
    BY <1>1, <2>1, AllPoses
  <2>3. Alike(Pose(b, k - 1), Pose(c, k - 1)) /\ Alike(Pose(b, k), Pose(c, k))
    BY <2>1 DEF AlikeBands
  <2>. QED  BY <2>2, <2>3, AlikePairs DEF Rotation
<1>3. Pure(b) <=> Pure(c)
  BY <1>1, <1>2 DEF Pure
<1>4. Primitives(b) <=> Primitives(c)
  <2>1. ASSUME NEW i \in 0 .. n - 1
        PROVE  Executable(Pose(b, i), Pose(b, i + 1)) <=> Executable(Pose(c, i), Pose(c, i + 1))
    <3>1. PICK k \in 1 .. n : k = i + 1 /\ k - 1 = i
      BY <1>1
    <3>. QED  BY <1>2, <3>1
  <2>. QED  BY <1>1, <2>1 DEF Primitives
<1>5. ASSUME Pose(b, 0).yaw = Pose(c, 0).yaw  PROVE Winding(b) = Winding(c)
  <2>1. PICK u \in [0 .. n -> Int] :
          /\ u[0] = Pose(b, 0).yaw /\ u[n] = Winding(b)
          /\ \A k \in 1 .. n : u[k] = u[k - 1] + Rotation(b, k)
    BY WindingSteps
  <2>2. u[0] = Pose(c, 0).yaw /\ \A k \in 1 .. SizeTimeDiffs(c) : u[k] = u[k - 1] + Rotation(c, k)
    BY <1>1, <1>2, <1>5, <2>1
  <2>3. Winding(c) = u[SizeTimeDiffs(c)]
    BY <2>2, WindingOf
  <2>. QED  BY <1>1, <2>1, <2>3
<1>. QED  BY <1>2, <1>3, <1>4, <1>5

\* Integration changes nothing of this, and hides no turn.
LEMMA RolloutAlike ==
  ASSUME NEW b \in TimedBands
  PROVE  /\ AlikeBands(Rollout(b), b) /\ Rollout(b) \in TimedBands
         /\ Winds(Rollout(b)) /\ Winding(Rollout(b)) = Winding(b)
<1>. DEFINE c == Rollout(b)
<1>1. c \in TimedBands /\ SizeTimeDiffs(c) = SizeTimeDiffs(b) /\ Pose(c, 0) = Pose(b, 0)
  BY RolloutPoses
<1>2. AlikeBands(c, b)
  BY <1>1, RolloutCongruent DEF AlikeBands, Alike
<1>3. BackPose(c).yaw = Winding(b)
  BY RolloutEnds
<1>. HIDE DEF c
<1>4. Winding(c) = Winding(b)
  BY <1>1, <1>2, AlikeTurns
<1>. QED  BY <1>1, <1>2, <1>3, <1>4 DEF Winds, c

-----------------------------------------------------------------------------
(* Poses added and inserted.                                               *)

\* The pose added is the last one, and the others stay.
LEMMA AddedPoses ==
  ASSUME NEW b \in TimedBands, NEW p \in PoseRecords, NEW dt \in Nat
  PROVE  LET c == AddPoseAndTimeDiff(b, p, dt)
             n == SizeTimeDiffs(b) IN
         /\ c \in TimedBands /\ SizeTimeDiffs(c) = n + 1
         /\ \A k \in 0 .. n : Pose(c, k) = Pose(b, k)
         /\ Pose(c, n + 1) = p /\ BackPose(c) = p
<1>. DEFINE P == b.poses  D == b.dts  c == AddPoseAndTimeDiff(b, p, dt)
<1>1. PICK n \in Nat : n = SizeTimeDiffs(b) /\ Len(D) = n /\ Len(P) = n + 1
  BY Indexed DEF SizeTimeDiffs, SizePoses
<1>2. P \in Seq(PoseRecords) /\ D \in Seq(Nat)
  BY BandParts, ProperIsTimed
<1>3. c = [poses |-> Append(P, p), dts |-> Append(D, dt)]
  BY <1>1 DEF AddPoseAndTimeDiff, SizePoses, SizeTimeDiffs
<1>4. c \in TimedBands
  BY Added, ProperIsTimed
<1>. HIDE DEF c, P, D
<1>5. /\ Len(Append(P, p)) = (n + 1) + 1 /\ Append(P, p)[(n + 1) + 1] = p
      /\ \A i \in 1 .. n + 1 : Append(P, p)[i] = P[i]
  BY <1>1, <1>2, AppendProperties
<1>6. Len(Append(D, dt)) = n + 1
  BY <1>1, <1>2, AppendProperties
<1>. DEFINE PP == Append(P, p)
<1>7. c.poses = PP /\ SizeTimeDiffs(c) = n + 1
  BY <1>3, <1>6 DEF SizeTimeDiffs
<1>. HIDE DEF PP
<1>8. ASSUME NEW k \in 0 .. n  PROVE Pose(c, k) = Pose(b, k)
  <2>1. k + 1 \in 1 .. n + 1
    OBVIOUS
  <2>. QED  BY <1>5, <1>7, <2>1 DEF Pose, P, PP
<1>9. Pose(c, n + 1) = p
  BY <1>5, <1>7 DEF Pose, PP
<1>10. BackPose(c) = p
  BY <1>4, <1>7, <1>9, LastPose
<1>. QED  BY <1>1, <1>4, <1>7, <1>8, <1>9, <1>10 DEF c

\* A pose added turns the band by the angle to it.
LEMMA WindingAppend ==
  ASSUME NEW b \in TimedBands, NEW p \in PoseRecords, NEW dt \in Nat
  PROVE  LET c == AddPoseAndTimeDiff(b, p, dt) IN
         /\ c \in TimedBands /\ BackPose(c) = p /\ Pose(c, 0) = Pose(b, 0)
         /\ Winding(c) = Winding(b) + TurnBetween(BackPose(b), p)
         /\ Pure(b) /\ PurePair(BackPose(b), p) => Pure(c)
<1>. DEFINE c == AddPoseAndTimeDiff(b, p, dt)
<1>1. PICK n \in Nat : n = SizeTimeDiffs(b)
  BY Indexed
<1>2. /\ c \in TimedBands /\ SizeTimeDiffs(c) = n + 1
      /\ \A k \in 0 .. n : Pose(c, k) = Pose(b, k)
      /\ Pose(c, n + 1) = p /\ BackPose(c) = p
  BY <1>1, AddedPoses
<1>. HIDE DEF c
<1>3. Pose(c, n) = BackPose(b) /\ Pose(c, 0) = Pose(b, 0)
  BY <1>1, <1>2, LastPose
<1>4. PICK u \in [0 .. n -> Int] :
        /\ u[0] = Pose(b, 0).yaw /\ u[n] = Winding(b)
        /\ \A k \in 1 .. n : u[k] = u[k - 1] + Rotation(b, k)
  BY <1>1, WindingSteps
<1>. DEFINE t == TurnBetween(BackPose(b), p)
            v == [k \in 0 .. n + 1 |-> IF k = n + 1 THEN u[n] + t ELSE u[k]]
<1>5. ASSUME NEW k \in 1 .. n
      PROVE  Rotation(c, k) = Rotation(b, k) /\ Pose(c, k - 1) = Pose(b, k - 1) /\ Pose(c, k) = Pose(b, k)
  <2>1. k - 1 \in 0 .. n /\ k \in 0 .. n
    OBVIOUS
  <2>. QED  BY <1>2, <2>1 DEF Rotation
<1>6. Rotation(c, n + 1) = t
  BY <1>2, <1>3 DEF Rotation
<1>. HIDE DEF t
<1>7. v[0] = Pose(c, 0).yaw /\ v[n + 1] = u[n] + t
  BY <1>3, <1>4
<1>8. ASSUME NEW k \in 1 .. n + 1  PROVE v[k] = v[k - 1] + Rotation(c, k)
  <2>1. CASE k = n + 1
    <3>1. v[n] = u[n]
      OBVIOUS
    <3>. HIDE DEF v
    <3>. QED  BY <1>6, <1>7, <2>1, <3>1
  <2>2. CASE k \in 1 .. n
    <3>1. v[k] = u[k] /\ v[k - 1] = u[k - 1]
      BY <2>2
    <3>. HIDE DEF v
    <3>. QED  BY <1>4, <1>5, <2>2, <3>1
  <2>. QED  BY <2>1, <2>2
<1>. HIDE DEF v
<1>9. Winding(c) = v[n + 1]
  BY <1>2, <1>7, <1>8, WindingOf
<1>10. Winding(c) = Winding(b) + TurnBetween(BackPose(b), p)
  BY <1>4, <1>7, <1>9 DEF t
<1>11. ASSUME Pure(b), PurePair(BackPose(b), p)  PROVE Pure(c)
  <2>1. ASSUME NEW k \in 1 .. n + 1  PROVE PurePair(Pose(c, k - 1), Pose(c, k))
    <3>1. CASE k = n + 1
      <4>1. k - 1 = n
        BY <3>1
      <4>. QED  BY <1>2, <1>3, <1>11, <3>1, <4>1
    <3>2. CASE k \in 1 .. n
      BY <1>1, <1>5, <1>11, <3>2 DEF Pure
    <3>. QED  BY <3>1, <3>2
  <2>. QED  BY <1>2, <2>1 DEF Pure
<1>. QED  BY <1>2, <1>3, <1>10, <1>11 DEF c

\* A pose halfway through an interval splits its turn in two and keeps it pure.
LEMMA Halfway ==
  ASSUME NEW p \in PoseRecords, NEW q \in PoseRecords, NEW m \in PoseRecords,
         m.yaw = p.yaw + TurnBetween(p, q) \div 2, p.x = q.x => m.x = p.x
  PROVE  /\ TurnBetween(p, m) + TurnBetween(m, q) = TurnBetween(p, q)
         /\ PurePair(p, q) => PurePair(p, m) /\ PurePair(m, q)
<1>. DEFINE t == TurnBetween(p, q)  h == t \div 2
<1>1. p.yaw \in Int /\ q.yaw \in Int /\ t \in -4 .. 3
  BY TurnBetweenType DEF PoseRecords
<1>2. t = Normalize(q.yaw - p.yaw)
  BY DEF TurnBetween
<1>3. m.yaw = p.yaw + h
  OBVIOUS
<1>4. PICK c \in Int : c = q.yaw - p.yaw
  BY <1>1
<1>5. PICK i \in Int : c = t + 8 * i
  BY <1>2, <1>4, NormalizeCongruent
<1>. HIDE DEF t
<1>6. h \in -2 .. 1 /\ t - h \in -2 .. 2
  BY <1>1
<1>. HIDE DEF h
<1>7. TurnBetween(p, m) = h
  <2>1. m.yaw - p.yaw = h
    BY <1>1, <1>3, <1>6
  <2>2. h \in -4 .. 3
    BY <1>6
  <2>. QED  BY <2>1, <2>2, NormalizeIdentity DEF TurnBetween
<1>8. TurnBetween(m, q) = t - h
  <2>1. q.yaw - m.yaw = (t - h) + 8 * i
    BY <1>1, <1>3, <1>4, <1>5, <1>6
  <2>. DEFINE d == q.yaw - m.yaw  r == t - h
  <2>2. d \in Int /\ r \in -4 .. 3
    BY <1>1, <1>3, <1>6
  <2>3. d = r + 8 * i
    BY <2>1
  <2>. HIDE DEF d, r
  <2>4. Normalize(d) = r
    BY <2>2, <2>3, NormalizeUnique
  <2>. QED  BY <2>4 DEF d, r, TurnBetween
<1>9. ASSUME PurePair(p, q)  PROVE PurePair(p, m) /\ PurePair(m, q)
  <2>1. CASE p.x = q.x
    BY <2>1 DEF PurePair
  <2>2. CASE t = 0 /\ Normalize(p.yaw) \in {0, -4}
    <3>1. h = 0 /\ t - h = 0
      BY <2>2 DEF h
    <3>2. m.yaw = p.yaw
      BY <1>1, <1>3, <3>1
    <3>. QED  BY <1>7, <1>8, <2>2, <3>1, <3>2 DEF PurePair
  <2>. QED  BY <1>9, <2>1, <2>2 DEF PurePair, t
<1>10. h + (t - h) = t
  BY <1>1, <1>6
<1>. QED  BY <1>7, <1>8, <1>9, <1>10 DEF t

\* The bands from which the goal is one pure interval away, and that are
\* wound to this heading once it is added.
Approaching(goal, w) ==
  {b \in TimedBands : /\ Pure(b) /\ PurePair(BackPose(b), goal)
                      /\ Winding(b) + TurnBetween(BackPose(b), goal) = w}

\* A pose halfway to the goal keeps the band on its way there.
LEMMA AddMidpointApproaches ==
  ASSUME NEW goal \in PoseRecords, NEW w \in Int, NEW b \in Approaching(goal, w)
  PROVE  /\ AddMidpoint(b, goal) \in Approaching(goal, w)
         /\ Pose(AddMidpoint(b, goal), 0) = Pose(b, 0)
<1>. DEFINE p == BackPose(b)
            m == Average(p, goal)
            dt == EstimateDeltaT(p, m)
            c == AddPoseAndTimeDiff(b, m, dt)
<1>1. b \in TimedBands /\ p \in PoseRecords /\ Pure(b) /\ PurePair(p, goal)
      /\ Winding(b) + TurnBetween(p, goal) = w /\ Winding(b) \in Int
  BY Indexed, WindingType DEF Approaching
<1>2. m \in PoseRecords
  BY <1>1, AverageType
<1>3. dt \in Nat
  BY <1>1, <1>2, EstimateDeltaTType, PosesArePlaced
<1>4. m.yaw = p.yaw + TurnBetween(p, goal) \div 2 /\ (p.x = goal.x => m.x = p.x)
  <2>1. m.yaw = p.yaw + TurnBetween(p, goal) \div 2 /\ m.x = (p.x + goal.x) \div 2
    BY DEF Average, PoseAt, TurnBetween
  <2>2. p.x \in Int /\ \A x \in Int : (x + x) \div 2 = x
    BY <1>1 DEF PoseRecords
  <2>. QED  BY <2>1, <2>2
<1>5. AddMidpoint(b, goal) = c
  BY DEF AddMidpoint
<1>. HIDE DEF p, m, dt
<1>6. /\ TurnBetween(p, m) + TurnBetween(m, goal) = TurnBetween(p, goal)
      /\ PurePair(p, m) /\ PurePair(m, goal)
  BY <1>1, <1>2, <1>4, Halfway
<1>7. /\ c \in TimedBands /\ BackPose(c) = m /\ Pose(c, 0) = Pose(b, 0)
      /\ Winding(c) = Winding(b) + TurnBetween(p, m)
      /\ Pure(b) /\ PurePair(p, m) => Pure(c)
  BY <1>1, <1>2, <1>3, WindingAppend DEF p
<1>. HIDE DEF c
<1>8. TurnBetween(p, m) \in Int /\ TurnBetween(m, goal) \in Int
  BY <1>1, <1>2, TurnBetweenType
<1>9. Winding(c) + TurnBetween(m, goal) = w
  BY <1>1, <1>6, <1>7, <1>8
<1>. QED  BY <1>1, <1>5, <1>6, <1>7, <1>9 DEF Approaching

\* One pose is replaced, the others stay.
LEMMA PoseReplaced ==
  ASSUME NEW b \in TimedBands, NEW i \in 0 .. SizeTimeDiffs(b), NEW e \in PoseRecords
  PROVE  LET c == [b EXCEPT !.poses = [b.poses EXCEPT ![i + 1] = e]] IN
         /\ c \in TimedBands /\ (b \in ProperBands => c \in ProperBands)
         /\ SizeTimeDiffs(c) = SizeTimeDiffs(b) /\ Pose(c, i) = e
         /\ \A k \in 0 .. SizeTimeDiffs(b) : k # i => Pose(c, k) = Pose(b, k)
<1>. DEFINE P == b.poses  Q == [P EXCEPT ![i + 1] = e]  c == [b EXCEPT !.poses = Q]
<1>1. PICK n \in Nat : n = SizeTimeDiffs(b) /\ Len(P) = n + 1
  BY Indexed DEF SizePoses
<1>2. P \in Seq(PoseRecords) /\ i + 1 \in 1 .. Len(P)
  BY <1>1, BandParts, ProperIsTimed
<1>3. c.poses = Q /\ c.dts = b.dts
  BY ProperIsTimed DEF Bands
<1>. HIDE DEF P
<1>4. /\ Q \in Seq(PoseRecords) /\ Len(Q) = Len(P)
      /\ \A j \in 1 .. Len(P) : Q[j] = IF j = i + 1 THEN e ELSE P[j]
  BY <1>2, Replaced
<1>. HIDE DEF Q
<1>5. c \in TimedBands /\ (b \in ProperBands => c \in ProperBands)
  BY <1>4, PosesReplaced DEF P
<1>. HIDE DEF c
<1>6. SizeTimeDiffs(c) = SizeTimeDiffs(b)
  BY <1>3 DEF SizeTimeDiffs
<1>7. ASSUME NEW k \in 0 .. n  PROVE Pose(c, k) = IF k = i THEN e ELSE Pose(b, k)
  <2>1. k + 1 \in 1 .. Len(P) /\ (k + 1 = i + 1 <=> k = i)
    BY <1>1
  <2>. QED  BY <1>3, <1>4, <2>1 DEF Pose, P
<1>8. i \in 0 .. n
  BY <1>1
<1>. QED  BY <1>1, <1>5, <1>6, <1>7, <1>8 DEF c, Q, P

\* A pose that is fixed or freed stays where it is.
LEMMA FixedAlike ==
  ASSUME NEW b \in TimedBands, NEW i \in 0 .. SizeTimeDiffs(b), NEW status \in BOOLEAN
  PROVE  LET c == SetPoseVertexFixed(b, i, status) IN
         /\ c \in TimedBands /\ AlikeBands(c, b)
         /\ Pose(c, 0).x = Pose(b, 0).x /\ Pose(c, 0).yaw = Pose(b, 0).yaw
         /\ BackPose(c).x = BackPose(b).x /\ BackPose(c).yaw = BackPose(b).yaw
<1>. DEFINE p == Pose(b, i)  e == [p EXCEPT !.fixed = status]
            c == [b EXCEPT !.poses = [b.poses EXCEPT ![i + 1] = e]]
<1>1. p \in PoseRecords
  BY AllPoses
<1>2. e \in PoseRecords /\ e.x = p.x /\ e.yaw = p.yaw
  BY <1>1 DEF PoseRecords
<1>3. SetPoseVertexFixed(b, i, status) = c
  <2>2. b.poses[i + 1] = p
    BY DEF Pose
  <2>3. i + 1 \in DOMAIN b.poses
    BY Indexed, BandParts, ProperIsTimed DEF SizePoses, SizeTimeDiffs
  <2>. QED  BY <1>1, <2>2, <2>3 DEF SetPoseVertexFixed, TimedBands, Bands, Pose
<1>. HIDE DEF e
<1>4. /\ c \in TimedBands /\ SizeTimeDiffs(c) = SizeTimeDiffs(b) /\ Pose(c, i) = e
      /\ \A k \in 0 .. SizeTimeDiffs(b) : k # i => Pose(c, k) = Pose(b, k)
  BY <1>2, PoseReplaced
<1>. HIDE DEF c
<1>5. \A k \in 0 .. SizeTimeDiffs(b) : Pose(c, k).x = Pose(b, k).x /\ Pose(c, k).yaw = Pose(b, k).yaw
  BY <1>2, <1>4
<1>6. AlikeBands(c, b)
  BY <1>4, <1>5 DEF AlikeBands, Alike
<1>7. SizeTimeDiffs(b) \in Nat
  BY Indexed
<1>8. Pose(c, 0).x = Pose(b, 0).x /\ Pose(c, 0).yaw = Pose(b, 0).yaw
  BY <1>5, <1>7
<1>9. BackPose(c).x = BackPose(b).x /\ BackPose(c).yaw = BackPose(b).yaw
  BY <1>4, <1>5, <1>7, LastPose
<1>. QED  BY <1>3, <1>4, <1>6, <1>8, <1>9

\* The heading at the end is replaced by one that is the same when wrapped.
LEMMA Rewound ==
  ASSUME NEW b \in ProperBands, NEW w \in Int, Normalize(w) = Normalize(BackPose(b).yaw)
  PROVE  LET c == [b EXCEPT !.poses[SizePoses(b)].yaw = w] IN
         /\ c \in ProperBands /\ AlikeBands(c, b)
         /\ Pose(c, 0) = Pose(b, 0)
         /\ BackPose(c) = [BackPose(b) EXCEPT !.yaw = w]
<1>. DEFINE p == BackPose(b)  e == [p EXCEPT !.yaw = w]
<1>1. PICK n \in Nat : n = SizeTimeDiffs(b) /\ SizePoses(b) = n + 1 /\ n >= 1
  BY SizedIsTimed, ProperIsTimed
<1>. DEFINE c == [b EXCEPT !.poses = [b.poses EXCEPT ![n + 1] = e]]
<1>2. b \in TimedBands /\ p \in PoseRecords /\ p = Pose(b, n)
  BY <1>1, Indexed, LastPose, ProperIsTimed
<1>3. e \in PoseRecords /\ e.x = p.x /\ e.yaw = w
  BY <1>2 DEF PoseRecords
<1>4. [b EXCEPT !.poses[SizePoses(b)].yaw = w] = c
  <2>1. b.poses[n + 1] = p
    BY <1>2 DEF Pose
  <2>. QED  BY <1>1, <2>1
<1>. HIDE DEF e
<1>5. /\ c \in ProperBands /\ SizeTimeDiffs(c) = n /\ Pose(c, n) = e /\ c \in TimedBands
      /\ \A k \in 0 .. n : k # n => Pose(c, k) = Pose(b, k)
  <2>1. n \in 0 .. SizeTimeDiffs(b)
    BY <1>1
  <2>. QED  BY <1>1, <1>2, <1>3, <2>1, PoseReplaced
<1>. HIDE DEF c
<1>6. AlikeBands(c, b)
  <2>1. ASSUME NEW k \in 0 .. n  PROVE Alike(Pose(c, k), Pose(b, k))
    <3>1. CASE k = n
      BY <1>2, <1>3, <1>5, <3>1 DEF Alike
    <3>2. CASE k # n
      BY <1>5, <3>2 DEF Alike
    <3>. QED  BY <3>1, <3>2
  <2>. QED  BY <1>1, <1>5, <2>1 DEF AlikeBands
<1>7. Pose(c, 0) = Pose(b, 0)
  BY <1>1, <1>5
<1>8. BackPose(c) = e
  BY <1>5, LastPose
<1>. QED  BY <1>4, <1>5, <1>6, <1>7, <1>8 DEF e

-----------------------------------------------------------------------------
(* The band over a seed.                                                   *)

\* From one sample of the seed to the next there is a turn on the spot of at
\* most a quarter, or a surge along the line.
SmoothStep(p, q) ==
  /\ q.yaw - p.yaw \in -2 .. 2
  /\ p.x = q.x \/ (q.yaw = p.yaw /\ Normalize(p.yaw) \in {0, -4})

Smooth(s) == \A j \in 2 .. Len(s) : SmoothStep(s[j - 1], s[j])

\* Between samples one primitive apart the poses built from them turn alike.
LEMMA SmoothPair ==
  ASSUME NEW p \in Placed, NEW q \in Placed, SmoothStep(p, q),
         NEW r \in PoseRecords, NEW g \in PoseRecords, Alike(r, p), Alike(g, q)
  PROVE  PurePair(r, g) /\ TurnBetween(r, g) = q.yaw - p.yaw
<1>1. p.yaw \in Int /\ q.yaw \in Int /\ r.yaw \in Int /\ g.yaw \in Int
  BY PlacedParts DEF PoseRecords
<1>2. TurnBetween(r, g) = q.yaw - p.yaw
  <2>1. PICK a \in Int, b \in Int : a = p.yaw /\ b = q.yaw
    BY <1>1
  <2>2. PICK c \in Int, d \in Int : c = r.yaw /\ d = g.yaw
    BY <1>1
  <2>3. Normalize(c) = Normalize(a) /\ Normalize(d) = Normalize(b)
    BY <2>1, <2>2 DEF Alike
  <2>4. Normalize(d - c) = Normalize(b - a)
    BY <2>3, TurnCongruent
  <2>5. b - a \in -4 .. 3
    BY <2>1 DEF SmoothStep
  <2>6. Normalize(b - a) = b - a
    BY <2>5, NormalizeIdentity
  <2>. QED  BY <2>1, <2>2, <2>4, <2>6 DEF TurnBetween
<1>3. PurePair(r, g)
  <2>1. CASE p.x = q.x
    BY <2>1 DEF PurePair, Alike
  <2>2. CASE q.yaw = p.yaw /\ Normalize(p.yaw) \in {0, -4}
    <3>1. q.yaw - p.yaw = 0
      BY <1>1, <2>2
    <3>. QED  BY <1>2, <2>2, <3>1 DEF PurePair, Alike
  <2>. QED  BY <2>1, <2>2 DEF SmoothStep
<1>. QED  BY <1>2, <1>3

\* The bands that begin here.
Beginning(x, yaw) == {b \in TimedBands : Pose(b, 0).x = x /\ Pose(b, 0).yaw = yaw}

\* The bands that follow the seed up to sample m.
Tracks(s, m) ==
  {b \in Beginning(s[1].x, s[1].yaw) :
     Pure(b) /\ Winding(b) = s[m].yaw /\ Alike(BackPose(b), s[m])}

\* A band begun at the first sample follows the seed that far.
LEMMA BegunTracks ==
  ASSUME NEW s \in Seeds
  PROVE  Begun(s[1].x, s[1].yaw) \in Tracks(s, 1)
<1>. DEFINE x == s[1].x  yaw == s[1].yaw  p == PoseAt(x, yaw)  b == Begun(x, yaw)
            P == Append(<<>>, p)  D == <<>>  c == [poses |-> P, dts |-> D]
<1>1. x \in Int /\ yaw \in Int
  BY PlanEnds, PlacedParts DEF Seeds
<1>. HIDE DEF x, yaw
<1>2. p \in PoseRecords /\ p.x = x /\ p.yaw = yaw
  BY <1>1, PoseAtType DEF PoseAt
<1>3. b = SetPoseVertexFixed(c, 0, TRUE)
  <2>1. AddPose(EmptyBand, p) = c
    BY DEF AddPose, EmptyBand
  <2>. HIDE DEF c
  <2>. QED  BY <2>1 DEF Begun
<1>. HIDE DEF p, b
<1>4. c \in TimedBands /\ SizeTimeDiffs(c) = 0 /\ Pose(c, 0) = p
  <2>1. <<>> \in Seq(PoseRecords) /\ Len(<<>>) = 0 /\ D \in Seq(Nat) /\ Len(D) = 0
    BY EmptySeq
  <2>2. P \in Seq(PoseRecords) /\ Len(P) = 0 + 1 /\ P[0 + 1] = p
    BY <1>2, <2>1, AppendProperties
  <2>. HIDE DEF P, D
  <2>. QED  BY <2>1, <2>2, TimedBand DEF SizeTimeDiffs, Pose
<1>. HIDE DEF c
<1>5. /\ b \in TimedBands /\ AlikeBands(b, c)
      /\ Pose(b, 0).x = x /\ Pose(b, 0).yaw = yaw
  <2>1. 0 \in 0 .. SizeTimeDiffs(c) /\ TRUE \in BOOLEAN
    BY <1>4
  <2>. QED  BY <1>2, <1>3, <1>4, <2>1, FixedAlike
<1>6. SizeTimeDiffs(b) = 0
  BY <1>4, <1>5 DEF AlikeBands
<1>7. BackPose(b) = Pose(b, 0)
  BY <1>5, <1>6, LastPose
<1>8. Pure(b)
  BY <1>6 DEF Pure
<1>9. Winding(b) = yaw
  <2>. DEFINE u == [k \in 0 .. 0 |-> yaw]
  <2>1. u[0] = Pose(b, 0).yaw /\ u[SizeTimeDiffs(b)] = yaw
    BY <1>5, <1>6
  <2>2. \A k \in 1 .. SizeTimeDiffs(b) : u[k] = u[k - 1] + Rotation(b, k)
    BY <1>6
  <2>. HIDE DEF u
  <2>3. Winding(b) = u[SizeTimeDiffs(b)]
    BY <1>5, <2>1, <2>2, WindingOf
  <2>. QED  BY <2>1, <2>3
<1>. QED  BY <1>2, <1>5, <1>6, <1>7, <1>8, <1>9 DEF Tracks, Beginning, Alike, b, x, yaw

\* With the next sample added it follows the seed to that sample.
LEMMA SampleTracks ==
  ASSUME NEW s \in Seeds, Smooth(s), NEW m \in 1 .. Len(s) - 1, NEW b \in Tracks(s, m)
  PROVE  AddSample(b, s[m + 1]) \in Tracks(s, m + 1)
<1>1. m + 1 \in 2 .. Len(s) /\ m \in 1 .. Len(s) /\ m + 1 \in 1 .. Len(s) /\ (m + 1) - 1 = m
  BY PlanEnds DEF Seeds
<1>2. s[m] \in Placed /\ s[m + 1] \in Placed /\ s[m].yaw \in Int /\ s[m + 1].x \in Int
      /\ s[m + 1].yaw \in Int
  BY <1>1, PlanEnds, PlacedParts DEF Seeds
<1>3. SmoothStep(s[m], s[m + 1])
  <2>1. PICK j \in 2 .. Len(s) : j = m + 1 /\ j - 1 = m
    BY <1>1
  <2>. QED  BY <2>1 DEF Smooth
<1>. DEFINE p == s[m]  q == s[m + 1]  g == PoseAt(q.x, Normalize(q.yaw))
            dt == EstimateDeltaT(BackPose(b), q)
            c == AddPoseAndTimeDiff(b, g, dt)
<1>4. b \in TimedBands /\ Pure(b) /\ Winding(b) = p.yaw /\ Alike(BackPose(b), p)
      /\ Pose(b, 0).x = s[1].x /\ Pose(b, 0).yaw = s[1].yaw /\ BackPose(b) \in PoseRecords
  BY Indexed DEF Tracks, Beginning
<1>5. Normalize(q.yaw) \in -4 .. 3 /\ Normalize(q.yaw) \in Int
  BY <1>2, NormalizeType
<1>6. g \in PoseRecords
  BY <1>2, <1>5, PoseAtType
<1>7. Alike(g, q)
  BY <1>5, NormalizeIdentity DEF Alike, PoseAt
<1>8. dt \in Nat
  BY <1>2, <1>4, EstimateDeltaTType, PosesArePlaced
<1>9. AddSample(b, s[m + 1]) = c
  BY DEF AddSample
<1>. HIDE DEF g, dt
<1>10. PurePair(BackPose(b), g) /\ TurnBetween(BackPose(b), g) = q.yaw - p.yaw
  BY <1>2, <1>3, <1>4, <1>6, <1>7, SmoothPair
<1>11. /\ c \in TimedBands /\ BackPose(c) = g /\ Pose(c, 0) = Pose(b, 0)
       /\ Winding(c) = Winding(b) + TurnBetween(BackPose(b), g)
       /\ Pure(b) /\ PurePair(BackPose(b), g) => Pure(c)
  BY <1>4, <1>6, <1>8, WindingAppend
<1>. HIDE DEF c
<1>12. Winding(c) = q.yaw
  BY <1>2, <1>4, <1>10, <1>11
<1>. QED  BY <1>4, <1>7, <1>9, <1>10, <1>11, <1>12 DEF Tracks, Beginning

\* The interior samples lead to the one before the last.
LEMMA SamplesTrack ==
  ASSUME NEW s \in Seeds, Smooth(s)
  PROVE  AddSamples(Begun(s[1].x, s[1].yaw), s) \in Tracks(s, Larger(0, Len(s) - 2) + 1)
<1>. DEFINE b == Begun(s[1].x, s[1].yaw)
<1>1. PICK n \in Nat : n = Larger(0, Len(s) - 2)
  BY InteriorType, PlanEnds DEF Seeds
<1>2. b \in Tracks(s, 1) /\ b \in TimedBands /\ s \in Seq(Placed)
  BY BegunTracks DEF Tracks, Beginning, Seeds
<1>. HIDE DEF b
<1>3. PICK g : /\ g[0] = b /\ AddSamples(b, s) = g[n]
               /\ \A k \in 1 .. n : g[k] = AddSample(g[k - 1], s[k + 1])
  BY <1>1, <1>2, AddSamplesSteps
<1>. DEFINE P == {k \in 0 .. n : g[k] \in Tracks(s, k + 1)}
<1>4. P \in SUBSET (0 .. n) /\ 0 \in P
  BY <1>2, <1>3
<1>5. ASSUME NEW k \in 1 .. n, k - 1 \in P  PROVE k \in P
  <2>1. k \in 1 .. Len(s) - 1 /\ (k - 1) + 1 = k
    BY <1>1, PlanEnds DEF Larger, Seeds
  <2>2. g[k - 1] \in Tracks(s, k)
    BY <1>5, <2>1
  <2>3. AddSample(g[k - 1], s[k + 1]) \in Tracks(s, k + 1)
    BY <2>1, <2>2, SampleTracks
  <2>. QED  BY <1>3, <2>3
<1>. HIDE DEF P
<1>6. P = 0 .. n
  BY <1>4, <1>5, IntervalInduction
<1>7. g[n] \in Tracks(s, n + 1)
  BY <1>6 DEF P
<1>. QED  BY <1>1, <1>3, <1>7 DEF b

\* The band over a smooth seed is pure, begins and ends where the seed does,
\* and makes its turns.
LEMMA InitTracks ==
  ASSUME NEW s \in Seeds, Smooth(s), NEW minSamples \in Nat
  PROVE  LET b == InitTrajectoryToGoal(s, minSamples) IN
         /\ b \in Beginning(s[1].x, s[1].yaw) /\ Pure(b)
         /\ Winding(b) = Last(s).yaw /\ Alike(BackPose(b), Last(s))
<1>. DEFINE start == s[1]  last == Last(s)
            goal == PoseAt(last.x, start.yaw + Normalize(last.yaw - start.yaw))
            first == AddSamples(Begun(start.x, start.yaw), s)
            S == {b \in Approaching(goal, last.yaw) : b \in Beginning(start.x, start.yaw)}
            filled == FillSamples(first, goal, minSamples)
            dt == EstimateDeltaT(BackPose(filled), goal)
            added == AddPoseAndTimeDiff(filled, goal, dt)
            closed == SetPoseVertexFixed(added, SizePoses(added) - 1, TRUE)
<1>1. /\ Len(s) \in Nat \ {0} /\ start \in Placed /\ last \in Placed /\ last = s[Len(s)]
      /\ start.x \in Int /\ start.yaw \in Int /\ last.x \in Int /\ last.yaw \in Int
  BY PlanEnds, PlacedParts DEF Seeds, Last
<1>2. goal \in PoseRecords /\ Alike(goal, last)
  <2>1. PICK a \in Int, c \in Int : a = start.yaw /\ c = last.yaw
    BY <1>1
  <2>2. Normalize(a + Normalize(c - a)) = Normalize(c)
    BY TurnEnds
  <2>3. c - a \in Int
    OBVIOUS
  <2>4. a + Normalize(c - a) \in Int
    BY <2>3, NormalizeType
  <2>. QED  BY <1>1, <2>1, <2>2, <2>4, PoseAtType DEF PoseAt, Alike
<1>3. PICK m \in 1 .. Len(s) : m = Larger(0, Len(s) - 2) + 1
  BY <1>1 DEF Larger
<1>4. SmoothStep(s[m], last) /\ s[m] \in Placed
  <2>1. s[m] \in Placed /\ s[m].yaw \in Int
    BY PlanEnds, PlacedParts DEF Seeds
  <2>2. CASE Len(s) = 1
    <3>1. s[m] = last
      BY <1>1, <1>3, <2>2
    <3>2. SmoothStep(last, last)
      <4>. DEFINE d == last.yaw - last.yaw
      <4>1. d = 0
        BY <1>1
      <4>. HIDE DEF d
      <4>2. d \in -2 .. 2
        BY <4>1
      <4>. QED  BY <4>2 DEF SmoothStep, d
    <3>. QED  BY <2>1, <3>1, <3>2, Zenon
  <2>3. CASE Len(s) # 1
    <3>1. PICK n \in Nat : n = Len(s) /\ n # 0 /\ n # 1
      BY <1>1, <2>3
    <3>2. Larger(0, n - 2) = n - 2
      BY <3>1 DEF Larger
    <3>3. m = n - 1 /\ n \in 2 .. n
      BY <1>3, <3>1, <3>2
    <3>4. PICK j \in 2 .. Len(s) : j = Len(s) /\ m = j - 1
      BY <3>1, <3>3
    <3>. QED  BY <1>1, <2>1, <3>4 DEF Smooth
  <2>. QED  BY <2>2, <2>3
<1>5. first \in Tracks(s, m)
  BY <1>3, SamplesTrack
<1>. HIDE DEF first, goal
<1>6. first \in S
  <2>1. first \in TimedBands /\ first \in Beginning(start.x, start.yaw) /\ Pure(first)
        /\ Winding(first) = s[m].yaw /\ Alike(BackPose(first), s[m])
    BY <1>5 DEF Tracks, Beginning
  <2>2. BackPose(first) \in PoseRecords
    BY <2>1, Indexed
  <2>3. PurePair(BackPose(first), goal) /\ TurnBetween(BackPose(first), goal) = last.yaw - s[m].yaw
    BY <1>1, <1>2, <1>4, <2>1, <2>2, SmoothPair
  <2>4. Winding(first) + TurnBetween(BackPose(first), goal) = last.yaw
    BY <1>1, <1>4, <2>1, <2>3, PlacedParts
  <2>. QED  BY <2>1, <2>3, <2>4 DEF Approaching
<1>7. ASSUME NEW b \in S  PROVE AddMidpoint(b, goal) \in S
  <2>1. b \in Approaching(goal, last.yaw) /\ b \in Beginning(start.x, start.yaw)
    OBVIOUS
  <2>2. AddMidpoint(b, goal) \in Approaching(goal, last.yaw)
        /\ Pose(AddMidpoint(b, goal), 0) = Pose(b, 0)
    BY <1>1, <1>2, <2>1, AddMidpointApproaches
  <2>. QED  BY <2>1, <2>2 DEF Approaching, Beginning
<1>8. filled \in S
  <2>1. S \subseteq TimedBands
    BY DEF Approaching
  <2>. HIDE DEF S
  <2>. QED  BY <1>2, <1>6, <1>7, <2>1, FillSamplesIn
<1>9. InitTrajectoryToGoal(s, minSamples) = closed
  BY Zenon DEF InitTrajectoryToGoal, Closed, goal, first
<1>. HIDE DEF filled
<1>10. /\ filled \in TimedBands /\ filled \in Beginning(start.x, start.yaw) /\ Pure(filled)
       /\ PurePair(BackPose(filled), goal)
       /\ Winding(filled) + TurnBetween(BackPose(filled), goal) = last.yaw
  BY <1>8 DEF Approaching
<1>11. dt \in Nat
  BY <1>2, <1>10, EstimateDeltaTType, Indexed, PosesArePlaced
<1>. HIDE DEF dt
<1>12. /\ added \in TimedBands /\ BackPose(added) = goal /\ Pose(added, 0) = Pose(filled, 0)
       /\ Winding(added) = last.yaw /\ Pure(added)
  BY <1>2, <1>10, <1>11, WindingAppend
<1>. HIDE DEF added
<1>13. SizePoses(added) - 1 \in 0 .. SizeTimeDiffs(added) /\ TRUE \in BOOLEAN
  BY <1>12, Indexed
<1>14. /\ closed \in TimedBands /\ AlikeBands(closed, added)
       /\ Pose(closed, 0).x = Pose(added, 0).x /\ Pose(closed, 0).yaw = Pose(added, 0).yaw
       /\ BackPose(closed).x = BackPose(added).x /\ BackPose(closed).yaw = BackPose(added).yaw
  BY <1>12, <1>13, FixedAlike
<1>. HIDE DEF closed
<1>15. Pure(closed) /\ Winding(closed) = last.yaw
  BY <1>12, <1>14, AlikeTurns
<1>. QED  BY <1>2, <1>9, <1>10, <1>12, <1>14, <1>15 DEF Beginning, Alike

-----------------------------------------------------------------------------
(* The pivot seed is smooth.                                               *)

\* Equal pieces of a turn: each is at most a quarter, and they add up.
LEMMA Pieces ==
  ASSUME NEW swept \in Int, NEW n \in Nat, n = (Magnitude(swept) + Quarter - 1) \div Quarter
  PROVE  /\ n = 0 <=> swept = 0
         /\ -2 * n <= swept /\ swept <= 2 * n
<1>. DEFINE a == Magnitude(swept)
<1>1. a \in Nat /\ -a <= swept /\ swept <= a /\ (a = 0 <=> swept = 0)
  BY DEF Magnitude
<1>2. n = (a + 1) \div 2
  <2>1. a + Quarter - 1 = a + 1
    BY <1>1 DEF Quarter
  <2>. HIDE DEF a
  <2>. QED  BY <2>1 DEF a, Quarter
<1>. HIDE DEF a
<1>3. a <= 2 * n /\ (n = 0 <=> a = 0)
  BY <1>1, <1>2
<1>. QED  BY <1>1, <1>3

\* The sign of a factor.
LEMMA PositiveFactor ==
  ASSUME NEW n \in Nat \ {0}, NEW z \in Int, n * z > 0
  PROVE  z > 0
OBVIOUS

\* What division by a positive number returns.
LEMMA Quotient ==
  ASSUME NEW n \in Nat \ {0}, NEW a \in Int
  PROVE  a \div n \in Int /\ n * (a \div n) <= a /\ a < n * (a \div n) + n
OBVIOUS

\* Two neighbouring pieces.
LEMMA PieceStep ==
  ASSUME NEW n \in Nat \ {0}, NEW a \in Int, NEW b \in Int, NEW swept \in Int, b = a + swept,
         -2 * n <= swept, swept <= 2 * n
  PROVE  b \div n - a \div n \in -2 .. 2
<1>1. PICK c \in Int : c = a \div n
  BY Quotient
<1>2. PICK d \in Int : d = b \div n
  BY Quotient
<1>3. n * c <= a /\ a < n * c + n
  BY <1>1, Quotient
<1>4. n * d <= b /\ b < n * d + n
  BY <1>2, Quotient
<1>. DEFINE z == d - c
<1>5. PICK nc \in Int, nd \in Int : nc = n * c /\ nd = n * d
  OBVIOUS
<1>6. nd < nc + 3 * n /\ nc - 3 * n < nd
  BY <1>3, <1>4, <1>5
<1>7. n * (3 - z) > 0 /\ n * (z + 3) > 0
  <2>1. n * (3 - z) = 3 * n - nd + nc /\ n * (z + 3) = nd - nc + 3 * n
    BY <1>5
  <2>. HIDE DEF z
  <2>. QED  BY <1>6, <2>1
<1>8. 3 - z > 0 /\ z + 3 > 0
  <2>1. 3 - z \in Int /\ z + 3 \in Int
    OBVIOUS
  <2>2. PICK z1 \in Int, z2 \in Int : z1 = 3 - z /\ z2 = z + 3
    BY <2>1
  <2>. HIDE DEF z
  <2>. QED  BY <1>7, <2>2, PositiveFactor
<1>. QED  BY <1>1, <1>2, <1>8

\* The first sample, the last one and the steps of a longer seed.
LEMMA SmoothAppend ==
  ASSUME NEW s \in Seeds, Smooth(s), NEW q \in Placed, SmoothStep(Last(s), q)
  PROVE  /\ Append(s, q) \in Seeds /\ Smooth(Append(s, q))
         /\ Append(s, q)[1] = s[1] /\ Last(Append(s, q)) = q
<1>. DEFINE t == Append(s, q)
<1>1. PICK n \in Nat \ {0} : n = Len(s)
  BY PlanEnds DEF Seeds
<1>2. s \in Seq(Placed)
  BY DEF Seeds
<1>3. /\ Len(t) = n + 1 /\ t[n + 1] = q
      /\ \A i \in 1 .. n : t[i] = s[i]
  BY <1>1, <1>2, AppendProperties
<1>4. t \in Seeds
  BY SeedAppended
<1>. HIDE DEF t
<1>5. ASSUME NEW j \in 2 .. n + 1  PROVE SmoothStep(t[j - 1], t[j])
  <2>1. j - 1 \in 1 .. n /\ t[j - 1] = s[j - 1]
    BY <1>3
  <2>2. CASE j = n + 1
    <3>1. s[j - 1] = Last(s)
      BY <1>1, <2>2 DEF Last
    <3>. QED  BY <1>3, <2>1, <2>2, <3>1
  <2>3. CASE j # n + 1
    <3>1. j \in 2 .. n /\ t[j] = s[j]
      BY <1>3, <2>3
    <3>. QED  BY <1>1, <2>1, <3>1 DEF Smooth
  <2>. QED  BY <2>2, <2>3
<1>6. Smooth(t)
  BY <1>3, <1>5 DEF Smooth
<1>7. t[1] = s[1] /\ Last(t) = q
  BY <1>3 DEF Last
<1>. QED  BY <1>4, <1>6, <1>7 DEF t

\* A turn in pieces keeps the place and ends where it should.
LEMMA AppendTurnSmooth ==
  ASSUME NEW s \in Seeds, Smooth(s), NEW swept \in Int
  PROVE  LET t == AppendTurn(s, swept) IN
         /\ t \in Seeds /\ Smooth(t) /\ t[1] = s[1]
         /\ Last(t).x = Last(s).x /\ Last(t).yaw = Last(s).yaw + swept
<1>. DEFINE pieces == (Magnitude(swept) + Quarter - 1) \div Quarter
            last == Last(s)
<1>1. PICK n \in Nat : n = pieces
  <2>1. Magnitude(swept) \in Nat
    BY MagnitudeType
  <2>. QED  BY <2>1 DEF Quarter
<1>. DEFINE more == [j \in 1 .. n |-> PoseAt(last.x, last.yaw + (swept * j) \div n)]
            t == s \o more
<1>2. (n = 0 <=> swept = 0) /\ -2 * n <= swept /\ swept <= 2 * n
  BY <1>1, Pieces
<1>3. AppendTurn(s, swept) = t
  BY <1>1 DEF AppendTurn
<1>4. t \in Seeds
  BY <1>3, AppendTurnType
<1>. HIDE DEF pieces
<1>5. last.x \in Int /\ last.yaw \in Int
  BY SeedLast
<1>6. PICK l \in Nat \ {0} : l = Len(s)
  BY PlanEnds DEF Seeds
<1>7. s \in Seq(Placed) /\ last = s[l]
  BY <1>6 DEF Seeds, Last
<1>. DEFINE Angle(j) == last.yaw + (swept * j) \div n
<1>8. ASSUME NEW j \in 1 .. n
      PROVE  Angle(j) \in Int /\ more[j].x = last.x /\ more[j].yaw = Angle(j) /\ more[j] \in Placed
  <2>1. swept * j \in Int /\ n \in Nat \ {0}
    OBVIOUS
  <2>2. (swept * j) \div n \in Int
    BY <2>1, Quotient
  <2>3. Angle(j) \in Int
    BY <1>5, <2>2
  <2>4. more[j] = PoseAt(last.x, Angle(j))
    OBVIOUS
  <2>. HIDE DEF Angle, more
  <2>5. PoseAt(last.x, Angle(j)) \in Placed
    BY <1>5, <2>3, PoseAtType, PosesArePlaced
  <2>6. more[j].x = last.x /\ more[j].yaw = Angle(j)
    BY <2>4 DEF PoseAt
  <2>. QED  BY <2>3, <2>4, <2>5, <2>6
<1>9. more \in Seq(Placed) /\ Len(more) = n
  <2>1. \A j \in 1 .. n : PoseAt(last.x, last.yaw + (swept * j) \div n) \in Placed
    <3>1. \A j \in 1 .. n : more[j] \in Placed
      BY <1>8
    <3>. QED  BY <3>1
  <2>. QED  BY <2>1
<1>. HIDE DEF last
<1>10. /\ Len(t) = l + n
       /\ \A i \in 1 .. l : t[i] = s[i]
       /\ \A j \in 1 .. n : t[l + j] = more[j]
  <2>. HIDE DEF more
  <2>1. /\ Len(t) = Len(s) + Len(more)
        /\ \A i \in 1 .. Len(s) + Len(more) : t[i] = IF i <= Len(s) THEN s[i] ELSE more[i - Len(s)]
    BY <1>7, <1>9, ConcatProperties
  <2>2. \A i \in 1 .. l : i \in 1 .. l + n /\ i <= l
    OBVIOUS
  <2>3. \A j \in 1 .. n : l + j \in 1 .. l + n /\ ~(l + j <= l) /\ (l + j) - l = j
    OBVIOUS
  <2>. QED  BY <1>6, <1>9, <2>1, <2>2, <2>3
<1>. HIDE DEF more, t
\* The heading after j pieces is the one before the turn and j pieces more.
<1>11. ASSUME NEW j \in 1 .. n
       PROVE  /\ t[l + j].x = last.x /\ t[l + j].yaw = Angle(j)
              /\ t[l + j - 1].x = last.x
              /\ Angle(j) - t[l + j - 1].yaw \in -2 .. 2
  <2>1. t[l + j].x = last.x /\ t[l + j].yaw = Angle(j)
    BY <1>8, <1>10
  <2>2. n \in Nat \ {0} /\ swept * j \in Int /\ swept * (j - 1) \in Int
        /\ swept * j = swept * (j - 1) + swept
    OBVIOUS
  <2>3. PICK a \in Int, b \in Int : a = swept * (j - 1) /\ b = swept * j
    BY <2>2
  <2>4. b \div n - a \div n \in -2 .. 2 /\ a \div n \in Int /\ b \div n \in Int
    <3>1. b = a + swept
      BY <2>2, <2>3
    <3>. QED  BY <1>2, <2>2, <3>1, PieceStep, Quotient
  <2>5. t[l + j - 1].x = last.x /\ t[l + j - 1].yaw = last.yaw + a \div n
    <3>1. CASE j = 1
      <4>1. l + j - 1 = l /\ a = 0
        BY <2>3, <3>1
      <4>2. t[l + j - 1] = last
        BY <1>7, <1>10, <4>1
      <4>3. a \div n = 0
        BY <2>2, <4>1
      <4>. QED  BY <1>5, <4>2, <4>3
    <3>2. CASE j # 1
      <4>1. PICK i \in 1 .. n : i = j - 1 /\ l + j - 1 = l + i
        BY <3>2
      <4>. QED  BY <1>8, <1>10, <2>3, <4>1
    <3>. QED  BY <3>1, <3>2
  <2>6. Angle(j) = last.yaw + b \div n
    BY <2>3
  <2>. HIDE DEF Angle
  <2>7. Angle(j) - t[l + j - 1].yaw = b \div n - a \div n
    BY <1>5, <2>4, <2>5, <2>6
  <2>. QED  BY <2>1, <2>4, <2>5, <2>7
<1>12. ASSUME NEW i \in 2 .. l + n  PROVE SmoothStep(t[i - 1], t[i])
  <2>1. CASE i <= l
    <3>1. i \in 2 .. l /\ i \in 1 .. l /\ i - 1 \in 1 .. l
      BY <2>1
    <3>. QED  BY <1>6, <1>10, <3>1 DEF Smooth
  <2>2. CASE ~(i <= l)
    <3>1. PICK j \in 1 .. n : i = l + j /\ i - 1 = l + j - 1
      <4>1. i - l \in 1 .. n /\ i = l + (i - l) /\ i - 1 = l + (i - l) - 1
        BY <2>2
      <4>. QED  BY <4>1
    <3>. QED  BY <1>11, <3>1 DEF SmoothStep
  <2>. QED  BY <2>1, <2>2
<1>13. Smooth(t)
  BY <1>10, <1>12 DEF Smooth
<1>14. t[1] = s[1]
  BY <1>10
<1>15. Last(t).x = last.x /\ Last(t).yaw = last.yaw + swept
  <2>1. CASE n = 0
    <3>1. Last(t) = last /\ swept = 0
      BY <1>2, <1>7, <1>10, <2>1 DEF Last
    <3>. QED  BY <1>5, <3>1
  <2>2. CASE n # 0
    <3>1. Last(t) = t[l + n] /\ n \in 1 .. n
      BY <1>10, <2>2 DEF Last
    <3>2. Angle(n) = last.yaw + swept
      <4>1. n \in Nat \ {0} /\ swept * n \in Int
        BY <2>2
      <4>2. (swept * n) \div n = swept
        BY <4>1
      <4>. QED  BY <4>2
    <3>. HIDE DEF Angle
    <3>. QED  BY <1>11, <3>1, <3>2
  <2>. QED  BY <2>1, <2>2
<1>. QED  BY <1>3, <1>4, <1>13, <1>14, <1>15 DEF last

\* A robot on the line heads one way or the other.
LEMMA TravelHeadings ==
  ASSUME NEW yaw \in Int, NEW dx \in Int, NEW backwards \in BOOLEAN
  PROVE  TravelHeading(yaw, dx, backwards) \in {0, 4, 8}
<1>. DEFINE forward == IF dx > 0 THEN 0 ELSE FullTurn \div 2
<1>1. forward \in {0, 4} /\ forward + FullTurn \div 2 \in {4, 8}
  BY DEF FullTurn
<1>2. TravelHeading(yaw, dx, backwards) \in {forward, forward + FullTurn \div 2}
  BY DEF TravelHeading
<1>. QED  BY <1>1, <1>2

\* A surge follows a turn towards it and ends at its place.
LEMMA SurgeSmooth ==
  ASSUME NEW s \in Seeds, Smooth(s), NEW x \in Int, NEW backwards \in BOOLEAN
  PROVE  LET t == SurgeTo(s, x, backwards) IN
         t \in Seeds /\ Smooth(t) /\ t[1] = s[1] /\ Last(t).x = x
<1>. DEFINE from == Last(s)
            dx == x - from.x
            h == TravelHeading(from.yaw, dx, backwards)
            swept == Normalize(h - from.yaw)
            aligned == AppendTurn(s, swept)
            q == PoseAt(x, Last(aligned).yaw)
<1>1. SurgeTo(s, x, backwards) = IF dx = 0 THEN s ELSE Append(aligned, q)
  BY Zenon DEF SurgeTo
<1>2. from \in Placed /\ from.x \in Int /\ from.yaw \in Int /\ dx \in Int
  BY SeedLast
<1>3. CASE dx = 0
  <2>1. from.x = x
    BY <1>2, <1>3
  <2>. QED  BY <1>1, <1>3, <2>1
<1>4. CASE dx # 0
  <2>1. h \in {0, 4, 8}
    BY <1>2, TravelHeadings
  <2>. HIDE DEF h
  <2>2. PICK a \in Int, c \in Int : a = from.yaw /\ c = h
    BY <1>2, <2>1
  <2>3. c - a \in Int /\ swept = Normalize(c - a)
    BY <2>2
  <2>4. swept \in Int
    BY <2>3, NormalizeType
  <2>5. Normalize(a + Normalize(c - a)) = Normalize(c)
    BY TurnEnds
  <2>6. Normalize(a + swept) \in {0, -4}
    <3>1. Normalize(c) \in {0, -4}
      BY <2>1, <2>2 DEF Normalize, FullTurn
    <3>. QED  BY <2>3, <2>5, <3>1
  <2>. HIDE DEF swept, from
  <2>7. /\ aligned \in Seeds /\ Smooth(aligned) /\ aligned[1] = s[1]
        /\ Last(aligned).x = from.x /\ Last(aligned).yaw = from.yaw + swept
    BY <2>4, AppendTurnSmooth DEF from
  <2>. HIDE DEF aligned
  <2>8. Last(aligned) \in Placed /\ Last(aligned).yaw \in Int
    BY <2>7, SeedLast
  <2>9. q \in Placed /\ q.x = x /\ q.yaw = Last(aligned).yaw
    BY <2>8, PoseAtType, PosesArePlaced DEF PoseAt
  <2>. HIDE DEF q
  <2>10. SmoothStep(Last(aligned), q)
    <3>. DEFINE d == q.yaw - Last(aligned).yaw
    <3>1. d = 0
      BY <2>8, <2>9
    <3>. HIDE DEF d
    <3>2. d \in -2 .. 2
      BY <3>1
    <3>3. Normalize(Last(aligned).yaw) \in {0, -4}
      BY <2>2, <2>6, <2>7
    <3>. QED  BY <2>9, <3>2, <3>3 DEF SmoothStep, d
  <2>11. Append(aligned, q) \in Seeds /\ Smooth(Append(aligned, q))
         /\ Append(aligned, q)[1] = aligned[1] /\ Last(Append(aligned, q)) = q
    BY <2>7, <2>9, <2>10, SmoothAppend
  <2>. QED  BY <1>1, <1>4, <2>7, <2>9, <2>11
<1>. QED  BY <1>3, <1>4

\* A leg ends at its sample, and the last one with the terminal heading.
LEMMA LegSmooth ==
  ASSUME NEW s \in Seeds, Smooth(s), NEW guide \in Seeds, NEW i \in 1 .. Len(guide),
         NEW backwards \in BOOLEAN, NEW keepBranch \in BOOLEAN, NEW terminalYaw \in Int
  PROVE  LET t == AddLeg(s, guide, i, backwards, keepBranch, terminalYaw) IN
         /\ t \in Seeds /\ Smooth(t) /\ t[1] = s[1] /\ Last(t).x = guide[i].x
         /\ i = Len(guide) => IF keepBranch THEN Last(t).yaw = terminalYaw
                              ELSE Normalize(Last(t).yaw) = Normalize(guide[i].yaw)
<1>. DEFINE moved == SurgeTo(s, guide[i].x, backwards)
            swept == IF i = Len(guide) /\ keepBranch THEN terminalYaw - Last(moved).yaw
                     ELSE Normalize(guide[i].yaw - Last(moved).yaw)
            t == AddLeg(s, guide, i, backwards, keepBranch, terminalYaw)
<1>1. t = IF i = Len(guide) \/ guide[i].x = Last(s).x THEN AppendTurn(moved, swept) ELSE moved
  BY Zenon DEF AddLeg
<1>2. guide[i] \in Placed /\ guide[i].x \in Int /\ guide[i].yaw \in Int
  BY PlanEnds, PlacedParts DEF Seeds
<1>3. moved \in Seeds /\ Smooth(moved) /\ moved[1] = s[1] /\ Last(moved).x = guide[i].x
  BY <1>2, SurgeSmooth
<1>. HIDE DEF moved, t
<1>4. Last(moved).x \in Int /\ Last(moved).yaw \in Int
  BY <1>3, SeedLast
<1>5. terminalYaw - Last(moved).yaw \in Int /\ guide[i].yaw - Last(moved).yaw \in Int
  BY <1>2, <1>4
<1>6. swept \in Int
  BY <1>5, NormalizeType
<1>. DEFINE w == AppendTurn(moved, swept)
<1>7. IF i = Len(guide) /\ keepBranch THEN Last(moved).yaw + swept = terminalYaw
      ELSE Normalize(Last(moved).yaw + swept) = Normalize(guide[i].yaw)
  <2>1. CASE i = Len(guide) /\ keepBranch
    BY <1>4, <2>1
  <2>2. CASE ~(i = Len(guide) /\ keepBranch)
    <3>1. PICK a \in Int, c \in Int : a = Last(moved).yaw /\ c = guide[i].yaw
      BY <1>2, <1>4
    <3>2. Normalize(a + Normalize(c - a)) = Normalize(c)
      BY TurnEnds
    <3>. QED  BY <2>2, <3>1, <3>2
  <2>. QED  BY <2>1, <2>2
<1>. HIDE DEF swept
<1>8. /\ w \in Seeds /\ Smooth(w) /\ w[1] = moved[1]
      /\ Last(w).x = Last(moved).x /\ Last(w).yaw = Last(moved).yaw + swept
  BY <1>3, <1>6, AppendTurnSmooth
<1>. HIDE DEF w
<1>9. t = IF i = Len(guide) \/ guide[i].x = Last(s).x THEN w ELSE moved
  BY <1>1 DEF w
<1>10. t \in Seeds /\ Smooth(t) /\ t[1] = s[1] /\ Last(t).x = guide[i].x
  BY <1>3, <1>8, <1>9
<1>11. ASSUME i = Len(guide)
       PROVE  IF keepBranch THEN Last(t).yaw = terminalYaw
              ELSE Normalize(Last(t).yaw) = Normalize(guide[i].yaw)
  <2>1. t = w
    BY <1>9, <1>11
  <2>. QED  BY <1>7, <1>8, <1>11, <2>1
<1>. QED  BY <1>10, <1>11 DEF t

\* The seed turns on the spot or surges along the line, from the start of the
\* plan to its end, with the terminal heading that was asked for.
LEMMA PivotSmooth ==
  ASSUME NEW plan \in Seeds, NEW backwards \in BOOLEAN, NEW keepBranch \in BOOLEAN,
         NEW terminalYaw \in Int
  PROVE  LET t == PivotSeed(plan, backwards, keepBranch, terminalYaw) IN
         /\ t \in Seeds /\ Smooth(t) /\ t[1] = plan[1] /\ Last(t).x = Last(plan).x
         /\ IF keepBranch THEN Last(t).yaw = terminalYaw
            ELSE Normalize(Last(t).yaw) = Normalize(Last(plan).yaw)
<1>. DEFINE guide == Guide(plan)  t == PivotSeed(plan, backwards, keepBranch, terminalYaw)
<1>1. guide \in Seeds /\ Len(guide) >= 2 /\ guide[1] = plan[1] /\ Last(guide) = Last(plan)
  BY GuideType
<1>2. PICK l \in Nat : l = Len(guide) /\ l >= 2
  BY <1>1, PlanEnds DEF Seeds
<1>3. PICK n \in Nat : n = l - 1 /\ n >= 1
  BY <1>2
<1>4. PICK g : GrowsToPivotSeed(g, plan, backwards, keepBranch, terminalYaw)
  BY PivotSeedSteps
<1>12. n = Len(guide) - 1
  BY <1>2, <1>3
<1>13. /\ g[0] = <<guide[1]>> /\ t = g[n]
       /\ \A k \in 1 .. n :
            g[k] = AddLeg(g[k - 1], guide, k + 1, backwards, keepBranch, terminalYaw)
       /\ \A k \in 0 .. n : g[k] \in Seeds
  BY <1>4, <1>12, Zenon DEF GrowsToPivotSeed
<1>. HIDE DEF guide, t
<1>. DEFINE P == {k \in 0 .. n : Smooth(g[k]) /\ g[k][1] = plan[1]}
<1>5. 0 \in P
  <2>1. Len(g[0]) = 1 /\ g[0][1] = plan[1]
    BY <1>1, <1>13
  <2>2. Smooth(g[0])
    BY <2>1 DEF Smooth
  <2>. QED  BY <2>1, <2>2
<1>6. ASSUME NEW k \in 1 .. n, k - 1 \in P
      PROVE  /\ Smooth(g[k]) /\ g[k][1] = plan[1] /\ Last(g[k]).x = guide[k + 1].x
             /\ k = n => IF keepBranch THEN Last(g[k]).yaw = terminalYaw
                         ELSE Normalize(Last(g[k]).yaw) = Normalize(Last(plan).yaw)
  <2>1. k - 1 \in 0 .. n /\ Smooth(g[k - 1]) /\ g[k - 1][1] = plan[1]
    BY <1>6
  <2>2. PICK s \in Seeds : s = g[k - 1]
    BY <1>13, <2>1
  <2>3. PICK i \in 1 .. Len(guide) : i = k + 1 /\ (i = Len(guide) <=> k = n)
    BY <1>2, <1>3
  <2>4. g[k] = AddLeg(s, guide, i, backwards, keepBranch, terminalYaw)
    BY <1>13, <2>2, <2>3
  <2>5. /\ Smooth(g[k]) /\ g[k][1] = s[1] /\ Last(g[k]).x = guide[i].x
        /\ i = Len(guide) => IF keepBranch THEN Last(g[k]).yaw = terminalYaw
                             ELSE Normalize(Last(g[k]).yaw) = Normalize(guide[i].yaw)
    BY <1>1, <2>1, <2>2, <2>4, LegSmooth
  <2>6. i = Len(guide) => guide[i] = Last(plan)
    BY <1>1 DEF Last
  <2>. QED  BY <2>1, <2>2, <2>3, <2>5, <2>6
<1>7. P = 0 .. n
  <2>1. \A k \in 1 .. n : k - 1 \in P => k \in P
    BY <1>6
  <2>. HIDE DEF P
  <2>2. P \in SUBSET (0 .. n)
    BY DEF P
  <2>. QED  BY <1>5, <2>1, <2>2, IntervalInduction
<1>8. n \in 1 .. n /\ n - 1 \in P
  BY <1>3, <1>7
<1>9. /\ Smooth(t) /\ t[1] = plan[1] /\ Last(t).x = guide[n + 1].x
      /\ IF keepBranch THEN Last(t).yaw = terminalYaw
         ELSE Normalize(Last(t).yaw) = Normalize(Last(plan).yaw)
  <2>. HIDE DEF P
  <2>. QED  BY <1>13, <1>6, <1>8
<1>10. guide[n + 1] = Last(plan)
  <2>1. n + 1 = Len(guide)
    BY <1>2, <1>3
  <2>. QED  BY <1>1, <2>1 DEF Last
<1>11. t \in Seeds
  BY <1>3, <1>13
<1>. QED  BY <1>9, <1>10, <1>11 DEF t

-----------------------------------------------------------------------------
(* initialize() and subdivide() of a differential robot.                   *)

\* A robot that surges and turns and is planned for by itself.
Single == cfg.differential /\ ~Homotopy

\* The seed is pure, nothing is hidden in its heading at the end, and it
\* leads from the start of the plan to its end.
LEMMA SeedInitialized ==
  ASSUME cfg \in ConfigRecords, cfg.differential, NEW plan \in Seq(Samples) \ {<<>>}, NEW goalYaw \in Int,
         NEW keepBranch \in BOOLEAN, NEW terminalYaw \in Int
  PROVE  LET b == Initialized(plan, goalYaw, keepBranch, terminalYaw) IN
         /\ b \in ProperBands /\ Pure(b) /\ Winds(b)
         /\ Pose(b, 0).x = plan[1].x /\ Pose(b, 0).yaw = plan[1].yaw
         /\ BackPose(b).x = Last(plan).x
         /\ IF keepBranch THEN BackPose(b).yaw = terminalYaw
            ELSE Normalize(BackPose(b).yaw) = Normalize(Last(plan).yaw)
<1>. DEFINE s == PivotSeed(plan, cfg.backwards, keepBranch, terminalYaw)
            b == InitTrajectoryToGoal(s, cfg.minSamples)
            w == Winding(b)
            c == [b EXCEPT !.poses[SizePoses(b)].yaw = w]
<1>1. plan \in Seeds
  <2>1. Seq(Samples) \subseteq Seq(Placed)
    BY PosesArePlaced, SeqMonotonic
  <2>. QED  BY <2>1 DEF Seeds
<1>2. cfg.backwards \in BOOLEAN /\ cfg.minSamples \in Nat
  BY DEF ConfigRecords
<1>3. Initialized(plan, goalYaw, keepBranch, terminalYaw) = c
  BY Zenon DEF Initialized
<1>4. /\ s \in Seeds /\ Smooth(s) /\ s[1] = plan[1] /\ Last(s).x = Last(plan).x
      /\ IF keepBranch THEN Last(s).yaw = terminalYaw
         ELSE Normalize(Last(s).yaw) = Normalize(Last(plan).yaw)
  <2>1. PICK back \in BOOLEAN : back = cfg.backwards
    BY <1>2
  <2>2. LET t == PivotSeed(plan, back, keepBranch, terminalYaw) IN
         /\ t \in Seeds /\ Smooth(t) /\ t[1] = plan[1] /\ Last(t).x = Last(plan).x
         /\ IF keepBranch THEN Last(t).yaw = terminalYaw
            ELSE Normalize(Last(t).yaw) = Normalize(Last(plan).yaw)
    BY <1>1, PivotSmooth
  <2>. QED  BY <2>1, <2>2, Zenon
<1>. HIDE DEF s
<1>5. /\ b \in Beginning(s[1].x, s[1].yaw) /\ Pure(b)
      /\ w = Last(s).yaw /\ Alike(BackPose(b), Last(s))
  BY <1>2, <1>4, InitTracks
<1>6. b \in ProperBands /\ b \in TimedBands
  BY <1>2, <1>4, InitTrajectoryToGoalType, ProperIsTimed DEF Seeds
<1>. HIDE DEF b
<1>7. w \in Int /\ Normalize(w) = Normalize(BackPose(b).yaw)
  BY <1>5, <1>6, WindingType DEF Alike
<1>. HIDE DEF w
<1>8. /\ c \in ProperBands /\ AlikeBands(c, b) /\ Pose(c, 0) = Pose(b, 0)
      /\ BackPose(c) = [BackPose(b) EXCEPT !.yaw = w]
  BY <1>6, <1>7, Rewound
<1>. HIDE DEF c
<1>9. BackPose(c).yaw = w /\ BackPose(c).x = BackPose(b).x
  <2>1. BackPose(b) \in PoseRecords
    BY <1>6, Indexed
  <2>. QED  BY <1>8, <2>1 DEF PoseRecords
<1>10. Pure(c) /\ Winding(c) = w
  <2>1. c \in TimedBands
    BY <1>8, ProperIsTimed
  <2>. QED  BY <1>5, <1>6, <1>8, <2>1, AlikeTurns DEF w
<1>11. Pose(c, 0).x = plan[1].x /\ Pose(c, 0).yaw = plan[1].yaw
  BY <1>4, <1>5, <1>8 DEF Beginning
<1>12. BackPose(c).x = Last(plan).x
       /\ IF keepBranch THEN BackPose(c).yaw = terminalYaw
          ELSE Normalize(BackPose(c).yaw) = Normalize(Last(plan).yaw)
  BY <1>4, <1>5, <1>9 DEF Alike
<1>. QED  BY <1>3, <1>8, <1>9, <1>10, <1>11, <1>12 DEF Winds

\* An interval of a pure band that is short enough is a primitive.
LEMMA ShortIsExecutable ==
  ASSUME NEW p \in PoseRecords, NEW q \in PoseRecords, PurePair(p, q),
         Magnitude(Surge(p, q)) <= Quarter, Magnitude(TurnBetween(p, q)) <= Quarter
  PROVE  Executable(p, q)
<1>1. p.x \in Int /\ q.x \in Int /\ p.yaw \in Int
  BY DEF PoseRecords
<1>2. PICK d \in Int : d = q.x - p.x
  BY <1>1
<1>3. CASE p.x = q.x
  <2>1. d = 0
    BY <1>1, <1>2, <1>3
  <2>2. Magnitude(d) <= Quarter
    BY <2>1 DEF Magnitude, Quarter
  <2>. QED  BY <1>2, <1>3, <2>2 DEF Executable
<1>4. CASE TurnBetween(p, q) = 0 /\ Normalize(p.yaw) \in {0, -4}
  <2>1. p.yaw + TurnBetween(p, q) \div 2 = p.yaw
    BY <1>1, <1>4
  <2>2. Surge(p, q) = d * Along(p.yaw)
    BY <1>2, <2>1 DEF Surge
  <2>3. Along(p.yaw) \in {1, -1}
    BY <1>4 DEF Along
  <2>4. Magnitude(d) = Magnitude(Surge(p, q))
    <3>1. Surge(p, q) = d \/ Surge(p, q) = -d
      BY <2>2, <2>3
    <3>. QED  BY <3>1 DEF Magnitude
  <2>. QED  BY <1>2, <1>4, <2>4 DEF Executable
<1>. QED  BY <1>3, <1>4 DEF PurePair

\* A pose inserted behind pose i.
LEMMA HalvedPoses ==
  ASSUME NEW b \in ProperBands, NEW n \in Nat, n = SizeTimeDiffs(b), NEW i \in 0 .. n - 1,
         NEW m \in PoseRecords, NEW half \in Nat
  PROVE  LET c == InsertTimeDiff(InsertPose(SetTimeDiff(b, i, half), i + 1, m), i + 1, half) IN
         /\ c \in ProperBands /\ SizeTimeDiffs(c) = n + 1
         /\ \A k \in 0 .. i : Pose(c, k) = Pose(b, k)
         /\ Pose(c, i + 1) = m
         /\ \A k \in i + 1 .. n : Pose(c, k + 1) = Pose(b, k)
<1>. DEFINE b1 == SetTimeDiff(b, i, half)
            b2 == InsertPose(b1, i + 1, m)
            c == InsertTimeDiff(b2, i + 1, half)
            P == b.poses
<1>1. n >= 1 /\ b \in Sized(n + 1, n) /\ n + 1 \in Nat /\ (n + 1) + 1 \in Nat /\ n + 1 >= 1
      /\ i + 1 \in 0 .. n + 1 /\ i + 1 \in 0 .. n /\ i < n
  BY SizedIsTimed, ProperIsTimed
<1>2. c \in Sized((n + 1) + 1, n + 1)
  BY <1>1, HalvedSize
<1>3. c \in ProperBands /\ SizeTimeDiffs(c) = n + 1
  BY <1>1, <1>2, TimedIsSized, SizedParts
<1>4. P \in Seq(PoseRecords) /\ Len(P) = n + 1
  BY <1>1, SizedParts
<1>5. c.poses = InsertAt(P, (i + 1) + 1, m)
  <2>1. b = [poses |-> b.poses, dts |-> b.dts]
    BY <1>1, SizedParts
  <2>2. b1.poses = P /\ b1 = [poses |-> P, dts |-> b1.dts]
    BY <2>1 DEF SetTimeDiff
  <2>. HIDE DEF b1
  <2>3. b2 = [poses |-> InsertAt(P, (i + 1) + 1, m), dts |-> b1.dts]
    BY <2>2 DEF InsertPose
  <2>. HIDE DEF b2
  <2>. QED  BY <2>3 DEF InsertTimeDiff
<1>6. \A j \in 1 .. (n + 1) + 1 :
         c.poses[j] = IF j < (i + 1) + 1 THEN P[j] ELSE IF j = (i + 1) + 1 THEN m ELSE P[j - 1]
  <2>1. (i + 1) + 1 \in 1 .. (n + 1) + 1
    BY <1>1
  <2>2. PICK N \in Nat, I \in 1 .. (n + 1) + 1 : N = n + 1 /\ I = (i + 1) + 1
    BY <2>1
  <2>. HIDE DEF P
  <2>4. Len(P) = N /\ P \in Seq(PoseRecords) /\ I \in 1 .. N + 1
    BY <1>4, <2>2
  <2>3. MakesRoom(InsertAt(P, I, m), P, N, I, m)
    BY <2>4, Inserted
  <2>5. \A j \in 1 .. (n + 1) + 1 :
          InsertAt(P, (i + 1) + 1, m)[j]
            = IF j < (i + 1) + 1 THEN P[j] ELSE IF j = (i + 1) + 1 THEN m ELSE P[j - 1]
    BY <2>2, <2>3 DEF MakesRoom
  <2>. QED  BY <1>5, <2>5 DEF P
<1>. HIDE DEF c, P
<1>7. \A k \in 0 .. i : Pose(c, k) = Pose(b, k)
  <2>1. ASSUME NEW k \in 0 .. i  PROVE Pose(c, k) = Pose(b, k)
    <3>1. k + 1 \in 1 .. (n + 1) + 1 /\ k + 1 < (i + 1) + 1
      BY <1>1
    <3>. QED  BY <1>6, <3>1 DEF Pose, P
  <2>. QED  BY <2>1
<1>8. Pose(c, i + 1) = m
  <2>1. (i + 1) + 1 \in 1 .. (n + 1) + 1 /\ ~((i + 1) + 1 < (i + 1) + 1)
    BY <1>1
  <2>. QED  BY <1>6, <2>1 DEF Pose
<1>9. \A k \in i + 1 .. n : Pose(c, k + 1) = Pose(b, k)
  <2>1. ASSUME NEW k \in i + 1 .. n  PROVE Pose(c, k + 1) = Pose(b, k)
    <3>1. (k + 1) + 1 \in 1 .. (n + 1) + 1 /\ ~((k + 1) + 1 < (i + 1) + 1)
          /\ (k + 1) + 1 # (i + 1) + 1 /\ ((k + 1) + 1) - 1 = k + 1
      BY <1>1
    <3>. QED  BY <1>6, <3>1 DEF Pose, P
  <2>. QED  BY <2>1
<1>. QED  BY <1>3, <1>7, <1>8, <1>9 DEF c

\* A band stays pure and wound when an interval is halved, and the intervals
\* before it stay what they are.
LEMMA HalvedPure ==
  ASSUME NEW b \in ProperBands, NEW n \in Nat, n = SizeTimeDiffs(b), NEW i \in 0 .. n - 1,
         NEW m \in PoseRecords, NEW half \in Nat, Pure(b),
         m.yaw = Pose(b, i).yaw + TurnBetween(Pose(b, i), Pose(b, i + 1)) \div 2,
         Pose(b, i).x = Pose(b, i + 1).x => m.x = Pose(b, i).x
  PROVE  LET c == InsertTimeDiff(InsertPose(SetTimeDiff(b, i, half), i + 1, m), i + 1, half) IN
         /\ c \in ProperBands /\ SizeTimeDiffs(c) = n + 1
         /\ \A k \in 0 .. i : Pose(c, k) = Pose(b, k)
         /\ BackPose(c) = BackPose(b) /\ Winding(c) = Winding(b) /\ Pure(c)
<1>. DEFINE c == InsertTimeDiff(InsertPose(SetTimeDiff(b, i, half), i + 1, m), i + 1, half)
            from == Pose(b, i)  to == Pose(b, i + 1)
            t1 == TurnBetween(from, m)  t2 == TurnBetween(m, to)
<1>1. /\ c \in ProperBands /\ SizeTimeDiffs(c) = n + 1
      /\ \A k \in 0 .. i : Pose(c, k) = Pose(b, k)
      /\ Pose(c, i + 1) = m
      /\ \A k \in i + 1 .. n : Pose(c, k + 1) = Pose(b, k)
  BY HalvedPoses
<1>. HIDE DEF c
<1>2. b \in TimedBands /\ c \in TimedBands /\ i < n /\ i \in Nat /\ i + 1 \in 1 .. n
  BY <1>1, ProperIsTimed
<1>3. PICK j \in 1 .. n : j = i + 1 /\ j - 1 = i
  BY <1>2
<1>4. from \in PoseRecords /\ to \in PoseRecords /\ TurnBetween(from, to) = Rotation(b, j)
      /\ PurePair(from, to)
  BY <1>2, <1>3, Neighbours DEF Rotation, Pure
<1>5. t1 + t2 = Rotation(b, j) /\ PurePair(from, m) /\ PurePair(m, to)
  BY <1>4, Halfway
<1>6. t1 \in Int /\ t2 \in Int
  BY <1>4, TurnBetweenType
<1>7. PICK u \in [0 .. n -> Int] :
        /\ u[0] = Pose(b, 0).yaw /\ u[n] = Winding(b)
        /\ \A k \in 1 .. n : u[k] = u[k - 1] + Rotation(b, k)
  BY <1>2, WindingSteps
<1>8. Pose(c, i) = from /\ Pose(c, i + 1) = m /\ Pose(c, (i + 1) + 1) = to
  BY <1>1, <1>2
<1>. HIDE DEF from, to, t1, t2
<1>9. ASSUME NEW k \in 1 .. n + 1
      PROVE  \/ k \in 1 .. i /\ k - 1 \in 0 .. i /\ k \in 0 .. i /\ k \in 1 .. n
             \/ k = i + 1 /\ k - 1 = i
             \/ k = (i + 1) + 1 /\ k - 1 = i + 1
             \/ /\ k - 1 \in 1 .. n /\ k - 1 \in i + 1 .. n /\ (k - 1) - 1 \in i + 1 .. n
                /\ ((k - 1) - 1) + 1 = k - 1 /\ (k - 1) + 1 = k /\ k > (i + 1) + 1
  BY <1>2
\* The intervals of the new band.
<1>10. /\ \A k \in 1 .. i : Pose(c, k - 1) = Pose(b, k - 1) /\ Pose(c, k) = Pose(b, k)
       /\ \A k \in 1 .. n + 1 : k > (i + 1) + 1 =>
            Pose(c, k - 1) = Pose(b, (k - 1) - 1) /\ Pose(c, k) = Pose(b, k - 1)
  <2>1. ASSUME NEW k \in 1 .. i  PROVE Pose(c, k - 1) = Pose(b, k - 1) /\ Pose(c, k) = Pose(b, k)
    <3>1. k - 1 \in 0 .. i /\ k \in 0 .. i
      BY <1>2
    <3>. QED  BY <1>1, <3>1
  <2>2. ASSUME NEW k \in 1 .. n + 1, k > (i + 1) + 1
        PROVE  Pose(c, k - 1) = Pose(b, (k - 1) - 1) /\ Pose(c, k) = Pose(b, k - 1)
    <3>1. PICK e \in i + 1 .. n : e = (k - 1) - 1 /\ e + 1 = k - 1
      <4>1. (k - 1) - 1 \in i + 1 .. n /\ ((k - 1) - 1) + 1 = k - 1
        BY <1>2, <2>2
      <4>. QED  BY <4>1
    <3>2. PICK f \in i + 1 .. n : f = k - 1 /\ f + 1 = k
      <4>1. k - 1 \in i + 1 .. n /\ (k - 1) + 1 = k
        BY <1>2, <2>2
      <4>. QED  BY <4>1
    <3>. QED  BY <1>1, <3>1, <3>2
  <2>. QED  BY <2>1, <2>2
<1>11. ASSUME NEW k \in 1 .. n + 1  PROVE PurePair(Pose(c, k - 1), Pose(c, k))
  <2>1. CASE k \in 1 .. i
    <3>1. k \in 1 .. n
      BY <1>2, <2>1
    <3>. QED  BY <1>10, <2>1, <3>1 DEF Pure
  <2>2. CASE k = i + 1
    <3>1. k - 1 = i
      BY <1>2, <2>2
    <3>. QED  BY <1>5, <1>8, <2>2, <3>1
  <2>3. CASE k = (i + 1) + 1
    <3>1. k - 1 = i + 1
      BY <1>2, <2>3
    <3>. QED  BY <1>5, <1>8, <2>3, <3>1
  <2>4. CASE k > (i + 1) + 1
    <3>1. k - 1 \in 1 .. n
      BY <1>2, <2>4
    <3>. QED  BY <1>10, <2>4, <3>1 DEF Pure
  <2>. QED  BY <1>9, <2>1, <2>2, <2>3, <2>4
<1>12. Pure(c)
  BY <1>1, <1>11 DEF Pure
<1>. DEFINE v == [k \in 0 .. n + 1 |-> IF k <= i THEN u[k] ELSE IF k = i + 1 THEN u[i] + t1 ELSE u[k - 1]]
<1>13. ASSUME NEW k \in 1 .. n + 1  PROVE v[k] = v[k - 1] + Rotation(c, k)
  <2>1. CASE k \in 1 .. i
    <3>1. k \in 1 .. n /\ v[k] = u[k] /\ v[k - 1] = u[k - 1]
      BY <1>2, <2>1
    <3>. HIDE DEF v
    <3>2. Rotation(c, k) = Rotation(b, k)
      BY <1>10, <2>1 DEF Rotation
    <3>. QED  BY <1>7, <3>1, <3>2
  <2>2. CASE k = i + 1
    <3>1. k - 1 = i /\ v[k] = u[i] + t1 /\ v[k - 1] = u[i]
      BY <1>2, <2>2
    <3>. HIDE DEF v
    <3>2. Rotation(c, k) = t1
      BY <1>8, <2>2, <3>1 DEF Rotation, t1, from
    <3>. QED  BY <3>1, <3>2
  <2>3. CASE k = (i + 1) + 1
    <3>1. k - 1 = i + 1 /\ v[k] = u[i + 1] /\ v[k - 1] = u[i] + t1
      BY <1>2, <2>3
    <3>. HIDE DEF v
    <3>2. Rotation(c, k) = t2
      BY <1>8, <2>3, <3>1 DEF Rotation, t2
    <3>3. u[i + 1] = u[i] + Rotation(b, j)
      BY <1>3, <1>7
    <3>4. u[i] \in Int
      <4>1. i \in 0 .. n
        BY <1>2
      <4>. QED  BY <4>1
    <3>5. v[k] = u[i] + (t1 + t2) /\ v[k - 1] = u[i] + t1 /\ Rotation(c, k) = t2
      BY <1>5, <3>1, <3>2, <3>3, Zenon
    <3>. QED  BY <1>6, <3>4, <3>5
  <2>4. CASE k > (i + 1) + 1
    <3>1. k - 1 \in 1 .. n /\ v[k] = u[k - 1] /\ v[k - 1] = u[(k - 1) - 1]
      BY <1>2, <2>4
    <3>. HIDE DEF v
    <3>2. Rotation(c, k) = Rotation(b, k - 1)
      BY <1>10, <2>4 DEF Rotation
    <3>. QED  BY <1>7, <3>1, <3>2
  <2>. QED  BY <1>9, <2>1, <2>2, <2>3, <2>4
<1>14. v[0] = Pose(c, 0).yaw /\ v[n + 1] = u[n]
  <2>1. Pose(c, 0) = Pose(b, 0) /\ v[0] = u[0] /\ v[n + 1] = u[n]
    BY <1>1, <1>2
  <2>. QED  BY <1>7, <2>1
<1>. HIDE DEF v
<1>15. Winding(c) = Winding(b)
  BY <1>1, <1>2, <1>7, <1>13, <1>14, WindingOf
<1>16. BackPose(c) = BackPose(b)
  <2>1. n \in i + 1 .. n
    BY <1>2
  <2>. QED  BY <1>1, <1>2, <2>1, LastPose
<1>. QED  BY <1>1, <1>12, <1>15, <1>16 DEF c

\* The band with only its first pose fixed is where it was.
LEMMA FreedAlike ==
  ASSUME NEW b \in ProperBands
  PROVE  LET c == [b EXCEPT !.poses =
                     [k \in DOMAIN b.poses |-> [b.poses[k] EXCEPT !.fixed = (k = 1)]]] IN
         /\ c \in ProperBands /\ AlikeBands(c, b)
         /\ Pose(c, 0).x = Pose(b, 0).x /\ Pose(c, 0).yaw = Pose(b, 0).yaw
         /\ BackPose(c).x = BackPose(b).x /\ BackPose(c).yaw = BackPose(b).yaw
<1>. DEFINE Q == [k \in DOMAIN b.poses |-> [b.poses[k] EXCEPT !.fixed = (k = 1)]]
            c == [b EXCEPT !.poses = Q]
<1>1. c \in ProperBands
  BY FreedProper
<1>2. PICK n \in Nat : n = SizeTimeDiffs(b) /\ SizePoses(b) = n + 1 /\ n >= 1
  BY SizedIsTimed, ProperIsTimed
<1>3. b \in TimedBands /\ b \in Bands /\ c \in TimedBands
  BY <1>1, ProperIsTimed
<1>4. b.poses \in Seq(PoseRecords) /\ Len(b.poses) = n + 1 /\ b = [poses |-> b.poses, dts |-> b.dts]
  <2>. HIDE DEF c, Q
  <2>. QED  BY <1>2, <1>3, BandParts DEF SizePoses
<1>5. c = [poses |-> Q, dts |-> b.dts]
  <2>. HIDE DEF Q
  <2>. QED  BY <1>4
<1>6. ASSUME NEW k \in 1 .. n + 1
      PROVE  Q[k].x = b.poses[k].x /\ Q[k].yaw = b.poses[k].yaw
  <2>1. b.poses[k] \in PoseRecords /\ k \in DOMAIN b.poses
    <3>. HIDE DEF Q
    <3>. QED  BY <1>4, Elements
  <2>2. Q[k] = [b.poses[k] EXCEPT !.fixed = (k = 1)]
    BY <2>1
  <2>. HIDE DEF Q
  <2>. QED  BY <2>1, <2>2 DEF PoseRecords
<1>. HIDE DEF Q
<1>7. SizeTimeDiffs(c) = n /\ c.poses = Q
  BY <1>2, <1>5 DEF SizeTimeDiffs
<1>. HIDE DEF c
<1>8. ASSUME NEW k \in 0 .. n
      PROVE  Pose(c, k).x = Pose(b, k).x /\ Pose(c, k).yaw = Pose(b, k).yaw
  <2>1. k + 1 \in 1 .. n + 1
    OBVIOUS
  <2>. QED  BY <1>6, <1>7, <2>1 DEF Pose
<1>9. AlikeBands(c, b)
  BY <1>2, <1>7, <1>8 DEF AlikeBands, Alike
<1>10. 0 \in 0 .. n /\ n \in 0 .. n /\ BackPose(c) = Pose(c, n) /\ BackPose(b) = Pose(b, n)
  BY <1>2, <1>3, <1>7, LastPose
<1>. QED  BY <1>1, <1>8, <1>9, <1>10 DEF c, Q

-----------------------------------------------------------------------------
(* The seed is feasible.                                                   *)

\* A seed that is subdivided up to interval n.
Started(b, n) ==
  /\ Pure(b) /\ Winds(b) /\ n <= SizeTimeDiffs(b)
  /\ \A i \in 0 .. n - 1 : Executable(Pose(b, i), Pose(b, i + 1))

\* What the band of a call is when no cold seed is left to fall back to.
SeedReady ==
  /\ pc = "subdivide" => Started(band, loop.at)
  /\ pc = "optimize" => Primitives(band) /\ Winds(band)
  /\ pc \notin {"idle", "subdivide", "optimize"} => Feasible(band, requested)

\* The band is feasible, or the cold seed will be.
SeedSound ==
  /\ pc = "idle" => loop = NoLoop
  /\ Single /\ pc # "idle" =>
       /\ pc # "resize"
       /\ IF request.warm /\ ~request.retried
          THEN Pure(request.cold) /\ Winds(request.cold) ELSE SeedReady

\* Subdivision begins with all of the band before it.
LEMMA StartedAtZero ==
  ASSUME NEW b \in ProperBands, Pure(b), Winds(b)
  PROVE  Started(b, 0)
<1>1. SizeTimeDiffs(b) \in Nat
  BY SizedIsTimed, ProperIsTimed
<1>. QED  BY <1>1 DEF Started

\* A seed of primitives leads where its last pose is.
LEMMA PrimitivesFeasible ==
  ASSUME NEW b \in ProperBands, Primitives(b), Winds(b)
  PROVE  Feasible(b, [x |-> BackPose(b).x, yaw |-> BackPose(b).yaw])
<1>1. b \in TimedBands
  BY ProperIsTimed
<1>2. BackPose(Rollout(b)).x = BackPose(b).x /\ BackPose(Rollout(b)).yaw = BackPose(b).yaw
  BY <1>1, RolloutEnds DEF Winds
<1>. QED  BY <1>2 DEF Feasible, Primitives

\* Integrating a feasible band makes it no less feasible.
LEMMA RolloutFeasible ==
  ASSUME NEW b \in ProperBands, NEW goal, Feasible(b, goal)
  PROVE  Feasible(Rollout(b), goal)
<1>. DEFINE c == Rollout(b)
<1>1. b \in TimedBands
  BY ProperIsTimed
<1>2. AlikeBands(c, b) /\ c \in TimedBands /\ Winds(c)
  BY <1>1, RolloutAlike
<1>3. Primitives(b) /\ BackPose(c).x = goal.x /\ BackPose(c).yaw = goal.yaw
  BY DEF Feasible, Primitives
<1>. HIDE DEF c
<1>4. Primitives(c)
  BY <1>1, <1>2, <1>3, AlikeTurns
<1>5. BackPose(Rollout(c)).x = goal.x /\ BackPose(Rollout(c)).yaw = goal.yaw
  BY <1>2, <1>3, RolloutEnds DEF Winds
<1>6. Feasible(c, goal)
  BY <1>4, <1>5 DEF Feasible, Primitives
<1>. QED  BY <1>6 DEF c

\* A seed of which every interval is a primitive.
LEMMA StartedToTheEnd ==
  ASSUME NEW b \in ProperBands, NEW n \in Nat, Started(b, n), ~(n < SizeTimeDiffs(b))
  PROVE  Primitives(b) /\ Winds(b)
<1>1. SizeTimeDiffs(b) \in Nat
  BY SizedIsTimed, ProperIsTimed
<1>2. n = SizeTimeDiffs(b)
  BY <1>1 DEF Started
<1>. QED  BY <1>2 DEF Started, Primitives

\* One more interval is a primitive.
LEMMA StartedOneMore ==
  ASSUME NEW b \in ProperBands, NEW n \in Nat, Started(b, n), n < SizeTimeDiffs(b),
         ~(Magnitude(Surge(Pose(b, n), Pose(b, n + 1))) > Quarter
             \/ Magnitude(TurnBetween(Pose(b, n), Pose(b, n + 1))) > Quarter)
  PROVE  Started(b, n + 1)
<1>. DEFINE p == Pose(b, n)  q == Pose(b, n + 1)
<1>1. SizeTimeDiffs(b) \in Nat /\ b \in TimedBands
  BY SizedIsTimed, ProperIsTimed
<1>2. PICK k \in 1 .. SizeTimeDiffs(b) : k = n + 1 /\ k - 1 = n
  BY <1>1
<1>3. p \in PoseRecords /\ q \in PoseRecords /\ TurnBetween(p, q) \in Int /\ PurePair(p, q)
  BY <1>1, <1>2, Neighbours DEF Started, Pure
<1>4. Surge(p, q) \in Int
  <2>1. q.x - p.x \in Int /\ p.yaw \in Int
    BY <1>3 DEF PoseRecords
  <2>2. TurnBetween(p, q) \div 2 \in Int
    BY <1>3, HalfType
  <2>3. p.yaw + TurnBetween(p, q) \div 2 \in Int
    BY <2>1, <2>2
  <2>4. Along(p.yaw + TurnBetween(p, q) \div 2) \in Int
    BY <2>3, AlongType
  <2>. QED  BY <2>1, <2>4 DEF Surge
<1>5. Magnitude(Surge(p, q)) <= Quarter /\ Magnitude(TurnBetween(p, q)) <= Quarter
  <2>1. Magnitude(Surge(p, q)) \in Int /\ Magnitude(TurnBetween(p, q)) \in Int /\ Quarter \in Int
    BY <1>3, <1>4, MagnitudeType DEF Quarter
  <2>2. ~(Magnitude(Surge(p, q)) > Quarter) /\ ~(Magnitude(TurnBetween(p, q)) > Quarter)
    OBVIOUS
  <2>. QED  BY <2>1, <2>2
<1>6. Executable(p, q)
  BY <1>3, <1>5, ShortIsExecutable
<1>. QED  BY <1>1, <1>6 DEF Started

\* A step of subdivide().
LEMMA SubdivideSeed ==
  ASSUME IInv, Subdivide, Single, SeedReady
  PROVE  SeedReady'
<1>. DEFINE i == loop.at
            from == Pose(band, i)
            to == Pose(band, i + 1)
            angle == TurnBetween(from, to)
            sideways == Along(from.yaw + angle \div 2) = 0
            x == IF sideways THEN from.x ELSE from.x + (to.x - from.x) \div 2
            yaw == from.yaw + angle \div 2
            middle == PoseAt(x, yaw)
            half == Larger(1, TimeDiff(band, i) \div 2)
            halved == InsertTimeDiff(InsertPose(SetTimeDiff(band, i, half), i + 1, middle), i + 1, half)
            freed == [band EXCEPT !.poses =
                        [k \in DOMAIN band.poses |-> [band.poses[k] EXCEPT !.fixed = (k = 1)]]]
<1>1. pc = "subdivide" /\ band \in ProperBands /\ i \in Nat /\ band \in TimedBands
  BY InCall DEF Subdivide
<1>2. Started(band, i)
  BY <1>1 DEF SeedReady
<1>3. CASE i < SizeTimeDiffs(band)
  <2>1. \/ band' = halved /\ UNCHANGED <<loop, pc>>
        \/ /\ ~(Magnitude(Surge(from, to)) > Quarter \/ Magnitude(angle) > Quarter)
           /\ loop' = [loop EXCEPT !.at = i + 1] /\ UNCHANGED <<band, pc>>
    BY <1>3, Zenon DEF Subdivide
  <2>2. CASE band' = halved /\ UNCHANGED <<loop, pc>>
    <3>1. PICK n \in Nat : n = SizeTimeDiffs(band)
      BY <1>1, SizedIsTimed, ProperIsTimed
    <3>2. i \in 0 .. n - 1 /\ n = SizeTimeDiffs(band)
      BY <1>1, <1>3, <3>1
    <3>3. PICK k \in 1 .. n : k = i + 1 /\ k - 1 = i
      BY <3>2
    <3>4. from \in PoseRecords /\ to \in PoseRecords /\ TimeDiff(band, i) \in Nat /\ angle \in -4 .. 3
      BY <1>1, <3>1, <3>3, Neighbours
    <3>5. from.x \in Int /\ from.yaw \in Int /\ to.x \in Int
      BY <3>4 DEF PoseRecords
    <3>6. yaw \in Int
      <4>. HIDE DEF from, to, angle
      <4>. QED  BY <3>4, <3>5
    <3>7. x \in Int /\ (from.x = to.x => x = from.x)
      <4>. HIDE DEF from, to, angle
      <4>1. to.x - from.x \in Int
        BY <3>5
      <4>2. from.x + (to.x - from.x) \div 2 \in Int
        BY <3>5, <4>1, HalfType
      <4>3. from.x = to.x => from.x + (to.x - from.x) \div 2 = from.x
        BY <3>5
      <4>. HIDE DEF sideways
      <4>. QED  BY <3>5, <4>2, <4>3
    <3>8. half \in Nat
      <4>1. TimeDiff(band, i) \div 2 \in Nat /\ 1 \in Nat
        BY <3>4, HalfType
      <4>. QED  BY <4>1, LargerType
    <3>9. middle \in PoseRecords /\ middle.yaw = yaw /\ middle.x = x
      <4>. HIDE DEF x, yaw
      <4>. QED  BY <3>6, <3>7, PoseAtType DEF PoseAt
    <3>10. /\ middle.yaw = Pose(band, i).yaw + TurnBetween(Pose(band, i), Pose(band, i + 1)) \div 2
           /\ Pose(band, i).x = Pose(band, i + 1).x => middle.x = Pose(band, i).x
      <4>. HIDE DEF middle, x
      <4>. QED  BY <3>7, <3>9
    <3>11. /\ halved \in ProperBands /\ SizeTimeDiffs(halved) = n + 1
           /\ \A j \in 0 .. i : Pose(halved, j) = Pose(band, j)
           /\ BackPose(halved) = BackPose(band) /\ Winding(halved) = Winding(band) /\ Pure(halved)
      <4>. HIDE DEF middle, half
      <4>1. Pure(band)
        BY <1>2 DEF Started
      <4>2. PICK m \in PoseRecords, h \in Nat : m = middle /\ h = half
        BY <3>8, <3>9
      <4>3. PICK a \in 0 .. n - 1 : a = i
        BY <3>2
      <4>. HIDE DEF i
      <4>4. LET c == InsertTimeDiff(InsertPose(SetTimeDiff(band, a, h), a + 1, m), a + 1, h) IN
            /\ c \in ProperBands /\ SizeTimeDiffs(c) = n + 1
            /\ \A j \in 0 .. a : Pose(c, j) = Pose(band, j)
            /\ BackPose(c) = BackPose(band) /\ Winding(c) = Winding(band) /\ Pure(c)
        BY <1>1, <3>1, <3>10, <4>1, <4>2, <4>3, HalvedPure
      <4>. QED  BY <4>2, <4>3, <4>4
    <3>. HIDE DEF halved
    <3>12. Started(halved, i)
      <4>1. Winds(halved) /\ i <= n + 1
        BY <1>2, <3>2, <3>11 DEF Started, Winds
      <4>2. ASSUME NEW j \in 0 .. i - 1  PROVE Executable(Pose(halved, j), Pose(halved, j + 1))
        <5>1. j \in 0 .. i /\ j + 1 \in 0 .. i
          BY <3>2
        <5>2. Pose(halved, j) = Pose(band, j) /\ Pose(halved, j + 1) = Pose(band, j + 1)
          BY <3>11, <5>1
        <5>. QED  BY <1>2, <5>2 DEF Started
      <4>. QED  BY <3>11, <4>1, <4>2 DEF Started
    <3>13. Started(band, loop.at)'
      BY <2>2, <3>12
    <3>. QED  BY <1>1, <2>2, <3>13 DEF SeedReady
  <2>3. CASE /\ ~(Magnitude(Surge(from, to)) > Quarter \/ Magnitude(angle) > Quarter)
             /\ loop' = [loop EXCEPT !.at = i + 1] /\ UNCHANGED <<band, pc>>
    <3>1. Started(band, i + 1)
      BY <1>1, <1>2, <1>3, <2>3, StartedOneMore
    <3>2. loop'.at = i + 1
      <4>1. loop \in [at : Nat, rep : 0 .. 99, modified : BOOLEAN, iteration : Nat]
        BY <1>1, InCall
      <4>. QED  BY <2>3, <4>1
    <3>3. Started(band, loop.at)'
      BY <2>3, <3>1, <3>2
    <3>. QED  BY <1>1, <2>3, <3>3 DEF SeedReady
  <2>. QED  BY <2>1, <2>2, <2>3
<1>4. CASE ~(i < SizeTimeDiffs(band))
  <2>1. band' = freed /\ pc' = "optimize"
    BY <1>4, Zenon DEF Subdivide
  <2>2. Primitives(band) /\ Winds(band)
    BY <1>1, <1>2, <1>4, StartedToTheEnd
  <2>3. /\ freed \in ProperBands /\ AlikeBands(freed, band)
        /\ Pose(freed, 0).yaw = Pose(band, 0).yaw /\ BackPose(freed).yaw = BackPose(band).yaw
    BY <1>1, FreedAlike
  <2>. HIDE DEF freed
  <2>4. freed \in TimedBands
    BY <2>3, ProperIsTimed
  <2>5. Primitives(freed) /\ Winding(freed) = Winding(band)
    BY <1>1, <2>2, <2>3, <2>4, AlikeTurns
  <2>6. Winds(freed)
    BY <2>2, <2>3, <2>5 DEF Winds
  <2>7. Primitives(band)' /\ Winds(band)'
    BY <2>1, <2>5, <2>6
  <2>. QED  BY <2>1, <2>7 DEF SeedReady
<1>. QED  BY <1>3, <1>4

\* Which kind of planner it is does not change.
LEMMA SingleSame ==
  ASSUME cfg' = cfg
  PROVE  Single' = Single
BY DEF Single, Homotopy

\* A call that begins.
LEMMA PlanSeed ==
  ASSUME IInv, SeedSound, NEW plan \in cfg.plans, Plan(plan)
  PROVE  SeedSound'
<1>. DEFINE r == Prepare(plan)
            c == IF r.warm THEN ColdBand(r) ELSE r.cold
            q == [r EXCEPT !.cold = c]
            fresh == Initialized(plan, r.goal.yaw, FALSE, r.terminalYaw)
<1>1. cfg \in ConfigRecords /\ plan \in Seq(Samples) \ {<<>>}
  BY ConfigTyped, PlanTyped
<1>2. pc = "idle" /\ band \in {EmptyBand} \cup ProperBands /\ loop = NoLoop
  BY DEF Plan, IInv, CallHasBand, SeedSound
<1>3. r \in RequestRecords /\ r.plan = plan /\ r.retried = FALSE
  BY <1>1, <1>2, PrepareType
<1>4. request' = q /\ (~r.warm => band' = fresh) /\ pc' = AfterSeed /\ loop' = loop /\ cfg' = cfg
  BY DEF Plan
<1>. HIDE DEF r
<1>5. r.goal.yaw \in Int /\ r.terminalYaw \in Int
  BY <1>3 DEF RequestRecords, Samples
<1>6. q.warm = r.warm /\ q.retried = FALSE /\ q.cold = c
  BY <1>3 DEF RequestRecords
<1>. HIDE DEF q, fresh
<1>7. pc' \in {"subdivide", "optimize"} /\ (Single => pc' = "subdivide") /\ loop'.at = 0
  BY <1>2, <1>4 DEF AfterSeed, Single, NoLoop
<1>8. CASE ~Single
  <2>1. ~Single'
    BY <1>4, <1>8, SingleSame
  <2>. QED  BY <1>7, <2>1 DEF SeedSound
<1>9. CASE Single /\ r.warm
  <2>. DEFINE e == Initialized(plan, r.goal.yaw, TRUE, r.terminalYaw)
  <2>1. Pure(e) /\ Winds(e)
    <3>1. TRUE \in BOOLEAN /\ cfg.differential
      BY <1>9 DEF Single
    <3>. QED  BY <1>1, <1>5, <3>1, SeedInitialized
  <2>2. c = e
    BY <1>3, <1>9 DEF ColdBand
  <2>. HIDE DEF e, c
  <2>3. Pure(request'.cold) /\ Winds(request'.cold) /\ request'.warm /\ ~request'.retried
    BY <1>4, <1>6, <1>9, <2>1, <2>2
  <2>4. (Pure(request.cold) /\ Winds(request.cold))'
    BY <2>3
  <2>. QED  BY <1>7, <2>3, <2>4 DEF SeedSound
<1>10. CASE Single /\ ~r.warm
  <2>1. fresh \in ProperBands /\ Pure(fresh) /\ Winds(fresh)
    <3>1. FALSE \in BOOLEAN /\ cfg.differential
      BY <1>10 DEF Single
    <3>. QED  BY <1>1, <1>5, <3>1, SeedInitialized DEF fresh
  <2>2. Started(fresh, 0)
    BY <2>1, StartedAtZero
  <2>3. band' = fresh /\ loop'.at = 0 /\ pc' = "subdivide" /\ ~request'.warm
    BY <1>4, <1>6, <1>7, <1>10
  <2>4. Started(band, loop.at)'
    BY <2>2, <2>3
  <2>. QED  BY <2>3, <2>4 DEF SeedSound, SeedReady
<1>. QED  BY <1>8, <1>9, <1>10

\* A call that fails ends, or falls back to the cold seed.
LEMMA FailSeed ==
  ASSUME IInv, SeedSound, pc # "idle", NEW left, Fail(left), cfg' = cfg
  PROVE  SeedSound'
<1>0. request \in RequestRecords /\ (request.warm => request.cold \in ProperBands)
  BY InCall
<1>1. CASE request.warm /\ ~request.retried
  <2>. DEFINE q == [request EXCEPT !.retried = TRUE]
  <2>1. request' = q /\ band' = request.cold /\ pc' = AfterSeed /\ loop' = NoLoop
    BY <1>1 DEF Fail
  <2>2. q.retried = TRUE
    BY <1>0 DEF RequestRecords
  <2>. HIDE DEF q
  <2>3. CASE ~Single
    <3>1. ~Single' /\ pc' # "idle"
      BY <2>1, <2>3, SingleSame, AfterSeedType
    <3>. QED  BY <3>1 DEF SeedSound
  <2>4. CASE Single
    <3>1. pc' = "subdivide" /\ loop'.at = 0
      BY <2>1, <2>4 DEF AfterSeed, Single, NoLoop
    <3>2. Pure(request.cold) /\ Winds(request.cold)
      BY <1>1, <2>4 DEF SeedSound
    <3>3. Started(request.cold, 0)
      BY <1>0, <1>1, <3>2, StartedAtZero
    <3>4. Started(band, loop.at)'
      BY <2>1, <3>1, <3>3
    <3>. QED  BY <2>1, <2>2, <3>1, <3>4 DEF SeedSound, SeedReady
  <2>. QED  BY <2>3, <2>4
<1>2. CASE ~(request.warm /\ ~request.retried)
  <2>1. pc' = "idle" /\ loop' = NoLoop
    BY <1>2 DEF Fail, Answer
  <2>. QED  BY <2>1 DEF SeedSound
<1>. QED  BY <1>1, <1>2

\* What a step within a call has to show.
LEMMA SeedStep ==
  ASSUME SeedSound, pc # "idle", pc' \notin {"idle", "resize"}, UNCHANGED <<cfg, request>>,
         Single => (SeedReady => SeedReady')
  PROVE  SeedSound'
<1>1. Single' = Single
  BY SingleSame
<1>2. (Pure(request.cold) /\ Winds(request.cold))' = (Pure(request.cold) /\ Winds(request.cold))
  OBVIOUS
<1>. QED  BY <1>1, <1>2 DEF SeedSound

\* A call that ends.
LEMMA SeedEnd ==
  ASSUME pc' = "idle", loop' = NoLoop
  PROVE  SeedSound'
BY DEF SeedSound

\* Every step leaves a feasible band or a cold seed that will be.
LEMMA SeedKept ==
  ASSUME IInv, SeedSound, [Next]_vars
  PROVE  SeedSound'
<1>1. ASSUME NEW plan \in cfg.plans, Plan(plan)  PROVE SeedSound'
  BY <1>1, PlanSeed
<1>2. ASSUME NEW plan \in cfg.plans, OptimizeCandidate(plan)  PROVE SeedSound'
  <2>1. Homotopy /\ cfg' = cfg /\ pc' = "optimize"
    BY <1>2 DEF OptimizeCandidate
  <2>2. ~Single'
    BY <2>1, SingleSame DEF Single
  <2>. QED  BY <2>1, <2>2 DEF SeedSound
<1>3. ASSUME ClearPlanner  PROVE SeedSound'
  BY <1>3 DEF ClearPlanner, SeedSound
<1>4. ASSUME Expire  PROVE SeedSound'
  <2>1. pc # "idle" /\ UNCHANGED <<cfg, band, pc, loop, requested, request>>
    BY <1>4 DEF Expire
  <2>2. SeedReady' = SeedReady /\ Single' = Single
    BY <2>1, SingleSame DEF SeedReady
  <2>3. (Pure(request.cold) /\ Winds(request.cold))' = (Pure(request.cold) /\ Winds(request.cold))
    BY <2>1
  <2>. QED  BY <2>1, <2>2, <2>3 DEF SeedSound
<1>5. ASSUME Subdivide  PROVE SeedSound'
  <2>1. pc = "subdivide" /\ pc' \in {"subdivide", "optimize"} /\ UNCHANGED <<cfg, request>>
    BY <1>5, Zenon DEF Subdivide
  <2>. QED  BY <1>5, <2>1, SubdivideSeed, SeedStep
<1>6. ASSUME Optimize  PROVE SeedSound'
  <2>1. pc = "optimize" /\ cfg' = cfg
    BY <1>6 DEF Optimize
  <2>2. CASE cfg.activate
    <3>. DEFINE s == [x |-> BackPose(band).x, yaw |-> BackPose(band).yaw]
    <3>1. requested' = s /\ pc' = "iterate" /\ UNCHANGED <<band, loop, request, answer>>
      BY <1>6, <2>2 DEF Optimize
    <3>2. ASSUME SeedReady  PROVE SeedReady'
      <4>1. Feasible(band, s)
        BY <2>1, <3>2, InCall, PrimitivesFeasible DEF SeedReady
      <4>. HIDE DEF s
      <4>2. Feasible(band, requested)'
        BY <3>1, <4>1
      <4>. QED  BY <3>1, <4>2 DEF SeedReady
    <3>. QED  BY <2>1, <3>1, <3>2, SeedStep
  <2>3. CASE ~cfg.activate
    <3>1. Fail({band})
      BY <1>6, <2>3 DEF Optimize
    <3>. QED  BY <2>1, <3>1, FailSeed
  <2>. QED  BY <2>2, <2>3
<1>7. ASSUME Iterate  PROVE SeedSound'
  <2>1. pc = "iterate" /\ UNCHANGED <<cfg, band, requested>>
    BY <1>7 DEF Iterate
  <2>2. CASE loop.iteration < cfg.outer
    <3>1. pc' = (IF cfg.autosize /\ ~cfg.differential THEN "resize" ELSE "build")
          /\ UNCHANGED <<loop, request, answer>>
      BY <1>7, <2>2 DEF Iterate
    <3>2. CASE Single
      <4>1. pc' = "build"
        BY <3>1, <3>2 DEF Single
      <4>2. SeedReady => SeedReady'
        BY <2>1, <4>1 DEF SeedReady
      <4>. QED  BY <2>1, <3>1, <4>1, <4>2, SeedStep
    <3>3. CASE ~Single
      BY <2>1, <3>1, <3>3, SingleSame DEF SeedSound
    <3>. QED  BY <3>2, <3>3
  <2>3. CASE ~(loop.iteration < cfg.outer)
    BY <1>7, <2>3, SeedEnd DEF Iterate, Answer
  <2>. QED  BY <2>2, <2>3
<1>8. ASSUME Resize  PROVE SeedSound'
  <2>1. pc = "resize" /\ pc' \in {"resize", "build"} /\ cfg' = cfg
    BY <1>8, Zenon DEF Resize
  <2>2. ~Single'
    BY <2>1, SingleSame DEF SeedSound
  <2>. QED  BY <2>1, <2>2 DEF SeedSound
<1>9. ASSUME Build  PROVE SeedSound'
  <2>1. pc = "build" /\ graph = EmptyGraph /\ UNCHANGED <<cfg, requested>>
    BY <1>9 DEF Build, IInv, GraphOfSize
  <2>2. pc' = "prepare" /\ UNCHANGED <<band, loop, request, answer>>
    BY <1>9, <2>1 DEF Build
  <2>3. SeedReady => SeedReady'
    BY <2>1, <2>2 DEF SeedReady
  <2>. QED  BY <2>1, <2>2, <2>3, SeedStep
<1>10. ASSUME PrepareSolve  PROVE SeedSound'
  <2>1. pc = "prepare" /\ UNCHANGED <<cfg, requested>>
    BY <1>10 DEF PrepareSolve
  <2>2. Fail({band}) \/ (pc' = "solve" /\ UNCHANGED <<band, loop, request>>)
    BY <1>10, Zenon DEF PrepareSolve
  <2>3. CASE Fail({band})
    BY <2>1, <2>3, FailSeed
  <2>4. CASE pc' = "solve" /\ UNCHANGED <<band, loop, request>>
    <3>1. SeedReady => SeedReady'
      BY <2>1, <2>4 DEF SeedReady
    <3>. QED  BY <2>1, <2>4, <3>1, SeedStep
  <2>. QED  BY <2>2, <2>3, <2>4
<1>11. ASSUME MoveVertex  PROVE SeedSound'
  <2>1. pc = "solve" /\ pc' = "solve" /\ cfg' = cfg /\ ~Single
    BY <1>11 DEF MoveVertex, Single
  <2>. QED  BY <2>1, SingleSame DEF SeedSound
<1>12. ASSUME MoveControl  PROVE SeedSound'
  <2>1. pc = "solve" /\ pc' = "solve" /\ UNCHANGED <<cfg, requested, request>>
    BY <1>12 DEF MoveControl
  <2>2. PICK c : Feasible(c, requested) /\ band' = c
    BY <1>12, Zenon DEF MoveControl
  <2>3. Feasible(band, requested)'
    BY <2>1, <2>2
  <2>4. SeedReady'
    BY <2>1, <2>3 DEF SeedReady
  <2>. QED  BY <2>1, <2>4, SeedStep
<1>13. ASSUME Solved  PROVE SeedSound'
  <2>1. pc = "solve" /\ UNCHANGED <<cfg, requested>>
        /\ (cfg.differential => Feasible(band, requested) /\ band' = Rollout(band))
    BY <1>13 DEF Solved
  <2>2. Answer(TRUE) \/ (pc' = "iterate" /\ UNCHANGED request)
    BY <1>13, Zenon DEF Solved
  <2>3. CASE Answer(TRUE)
    BY <2>3, SeedEnd DEF Answer
  <2>4. CASE pc' = "iterate" /\ UNCHANGED request
    <3>1. CASE Single
      <4>. DEFINE c == Rollout(band)
      <4>1. band' = c /\ Feasible(c, requested)
        BY <2>1, <3>1, InCall, RolloutFeasible DEF Single
      <4>. HIDE DEF c
      <4>2. Feasible(band, requested)'
        BY <2>1, <4>1
      <4>3. SeedReady'
        BY <2>4, <4>2 DEF SeedReady
      <4>. QED  BY <2>1, <2>4, <4>3, SeedStep
    <3>2. CASE ~Single
      BY <2>1, <2>4, <3>2, SingleSame DEF SeedSound
    <3>. QED  BY <3>1, <3>2
  <2>. QED  BY <2>2, <2>3, <2>4
<1>14. ASSUME Unsolved  PROVE SeedSound'
  <2>. DEFINE left == IF cfg.differential
                      THEN {Moved(band, SizePoses(band) - 1, x, BackPose(band).yaw) : x \in Positions}
                      ELSE {band}
  <2>1. pc = "solve" /\ cfg' = cfg /\ Fail(left)
    BY <1>14, Zenon DEF Unsolved
  <2>. HIDE DEF left
  <2>. QED  BY <2>1, FailSeed
<1>15. ASSUME UNCHANGED vars  PROVE SeedSound'
  <2>1. UNCHANGED <<cfg, band, pc, loop, requested, request>>
    BY <1>15 DEF vars
  <2>2. SeedReady' = SeedReady /\ Single' = Single
    BY <2>1, SingleSame DEF SeedReady
  <2>3. (Pure(request.cold) /\ Winds(request.cold))' = (Pure(request.cold) /\ Winds(request.cold))
    BY <2>1
  <2>. QED  BY <2>1, <2>2, <2>3 DEF SeedSound
<1>. QED  BY <1>1, <1>2, <1>3, <1>4, <1>5, <1>6, <1>7, <1>8, <1>9, <1>10, <1>11, <1>12, <1>13, <1>14,
          <1>15 DEF Next, Call, Step, Finish

\* There is always a feasible band or a cold seed that will be.
LEMMA SeedHolds ==
  Spec => []SeedSound
<1>1. Init => SeedSound
  BY DEF Init, SeedSound
<1>2. IInv /\ SeedSound /\ [Next]_vars => SeedSound'
  BY SeedKept
<1>. QED  BY <1>1, <1>2, InvariantHolds, PTL DEF Spec

\* Every way out of a call of a robot that surges and turns answers true.
LEMMA CallSucceeds ==
  ASSUME IInv, SeedSound, [Next]_vars, pc # "idle", pc' = "idle", Single, cfg.activate
  PROVE  answer'
<1>1. Subdivide => FALSE
  <2>1. SUFFICES ASSUME Subdivide  PROVE pc' # "idle"
    OBVIOUS
  <2>. QED  BY <2>1, Zenon DEF Subdivide
<1>2. Optimize => FALSE
  BY DEF Optimize
<1>3. Iterate => answer'
  BY DEF Iterate, Answer
<1>4. Resize => FALSE
  <2>1. SUFFICES ASSUME Resize  PROVE pc' # "idle"
    OBVIOUS
  <2>2. pc = "resize" /\ pc' \in {"resize", "build"}
    BY <2>1, Zenon DEF Resize
  <2>. QED  BY <2>2
<1>5. Build => FALSE
  BY DEF Build, IInv, GraphOfSize
<1>6. PrepareSolve => FALSE
  <2>1. SUFFICES ASSUME PrepareSolve  PROVE pc' # "idle"
    OBVIOUS
  <2>2. band \in ProperBands
    BY InCall
  <2>3. ~(SizeTimeDiffs(band) < 1)
    BY <2>2, SizedIsTimed, ProperIsTimed
  <2>4. cfg.differential
    BY DEF Single
  <2>5. pc' = "solve"
    BY <2>1, <2>3, <2>4, Zenon DEF PrepareSolve
  <2>. QED  BY <2>5
<1>7. Solved => answer'
  BY DEF Solved, Answer
<1>8. Unsolved => FALSE
  <2>1. SUFFICES ASSUME Unsolved  PROVE pc' # "idle"
    OBVIOUS
  <2>. DEFINE left == IF cfg.differential
                      THEN {Moved(band, SizePoses(band) - 1, x, BackPose(band).yaw) : x \in Positions}
                      ELSE {band}
  <2>2. pc = "solve" /\ Fail(left) /\ ~Feasible(band, requested)
    BY <2>1, Zenon DEF Unsolved, Single
  <2>. HIDE DEF left
  <2>3. request.warm /\ ~request.retried
    BY <2>2 DEF SeedSound, SeedReady
  <2>. QED  BY <2>2, <2>3, AfterSeedType DEF Fail
<1>9. (\A plan \in cfg.plans : ~Plan(plan) /\ ~OptimizeCandidate(plan)) /\ ~ClearPlanner
      /\ ~Expire /\ ~MoveVertex /\ ~MoveControl /\ ~UNCHANGED vars
  BY DEF Plan, OptimizeCandidate, ClearPlanner, Expire, MoveVertex, MoveControl, vars
<1>. QED  BY <1>1, <1>2, <1>3, <1>4, <1>5, <1>6, <1>7, <1>8, <1>9 DEF Next, Call, Step, Finish

\* plan() of a robot that surges and turns does not fail while optimization
\* is on: when no better candidate is found the seed, or at last the cold
\* seed, is feasible.
THEOREM SeedsAreFeasible == Spec => SeedAlwaysFeasible
<1>1. IInv /\ SeedSound /\ [Next]_vars
        => [pc # "idle" /\ pc' = "idle" /\ cfg.differential /\ ~Homotopy /\ cfg.activate => answer']_vars
  BY CallSucceeds DEF Single
<1>. QED  BY <1>1, InvariantHolds, SeedHolds, PTL DEF Spec, SeedAlwaysFeasible

-----------------------------------------------------------------------------
(* The turn that was asked for.                                            *)

\* A wrapped difference leads to the wrapped heading.
LEMMA Rewrapped ==
  ASSUME NEW a \in Int, NEW b \in Int
  PROVE  Normalize(a + Normalize(b - a)) = Normalize(b)
BY TurnEnds

\* A heading is unwound to a wrapped one that it already has.
LEMMA WrappedAlready ==
  ASSUME NEW a \in Int
  PROVE  a + Normalize(Normalize(a) - a) = a
<1>1. Normalize(a) \in Int
  BY NormalizeType
<1>2. PICK q \in Int : a = Normalize(a) + 8 * q
  BY NormalizeCongruent
<1>3. PICK d \in Int : d = Normalize(a) - a
  BY <1>1
<1>4. d = 0 + 8 * (-q) /\ 0 \in -4 .. 3 /\ -q \in Int
  BY <1>1, <1>2, <1>3
<1>5. Normalize(d) = 0
  BY <1>4, NormalizeUnique
<1>. QED  BY <1>3, <1>5

\* The start of a call and the start of the plan look the same way, so the
\* goal and the end of the cold seed do.
LEMMA Shifted ==
  ASSUME NEW g \in Int, NEW s \in Int, NEW f \in Int, Normalize(s) = Normalize(f)
  PROVE  Normalize(g - s + f) = Normalize(g)
<1>1. PICK i \in Int : g = Normalize(g) + 8 * i
  BY NormalizeCongruent
<1>2. PICK j \in Int : s = Normalize(s) + 8 * j
  BY NormalizeCongruent
<1>3. PICK k \in Int : f = Normalize(f) + 8 * k
  BY NormalizeCongruent
<1>4. Normalize(g) \in -4 .. 3 /\ Normalize(s) \in Int
  BY NormalizeType
<1>. DEFINE t == g - s + f  q == i - j + k
<1>5. t \in Int /\ q \in Int /\ t = Normalize(g) + 8 * q
  BY <1>1, <1>2, <1>3, <1>4
<1>. HIDE DEF t, q
<1>6. Normalize(t) = Normalize(g)
  BY <1>4, <1>5, NormalizeUnique
<1>. QED  BY <1>6 DEF t

\* Two turns that differ by less than half a turn and are the same when
\* wrapped are the same.
LEMMA SameTurn ==
  ASSUME NEW a \in Int, NEW b \in Int, a - b \in -4 .. 3, Normalize(a) = Normalize(b)
  PROVE  a = b
<1>1. PICK i \in Int : a = Normalize(a) + 8 * i
  BY NormalizeCongruent
<1>2. PICK j \in Int : b = Normalize(b) + 8 * j
  BY NormalizeCongruent
<1>3. Normalize(a) \in Int
  BY NormalizeType
<1>. QED  BY <1>1, <1>2, <1>3

\* What the request says of the plan, and of the turn of the old band.
AsksFor(r, plan) ==
  /\ r.start.x = plan[1].x /\ Normalize(r.start.yaw) = Normalize(plan[1].yaw)
  /\ r.goal.x = Last(plan).x /\ Normalize(r.goal.yaw) = Normalize(Last(plan).yaw)
  /\ r.terminalYaw = r.goal.yaw - r.start.yaw + plan[1].yaw
  /\ r.warm /\ cfg.differential /\ r.oldTurn # Null
       /\ Normalize(r.goal.yaw - r.start.yaw) = Normalize(r.oldTurn)
       => r.goal.yaw - r.start.yaw = r.oldTurn

\* However it is wound, the heading at the end is the one asked for.
LEMMA TerminalHeadingEnds ==
  ASSUME NEW plan \in Seq(Samples) \ {<<>>}
  PROVE  Normalize(TerminalHeading(plan)) = Normalize(Last(plan).yaw)
<1>1. PICK n \in Nat : n = Len(plan) - 1
  BY PlanEnds
<1>2. \A i \in 1 .. n + 1 : plan[i].yaw \in Int
  <2>1. Len(plan) \in Nat \ {0} /\ \A i \in 1 .. Len(plan) : plan[i] \in Samples
    BY PlanEnds
  <2>. QED  BY <1>1, <2>1 DEF Samples
<1>3. Last(plan) = plan[n + 1] /\ 1 \in 1 .. n + 1 /\ n + 1 \in 1 .. n + 1
  BY <1>1, PlanEnds DEF Last
<1>4. PICK g : /\ g[0] = plan[1].yaw /\ SummedHeading(plan) = g[n]
               /\ \A k \in 1 .. n : g[k] = g[k - 1] + Normalize(plan[k + 1].yaw - plan[k].yaw)
               /\ \A k \in 0 .. n : g[k] \in Int
  BY <1>1, SummedHeadingSteps
<1>. DEFINE P == {k \in 0 .. n : Normalize(g[k]) = Normalize(plan[k + 1].yaw)}
<1>5. P \in SUBSET (0 .. n) /\ 0 \in P
  <2>1. 0 \in 0 .. n /\ 0 + 1 = 1
    OBVIOUS
  <2>. QED  BY <1>4, <2>1, Zenon
<1>6. ASSUME NEW k \in 1 .. n, k - 1 \in P  PROVE k \in P
  <2>1. k - 1 \in 0 .. n /\ k \in 0 .. n /\ (k - 1) + 1 = k /\ k \in 1 .. n + 1 /\ k + 1 \in 1 .. n + 1
    OBVIOUS
  <2>2. PICK a \in Int : a = g[k - 1]
    BY <1>4, <2>1
  <2>3. PICK b \in Int : b = plan[k].yaw
    BY <1>2, <2>1
  <2>4. PICK c \in Int : c = plan[k + 1].yaw
    BY <1>2, <2>1
  <2>5. Normalize(a) = Normalize(b)
    BY <1>6, <2>1, <2>2, <2>3
  <2>6. Normalize(a + Normalize(c - b)) = Normalize(c)
    BY <2>5, TurnEnds
  <2>7. g[k] = a + Normalize(c - b)
    BY <1>4, <2>2, <2>3, <2>4
  <2>. QED  BY <2>1, <2>4, <2>6, <2>7
<1>. HIDE DEF P
<1>7. P = 0 .. n
  BY <1>5, <1>6, IntervalInduction
<1>8. Normalize(SummedHeading(plan)) = Normalize(Last(plan).yaw)
  <2>1. n \in P
    BY <1>7
  <2>. QED  BY <1>3, <1>4, <2>1 DEF P
<1>9. Normalize(plan[1].yaw + Normalize(Last(plan).yaw - plan[1].yaw)) = Normalize(Last(plan).yaw)
  <2>1. PICK a \in Int : a = plan[1].yaw
    BY <1>2, <1>3
  <2>2. PICK b \in Int : b = Last(plan).yaw
    BY <1>2, <1>3
  <2>3. Normalize(a + Normalize(b - a)) = Normalize(b)
    BY Rewrapped
  <2>. QED  BY <2>1, <2>2, <2>3
<1>. QED  BY <1>8, <1>9 DEF TerminalHeading

\* The goal of a request turns from its start as the plan and, with a warm
\* start, the old band do.
LEMMA PrepareParts ==
  ASSUME cfg \in ConfigRecords, band \in {EmptyBand} \cup ProperBands,
         NEW plan \in Seq(Samples) \ {<<>>}
  PROVE  AsksFor(Prepare(plan), plan)
<1>. DEFINE first == plan[1]
            wanted == Last(plan)
            branch == TerminalHeading(plan)
            warm == /\ IsInit(band)
                    /\ Magnitude(wanted.x - BackPose(band).x) < cfg.reinitDistance
                    /\ Magnitude(Normalize(branch - BackPose(band).yaw)) < cfg.reinitAngle
            startYaw == IF warm /\ cfg.differential
                        THEN Pose(band, 0).yaw + Normalize(first.yaw - Pose(band, 0).yaw)
                        ELSE first.yaw
            goalYaw == IF warm THEN BackPose(band).yaw + Normalize(branch - BackPose(band).yaw)
                       ELSE branch
            same == IsInit(band) /\ first = [x |-> Pose(band, 0).x,
                                             yaw |-> Normalize(Pose(band, 0).yaw)]
            oldTurn == IF same THEN BackPose(band).yaw - Pose(band, 0).yaw ELSE Null
            r == Prepare(plan)
<1>1. first \in Samples /\ wanted \in Samples
  BY PlanEnds
<1>2. first.x \in Int /\ first.yaw \in Int /\ wanted.x \in Int /\ wanted.yaw \in Int
  BY <1>1 DEF Samples
<1>3. branch \in Int /\ Normalize(branch) = Normalize(wanted.yaw)
  BY TerminalHeadingType, TerminalHeadingEnds
<1>4. ASSUME IsInit(band)
      PROVE  BackPose(band).yaw \in Int /\ Pose(band, 0).yaw \in Int
  <2>1. band \in TimedBands
    BY <1>4, InitIsProper, ProperIsTimed
  <2>. QED  BY <2>1, Indexed, FirstPose DEF PoseRecords
<1>5. r = [plan |-> plan, warm |-> warm, retried |-> FALSE, cold |-> Null,
           start |-> [x |-> first.x, yaw |-> startYaw],
           goal |-> [x |-> wanted.x, yaw |-> goalYaw],
           terminalYaw |-> goalYaw - startYaw + first.yaw, oldTurn |-> oldTurn]
  BY Zenon DEF Prepare
<1>6. warm => IsInit(band)
  OBVIOUS
<1>. HIDE DEF r
<1>7. startYaw \in Int /\ Normalize(startYaw) = Normalize(first.yaw)
  <2>1. CASE warm /\ cfg.differential
    <3>1. first.yaw \in Int /\ Pose(band, 0).yaw \in Int
      BY <1>2, <1>4, <2>1
    <3>2. PICK a \in Int, b \in Int : a = Pose(band, 0).yaw /\ b = first.yaw
      BY <3>1
    <3>3. b - a \in Int
      OBVIOUS
    <3>4. Normalize(b - a) \in Int
      BY <3>3, NormalizeType
    <3>5. Normalize(a + Normalize(b - a)) = Normalize(b)
      BY Rewrapped
    <3>6. startYaw = Pose(band, 0).yaw + Normalize(first.yaw - Pose(band, 0).yaw)
      BY <2>1
    <3>. HIDE DEF startYaw, first
    <3>. QED  BY <3>2, <3>4, <3>5, <3>6
  <2>2. CASE ~(warm /\ cfg.differential)
    <3>1. startYaw = first.yaw
      BY <2>2
    <3>. QED  BY <1>2, <3>1
  <2>. QED  BY <2>1, <2>2
<1>8. goalYaw \in Int /\ Normalize(goalYaw) = Normalize(wanted.yaw)
  <2>. HIDE DEF branch, wanted, warm
  <2>1. CASE warm
    <3>1. BackPose(band).yaw \in Int
      BY <1>4, <1>6, <2>1
    <3>2. PICK a \in Int, b \in Int : a = BackPose(band).yaw /\ b = branch
      BY <1>3, <3>1
    <3>3. b - a \in Int
      OBVIOUS
    <3>4. Normalize(b - a) \in Int
      BY <3>3, NormalizeType
    <3>5. Normalize(a + Normalize(b - a)) = Normalize(b)
      BY Rewrapped
    <3>6. goalYaw = BackPose(band).yaw + Normalize(branch - BackPose(band).yaw)
      BY <2>1
    <3>. HIDE DEF goalYaw
    <3>. QED  BY <1>3, <3>2, <3>4, <3>5, <3>6
  <2>2. CASE ~warm
    BY <1>3, <2>2
  <2>. QED  BY <2>1, <2>2
<1>9. ASSUME warm, cfg.differential, oldTurn # Null,
             Normalize(goalYaw - startYaw) = Normalize(oldTurn)
      PROVE  goalYaw - startYaw = oldTurn
  <2>. DEFINE b0 == Pose(band, 0).yaw  bn == BackPose(band).yaw
  <2>1. same
    BY <1>9
  <2>2. oldTurn = bn - b0 /\ b0 \in Int /\ bn \in Int
    BY <1>4, <1>6, <1>9, <2>1
  <2>3. startYaw = b0
    <3>1. first.yaw = Normalize(b0)
      BY <2>1
    <3>2. startYaw = b0 + Normalize(Normalize(b0) - b0)
      <4>1. startYaw = b0 + Normalize(first.yaw - b0)
        BY <1>9
      <4>. HIDE DEF startYaw, b0, first
      <4>. QED  BY <3>1, <4>1
    <3>. HIDE DEF startYaw, b0
    <3>3. PICK a \in Int : a = b0
      BY <2>2
    <3>. QED  BY <3>2, <3>3, WrappedAlready
  <2>4. PICK d \in -4 .. 3 : goalYaw = bn + d
    <3>1. goalYaw = bn + Normalize(branch - bn)
      BY <1>9
    <3>. HIDE DEF goalYaw, branch, bn
    <3>2. branch - bn \in Int
      BY <1>3, <2>2
    <3>3. Normalize(branch - bn) \in -4 .. 3
      BY <3>2, NormalizeType
    <3>. QED  BY <3>1, <3>3
  <2>5. PICK a \in Int, b \in Int : a = goalYaw - startYaw /\ b = oldTurn
    <3>. HIDE DEF goalYaw, startYaw, oldTurn, b0, bn
    <3>. QED  BY <1>7, <1>8, <2>2
  <2>6. Normalize(a) = Normalize(b)
    <3>. HIDE DEF goalYaw, startYaw, oldTurn
    <3>. QED  BY <1>9, <2>5
  <2>. HIDE DEF goalYaw, startYaw, oldTurn, b0, bn
  <2>7. a - b \in -4 .. 3
    BY <1>7, <2>2, <2>3, <2>4, <2>5
  <2>8. a = b
    BY <2>6, <2>7, SameTurn
  <2>. QED  BY <2>5, <2>8
<1>. HIDE DEF warm, startYaw, goalYaw, same, oldTurn, first, wanted
<1>10. /\ r.start.x = first.x /\ r.start.yaw = startYaw /\ r.goal.x = wanted.x /\ r.goal.yaw = goalYaw
       /\ r.terminalYaw = goalYaw - startYaw + first.yaw /\ r.oldTurn = oldTurn /\ r.warm = warm
  BY <1>5
<1>11. r.warm /\ cfg.differential /\ r.oldTurn # Null
         /\ Normalize(r.goal.yaw - r.start.yaw) = Normalize(r.oldTurn)
         => r.goal.yaw - r.start.yaw = r.oldTurn
  BY <1>9, <1>10
<1>12. r.start.x = first.x /\ Normalize(r.start.yaw) = Normalize(first.yaw)
       /\ r.goal.x = wanted.x /\ Normalize(r.goal.yaw) = Normalize(wanted.yaw)
       /\ r.terminalYaw = r.goal.yaw - r.start.yaw + first.yaw
  BY <1>7, <1>8, <1>10
<1>13. AsksFor(r, plan)
  BY <1>11, <1>12 DEF AsksFor, first, wanted
<1>. QED  BY <1>13 DEF r

\* The angle by which a band turns.
TurnOf(b) == BackPose(b).yaw - Pose(b, 0).yaw
TurnAsked == request.goal.yaw - request.start.yaw

\* A warm start turns as it was asked to, at every step of the call, and so
\* does the cold seed it may fall back to.
TurnSound ==
  Single /\ pc # "idle" /\ request.warm =>
    /\ request.oldTurn # Null /\ Normalize(TurnAsked) = Normalize(request.oldTurn)
         => TurnAsked = request.oldTurn
    /\ ~request.retried => TurnOf(request.cold) = TurnAsked
    /\ TurnOf(band) = TurnAsked
    /\ pc \notin {"subdivide", "optimize"} => BackPose(band).yaw = requested.yaw

\* The headings at both ends of a band are integers.
LEMMA EndHeadings ==
  ASSUME NEW b \in ProperBands
  PROVE  BackPose(b).yaw \in Int /\ Pose(b, 0).yaw \in Int
<1>1. b \in TimedBands
  BY ProperIsTimed
<1>. QED  BY <1>1, Indexed, FirstPose DEF PoseRecords

\* A call that begins.
LEMMA PlanTurn ==
  ASSUME IInv, NEW plan \in cfg.plans, Plan(plan)
  PROVE  TurnSound'
<1>. DEFINE r == Prepare(plan)
            c == IF r.warm THEN ColdBand(r) ELSE r.cold
            q == [r EXCEPT !.cold = c]
            updated == UpdateAndPruneTEB(band, r.start, r.goal, cfg.minSamples, cfg.differential)
<1>1. cfg \in ConfigRecords /\ plan \in Seq(Samples) \ {<<>>}
  BY ConfigTyped, PlanTyped
<1>2. pc = "idle" /\ band \in {EmptyBand} \cup ProperBands
  BY DEF Plan, IInv, CallHasBand
<1>3. r \in RequestRecords /\ r.plan = plan /\ (r.warm => band \in ProperBands)
  BY <1>1, <1>2, PrepareType
<1>4. AsksFor(r, plan)
  BY <1>1, <1>2, PrepareParts
<1>5. request' = q /\ (r.warm => band' = updated) /\ pc' = AfterSeed /\ cfg' = cfg
  BY DEF Plan
<1>. HIDE DEF r
<1>6. r.start \in Samples /\ r.goal \in Samples /\ r.goal.yaw \in Int /\ r.start.yaw \in Int
      /\ r.terminalYaw \in Int
  BY <1>3 DEF RequestRecords, Samples
<1>7. q.warm = r.warm /\ q.cold = c /\ q.start = r.start /\ q.goal = r.goal /\ q.oldTurn = r.oldTurn
  BY <1>3 DEF RequestRecords
<1>. HIDE DEF q
<1>8. SUFFICES ASSUME Single, r.warm  PROVE TurnSound'
  <2>1. ASSUME ~(Single /\ r.warm)  PROVE TurnSound'
    BY <1>5, <1>7, <2>1, SingleSame DEF TurnSound
  <2>. QED  BY <2>1
<1>9. /\ Pose(updated, 0).yaw = r.start.yaw /\ BackPose(updated).yaw = r.goal.yaw
  <2>1. cfg.minSamples \in Nat /\ cfg.minSamples >= 2 /\ cfg.differential \in BOOLEAN
    <3>1. cfg.minSamples \in Nat \ (0 .. 2) /\ cfg.differential \in BOOLEAN
      BY <1>1 DEF ConfigRecords
    <3>. QED  BY <3>1
  <2>2. PICK s \in Nat, timed \in BOOLEAN : s = cfg.minSamples /\ timed = cfg.differential
    BY <2>1
  <2>3. LET u == UpdateAndPruneTEB(band, r.start, r.goal, s, timed) IN
         /\ u \in ProperBands
         /\ Pose(u, 0).x = r.start.x /\ Pose(u, 0).yaw = r.start.yaw
         /\ Pose(u, 0).fixed = Pose(band, 0).fixed
         /\ BackPose(u).x = r.goal.x /\ BackPose(u).yaw = r.goal.yaw
         /\ BackPose(u).fixed = BackPose(band).fixed
    BY <1>3, <1>6, <1>8, <2>1, <2>2, UpdateAndPruneTEBEnds
  <2>. QED  BY <2>2, <2>3, Zenon
<1>10. Pose(c, 0).yaw = plan[1].yaw /\ BackPose(c).yaw = r.terminalYaw
  <2>. DEFINE e == Initialized(plan, r.goal.yaw, TRUE, r.terminalYaw)
  <2>1. TRUE \in BOOLEAN /\ cfg.differential
    BY <1>8 DEF Single
  <2>2. PICK g \in Int, t \in Int : g = r.goal.yaw /\ t = r.terminalYaw
    BY <1>6
  <2>3. LET b == Initialized(plan, g, TRUE, t) IN
         /\ b \in ProperBands /\ Pure(b) /\ Winds(b)
         /\ Pose(b, 0).x = plan[1].x /\ Pose(b, 0).yaw = plan[1].yaw
         /\ BackPose(b).x = Last(plan).x
         /\ IF TRUE THEN BackPose(b).yaw = t
            ELSE Normalize(BackPose(b).yaw) = Normalize(Last(plan).yaw)
    BY <1>1, <2>1, SeedInitialized
  <2>4. c = e
    BY <1>3, <1>8 DEF ColdBand
  <2>. HIDE DEF c
  <2>. QED  BY <2>2, <2>3, <2>4
<1>. HIDE DEF updated, c
<1>11. band' = updated /\ TurnOf(updated) = r.goal.yaw - r.start.yaw
  BY <1>5, <1>8, <1>9 DEF TurnOf
<1>12. TurnOf(c) = r.goal.yaw - r.start.yaw
  <2>1. plan[1] \in Samples
    BY <1>1, PlanEnds
  <2>2. PICK f \in Int : f = plan[1].yaw
    BY <2>1 DEF Samples
  <2>3. r.terminalYaw = r.goal.yaw - r.start.yaw + f
    BY <1>4, <2>2 DEF AsksFor
  <2>. QED  BY <1>6, <1>10, <2>2, <2>3 DEF TurnOf
<1>13. TurnAsked' = r.goal.yaw - r.start.yaw
  BY <1>5, <1>7 DEF TurnAsked
<1>14. TurnOf(band)' = TurnAsked'
  BY <1>11, <1>13 DEF TurnOf
<1>15. TurnOf(request.cold)' = TurnAsked'
  <2>1. request'.cold = c
    BY <1>5, <1>7
  <2>2. TurnOf(request.cold)' = TurnOf(c)
    BY <2>1 DEF TurnOf
  <2>. QED  BY <1>12, <1>13, <2>2
<1>16. (request.oldTurn # Null /\ Normalize(TurnAsked) = Normalize(request.oldTurn)
          => TurnAsked = request.oldTurn)'
  <2>1. cfg.differential
    BY <1>8 DEF Single
  <2>2. r.oldTurn # Null /\ Normalize(r.goal.yaw - r.start.yaw) = Normalize(r.oldTurn)
          => r.goal.yaw - r.start.yaw = r.oldTurn
    BY <1>4, <1>8, <2>1 DEF AsksFor
  <2>3. request'.oldTurn = r.oldTurn
    BY <1>5, <1>7
  <2>. QED  BY <1>13, <2>2, <2>3
<1>17. pc' \in {"subdivide", "optimize"}
  BY <1>5, AfterSeedType
<1>. QED  BY <1>14, <1>15, <1>16, <1>17 DEF TurnSound

\* A call that fails ends, or falls back to the cold seed.
LEMMA FailTurn ==
  ASSUME IInv, TurnSound, pc # "idle", NEW left, Fail(left), cfg' = cfg
  PROVE  TurnSound'
<1>1. CASE request.warm /\ ~request.retried
  <2>. DEFINE q == [request EXCEPT !.retried = TRUE]
  <2>1. request' = q /\ band' = request.cold /\ pc' = AfterSeed
    BY <1>1 DEF Fail
  <2>2. request \in RequestRecords
    BY InCall
  <2>3. q.retried = TRUE /\ q.warm = request.warm /\ q.oldTurn = request.oldTurn
        /\ q.goal = request.goal /\ q.start = request.start
    BY <2>2 DEF RequestRecords
  <2>. HIDE DEF q
  <2>4. TurnAsked' = TurnAsked
    BY <2>1, <2>3 DEF TurnAsked
  <2>5. TurnOf(band)' = TurnOf(request.cold)
    BY <2>1 DEF TurnOf
  <2>6. pc' \in {"subdivide", "optimize"}
    BY <2>1, AfterSeedType
  <2>7. CASE Single
    <3>1. TurnOf(band)' = TurnAsked'
      BY <1>1, <2>4, <2>5, <2>7 DEF TurnSound
    <3>2. request.oldTurn # Null /\ Normalize(TurnAsked) = Normalize(request.oldTurn)
            => TurnAsked = request.oldTurn
      BY <1>1, <2>7 DEF TurnSound
    <3>3. (request.oldTurn # Null /\ Normalize(TurnAsked) = Normalize(request.oldTurn)
             => TurnAsked = request.oldTurn)'
      BY <2>1, <2>3, <2>4, <3>2
    <3>. QED  BY <2>1, <2>3, <2>6, <3>1, <3>3 DEF TurnSound
  <2>8. CASE ~Single
    BY <2>8, SingleSame DEF TurnSound
  <2>. QED  BY <2>7, <2>8
<1>2. CASE ~(request.warm /\ ~request.retried)
  <2>1. pc' = "idle"
    BY <1>2 DEF Fail, Answer
  <2>. QED  BY <2>1 DEF TurnSound
<1>. QED  BY <1>1, <1>2

\* A step within a call that keeps the turn of the band, and the end once it
\* is the requested goal.
LEMMA TurnStep ==
  ASSUME TurnSound, pc # "idle", UNCHANGED <<cfg, request>>,
         Single /\ request.warm =>
           /\ TurnOf(band)' = TurnOf(band)
           /\ pc' \notin {"subdivide", "optimize"} => BackPose(band').yaw = requested'.yaw
  PROVE  TurnSound'
<1>1. Single' = Single
  BY SingleSame
<1>2. TurnAsked' = TurnAsked /\ TurnOf(request.cold)' = TurnOf(request.cold)
  BY DEF TurnAsked, TurnOf
<1>. QED  BY <1>1, <1>2 DEF TurnSound

\* The rollout of a feasible band keeps its turn.
LEMMA RolloutTurn ==
  ASSUME NEW b \in ProperBands, NEW goal, Feasible(b, goal), BackPose(b).yaw = goal.yaw
  PROVE  TurnOf(Rollout(b)) = TurnOf(b) /\ BackPose(Rollout(b)).yaw = goal.yaw
<1>1. b \in TimedBands
  BY ProperIsTimed
<1>2. Pose(Rollout(b), 0) = Pose(b, 0) /\ BackPose(Rollout(b)).yaw = goal.yaw
  BY <1>1, RolloutPoses DEF Feasible
<1>. QED  BY <1>2 DEF TurnOf

\* A better candidate keeps the turn.
LEMMA CandidateTurn ==
  ASSUME NEW b \in ProperBands, NEW i \in 1 .. SizePoses(b) - 2, NEW x \in Int, NEW yaw \in Int,
         NEW goal, Feasible(Rollout(Moved(b, i, x, yaw)), goal), BackPose(b).yaw = goal.yaw
  PROVE  LET c == Rollout(Moved(b, i, x, yaw)) IN
         TurnOf(c) = TurnOf(b) /\ BackPose(c).yaw = goal.yaw
<1>. DEFINE m == Moved(b, i, x, yaw)  c == Rollout(m)
<1>1. PICK n \in Nat : n = SizeTimeDiffs(b)
  BY SizedIsTimed, ProperIsTimed
<1>2. n >= 1 /\ b \in Sized(n + 1, n) /\ SizePoses(b) = n + 1 /\ i \in 0 .. n /\ i # 0 /\ 0 \in 0 .. n
  BY <1>1, SizedIsTimed, ProperIsTimed
<1>3. /\ m \in Sized(n + 1, n)
      /\ \A k \in 0 .. n : k # i => Pose(m, k) = Pose(b, k)
  BY <1>2, MovedPose
<1>4. m \in TimedBands
  <2>1. i \in 0 .. SizePoses(b) - 1
    BY <1>2
  <2>2. m \in ProperBands
    BY <2>1, MovedProper
  <2>. HIDE DEF m
  <2>. QED  BY <2>2, ProperIsTimed
<1>5. Pose(m, 0) = Pose(b, 0)
  BY <1>2, <1>3
<1>. HIDE DEF m
<1>6. Pose(c, 0) = Pose(m, 0) /\ c \in TimedBands /\ Winds(c)
  BY <1>4, RolloutPoses, RolloutAlike
<1>7. Feasible(c, goal)
  BY DEF c, m
<1>. HIDE DEF c
<1>8. BackPose(c).yaw = goal.yaw
  <2>1. BackPose(Rollout(c)).yaw = goal.yaw
    BY <1>7 DEF Feasible
  <2>. QED  BY <1>6, <2>1, RolloutEnds DEF Winds
<1>9. TurnOf(c) = TurnOf(b)
  BY <1>5, <1>6, <1>8 DEF TurnOf
<1>. QED  BY <1>8, <1>9 DEF c, m

\* A step of subdivide() keeps the ends.
LEMMA SubdivideEnds ==
  ASSUME IInv, Subdivide
  PROVE  /\ Pose(band', 0).x = Pose(band, 0).x /\ Pose(band', 0).yaw = Pose(band, 0).yaw
         /\ BackPose(band').x = BackPose(band).x /\ BackPose(band').yaw = BackPose(band).yaw
<1>. DEFINE i == loop.at
            from == Pose(band, i)
            to == Pose(band, i + 1)
            angle == TurnBetween(from, to)
            sideways == Along(from.yaw + angle \div 2) = 0
            x == IF sideways THEN from.x ELSE from.x + (to.x - from.x) \div 2
            yaw == from.yaw + angle \div 2
            middle == PoseAt(x, yaw)
            half == Larger(1, TimeDiff(band, i) \div 2)
            halved == InsertTimeDiff(InsertPose(SetTimeDiff(band, i, half), i + 1, middle), i + 1, half)
            freed == [band EXCEPT !.poses =
                        [k \in DOMAIN band.poses |-> [band.poses[k] EXCEPT !.fixed = (k = 1)]]]
<1>1. pc = "subdivide" /\ band \in ProperBands /\ i \in Nat /\ band \in TimedBands
  BY InCall DEF Subdivide
<1>2. CASE i < SizeTimeDiffs(band)
  <2>1. band' = halved \/ band' = band
    BY <1>2, Zenon DEF Subdivide
  <2>2. CASE band' = halved
    <3>1. PICK n \in Nat : n = SizeTimeDiffs(band)
      BY <1>1, SizedIsTimed, ProperIsTimed
    <3>2. i \in 0 .. n - 1 /\ n = SizeTimeDiffs(band)
      BY <1>1, <1>2, <3>1
    <3>3. PICK e \in 1 .. n : e = i + 1 /\ e - 1 = i
      BY <3>2
    <3>4. from \in PoseRecords /\ to \in PoseRecords /\ TimeDiff(band, i) \in Nat /\ angle \in -4 .. 3
      BY <1>1, <3>1, <3>3, Neighbours
    <3>5. from.x \in Int /\ from.yaw \in Int /\ to.x \in Int
      BY <3>4 DEF PoseRecords
    <3>6. yaw \in Int
      <4>. HIDE DEF from, to, angle
      <4>. QED  BY <3>4, <3>5
    <3>7. x \in Int
      <4>. HIDE DEF from, to, angle
      <4>1. to.x - from.x \in Int
        BY <3>5
      <4>2. from.x + (to.x - from.x) \div 2 \in Int
        BY <3>5, <4>1, HalfType
      <4>. HIDE DEF sideways
      <4>. QED  BY <3>5, <4>2
    <3>8. half \in Nat
      <4>1. TimeDiff(band, i) \div 2 \in Nat /\ 1 \in Nat
        BY <3>4, HalfType
      <4>. QED  BY <4>1, LargerType
    <3>9. middle \in PoseRecords
      <4>. HIDE DEF x, yaw
      <4>. QED  BY <3>6, <3>7, PoseAtType
    <3>. HIDE DEF middle, half
    <3>10. PICK m \in PoseRecords, h \in Nat : m = middle /\ h = half
      BY <3>8, <3>9
    <3>11. PICK a \in 0 .. n - 1 : a = i
      BY <3>2
    <3>. HIDE DEF i
    <3>. DEFINE c == InsertTimeDiff(InsertPose(SetTimeDiff(band, a, h), a + 1, m), a + 1, h)
    <3>12. /\ c \in ProperBands /\ SizeTimeDiffs(c) = n + 1
           /\ \A k \in 0 .. a : Pose(c, k) = Pose(band, k)
           /\ \A k \in a + 1 .. n : Pose(c, k + 1) = Pose(band, k)
      BY <1>1, <3>1, HalvedPoses
    <3>13. band' = c
      BY <2>2, <3>10, <3>11
    <3>. HIDE DEF c
    <3>14. 0 \in 0 .. a /\ n \in a + 1 .. n
      OBVIOUS
    <3>15. Pose(c, 0) = Pose(band, 0) /\ Pose(c, n + 1) = Pose(band, n)
      BY <3>12, <3>14
    <3>16. c \in TimedBands
      BY <3>12, ProperIsTimed
    <3>17. BackPose(c) = Pose(c, n + 1) /\ BackPose(band) = Pose(band, n)
      BY <1>1, <3>1, <3>12, <3>16, LastPose
    <3>. QED  BY <3>13, <3>15, <3>17
  <2>. QED  BY <2>1, <2>2
<1>3. CASE ~(i < SizeTimeDiffs(band))
  <2>1. band' = freed
    BY <1>3, Zenon DEF Subdivide
  <2>2. /\ Pose(freed, 0).x = Pose(band, 0).x /\ Pose(freed, 0).yaw = Pose(band, 0).yaw
        /\ BackPose(freed).x = BackPose(band).x /\ BackPose(freed).yaw = BackPose(band).yaw
    BY <1>1, FreedAlike
  <2>. HIDE DEF freed
  <2>. QED  BY <2>1, <2>2
<1>. QED  BY <1>2, <1>3

\* The rollout of a solved band turns as the band does.
LEMMA SolvedTurn ==
  ASSUME IInv, TurnSound, Solved, Single, request.warm
  PROVE  TurnOf(band)' = TurnOf(band) /\ BackPose(band').yaw = requested'.yaw
<1>1. pc = "solve" /\ requested' = requested /\ Feasible(band, requested) /\ band' = Rollout(band)
  BY DEF Solved, Single
<1>2. BackPose(band).yaw = requested.yaw /\ band \in ProperBands
  BY <1>1, InCall DEF TurnSound
<1>. DEFINE c == Rollout(band)
<1>3. TurnOf(c) = TurnOf(band) /\ BackPose(c).yaw = requested.yaw
  BY <1>1, <1>2, RolloutTurn
<1>4. band' = c
  BY <1>1
<1>. HIDE DEF c
<1>5. TurnOf(band)' = TurnOf(c)
  BY <1>4 DEF TurnOf
<1>. QED  BY <1>1, <1>3, <1>4, <1>5

\* Every step keeps the turn of the band and of the cold seed.
LEMMA TurnKeeps ==
  ASSUME IInv, SeedSound, TurnSound, [Next]_vars
  PROVE  TurnSound'
<1>1. ASSUME NEW plan \in cfg.plans, Plan(plan)  PROVE TurnSound'
  BY <1>1, PlanTurn
<1>2. ASSUME NEW plan \in cfg.plans, OptimizeCandidate(plan)  PROVE TurnSound'
  <2>1. Homotopy /\ cfg' = cfg
    BY <1>2 DEF OptimizeCandidate
  <2>2. ~Single'
    BY <2>1, SingleSame DEF Single
  <2>. QED  BY <2>2 DEF TurnSound
<1>3. ASSUME ClearPlanner  PROVE TurnSound'
  BY <1>3 DEF ClearPlanner, TurnSound
<1>4. ASSUME UNCHANGED <<cfg, band, pc, requested, request>>  PROVE TurnSound'
  <2>1. Single' = Single /\ TurnAsked' = TurnAsked /\ TurnOf(band)' = TurnOf(band)
        /\ TurnOf(request.cold)' = TurnOf(request.cold)
    BY <1>4, SingleSame DEF TurnAsked, TurnOf
  <2>. QED  BY <1>4, <2>1 DEF TurnSound
<1>5. ASSUME Subdivide  PROVE TurnSound'
  <2>1. pc = "subdivide" /\ pc' \in {"subdivide", "optimize"} /\ UNCHANGED <<cfg, request>>
    BY <1>5, Zenon DEF Subdivide
  <2>2. Pose(band', 0).yaw = Pose(band, 0).yaw /\ BackPose(band').yaw = BackPose(band).yaw
    BY <1>5, SubdivideEnds
  <2>3. TurnOf(band)' = TurnOf(band)
    BY <2>2 DEF TurnOf
  <2>. QED  BY <2>1, <2>3, TurnStep
<1>6. ASSUME Optimize  PROVE TurnSound'
  <2>1. pc = "optimize" /\ cfg' = cfg
    BY <1>6 DEF Optimize
  <2>2. CASE cfg.activate
    <3>1. requested'.yaw = BackPose(band).yaw /\ UNCHANGED <<band, request>>
      BY <1>6, <2>2 DEF Optimize
    <3>2. TurnOf(band)' = TurnOf(band) /\ BackPose(band').yaw = requested'.yaw
      BY <3>1 DEF TurnOf
    <3>. QED  BY <2>1, <3>1, <3>2, TurnStep
  <2>3. CASE ~cfg.activate
    <3>1. Fail({band})
      BY <1>6, <2>3 DEF Optimize
    <3>. QED  BY <2>1, <3>1, FailTurn
  <2>. QED  BY <2>2, <2>3
<1>7. ASSUME pc \notin {"idle", "subdivide", "optimize"}, UNCHANGED <<cfg, band, requested, request>>
      PROVE  TurnSound'
  <2>1. TurnOf(band)' = TurnOf(band)
    BY <1>7 DEF TurnOf
  <2>2. Single /\ request.warm => BackPose(band').yaw = requested'.yaw
    BY <1>7 DEF TurnSound
  <2>. QED  BY <1>7, <2>1, <2>2, TurnStep
<1>8. ASSUME Iterate  PROVE TurnSound'
  <2>1. pc = "iterate" /\ UNCHANGED <<cfg, band, requested>>
    BY <1>8 DEF Iterate
  <2>2. pc' = "idle" \/ UNCHANGED request
    BY <1>8 DEF Iterate, Answer
  <2>3. CASE pc' = "idle"
    BY <2>3 DEF TurnSound
  <2>. QED  BY <1>7, <2>1, <2>2, <2>3
<1>9. ASSUME Resize  PROVE TurnSound'
  <2>1. pc = "resize" /\ cfg' = cfg
    BY <1>9 DEF Resize
  <2>2. ~Single'
    BY <1>9, <2>1, SingleSame DEF SeedSound
  <2>. QED  BY <2>2 DEF TurnSound
<1>10. ASSUME Build  PROVE TurnSound'
  <2>1. pc = "build" /\ graph = EmptyGraph /\ UNCHANGED <<cfg, requested>>
    BY <1>10 DEF Build, IInv, GraphOfSize
  <2>2. UNCHANGED <<band, request>>
    BY <1>10, <2>1 DEF Build
  <2>. QED  BY <1>7, <2>1, <2>2
<1>11. ASSUME PrepareSolve  PROVE TurnSound'
  <2>1. pc = "prepare" /\ UNCHANGED <<cfg, requested>>
    BY <1>11 DEF PrepareSolve
  <2>2. Fail({band}) \/ UNCHANGED <<band, request>>
    BY <1>11, Zenon DEF PrepareSolve
  <2>. QED  BY <1>7, <2>1, <2>2, FailTurn
<1>12. ASSUME MoveVertex  PROVE TurnSound'
  <2>1. cfg' = cfg /\ ~Single
    BY <1>12 DEF MoveVertex, Single
  <2>. QED  BY <2>1, SingleSame DEF TurnSound
<1>13. ASSUME MoveControl  PROVE TurnSound'
  <2>1. pc = "solve" /\ pc' = "solve" /\ UNCHANGED <<cfg, requested, request>>
    BY <1>13 DEF MoveControl
  <2>2. CASE Single /\ request.warm
    <3>1. BackPose(band).yaw = requested.yaw /\ band \in ProperBands /\ band \in TimedBands
      BY <2>1, <2>2, InCall DEF TurnSound
    <3>2. PICK i \in 1 .. SizePoses(band) - 2, x \in Positions, angle \in {-Quarter, 0, Quarter} :
            LET candidate == Rollout(Moved(band, i, x, Pose(band, i - 1).yaw + angle)) IN
            Feasible(candidate, requested) /\ band' = candidate
      BY <1>13, Zenon DEF MoveControl
    <3>3. x \in Int /\ Pose(band, i - 1).yaw + angle \in Int
      <4>1. i - 1 \in 0 .. SizePoses(band) - 1
        BY <3>1, Indexed
      <4>2. Pose(band, i - 1).yaw \in Int
        BY <3>1, <4>1, Indexed DEF PoseRecords
      <4>3. angle \in Int
        BY DEF Quarter
      <4>. QED  BY <4>2, <4>3, PlannerAssumption
    <3>4. PICK yaw \in Int : yaw = Pose(band, i - 1).yaw + angle
      BY <3>3
    <3>. DEFINE c == Rollout(Moved(band, i, x, yaw))
    <3>5. Feasible(c, requested) /\ band' = c
      BY <3>2, <3>4
    <3>6. TurnOf(c) = TurnOf(band) /\ BackPose(c).yaw = requested.yaw
      BY <3>1, <3>3, <3>5, CandidateTurn
    <3>. HIDE DEF c
    <3>7. TurnOf(band)' = TurnOf(band)
      BY <3>5, <3>6 DEF TurnOf
    <3>8. BackPose(band').yaw = requested'.yaw
      BY <2>1, <3>5, <3>6
    <3>. QED  BY <2>1, <3>7, <3>8, TurnStep
  <2>3. CASE ~(Single /\ request.warm)
    BY <2>1, <2>3, TurnStep
  <2>. QED  BY <2>2, <2>3
<1>14. ASSUME Solved  PROVE TurnSound'
  <2>1. pc = "solve" /\ cfg' = cfg
    BY <1>14 DEF Solved
  <2>2. pc' = "idle" \/ UNCHANGED request
    BY <1>14, Zenon DEF Solved, Answer
  <2>3. CASE pc' = "idle"
    BY <2>3 DEF TurnSound
  <2>4. CASE UNCHANGED request
    <3>1. Single /\ request.warm => TurnOf(band)' = TurnOf(band) /\ BackPose(band').yaw = requested'.yaw
      BY <1>14, SolvedTurn
    <3>. QED  BY <2>1, <2>4, <3>1, TurnStep
  <2>. QED  BY <2>2, <2>3, <2>4
<1>15. ASSUME Unsolved  PROVE TurnSound'
  <2>. DEFINE left == IF cfg.differential
                      THEN {Moved(band, SizePoses(band) - 1, x, BackPose(band).yaw) : x \in Positions}
                      ELSE {band}
  <2>1. pc = "solve" /\ cfg' = cfg /\ Fail(left)
    BY <1>15, Zenon DEF Unsolved
  <2>. HIDE DEF left
  <2>. QED  BY <2>1, FailTurn
<1>16. ASSUME Expire \/ UNCHANGED vars  PROVE TurnSound'
  BY <1>4, <1>16 DEF Expire, vars
<1>17. ASSUME Call  PROVE TurnSound'
  BY <1>1, <1>2, <1>17 DEF Call
<1>18. ASSUME Step  PROVE TurnSound'
  BY <1>5, <1>6, <1>8, <1>9, <1>10, <1>11, <1>14, <1>15, <1>18 DEF Step, Finish
<1>. QED  BY <1>3, <1>12, <1>13, <1>16, <1>17, <1>18 DEF Next

\* The band and the cold seed always turn as asked.
LEMMA TurnHolds ==
  Spec => []TurnSound
<1>1. Init => TurnSound
  BY DEF Init, TurnSound
<1>2. IInv /\ SeedSound /\ TurnSound /\ [Next]_vars => TurnSound'
  BY TurnKeeps
<1>. QED  BY <1>1, <1>2, InvariantHolds, SeedHolds, PTL DEF Spec

\* The band that is returned turns as it was asked to.
LEMMA CallKeepsTurn ==
  ASSUME IInv, TurnSound, [Next]_vars, pc # "idle", pc' = "idle", answer', Single, request.warm
  PROVE  TurnOf(band)' = TurnOf(band)
<1>1. ASSUME NEW left, Fail(left)  PROVE FALSE
  <2>1. ~(pc' = "idle" /\ answer')
    BY <1>1, FailKeepsFollowable
  <2>. QED  BY <2>1
<1>2. Subdivide \/ Resize => FALSE
  <2>1. Subdivide => pc' # "idle"
    <3>1. SUFFICES ASSUME Subdivide  PROVE pc' # "idle"
      OBVIOUS
    <3>. QED  BY <3>1, Zenon DEF Subdivide
  <2>2. Resize => pc' # "idle"
    <3>1. SUFFICES ASSUME Resize  PROVE pc' # "idle"
      OBVIOUS
    <3>2. pc = "resize" /\ pc' \in {"resize", "build"}
      BY <3>1, Zenon DEF Resize
    <3>. QED  BY <3>2
  <2>. QED  BY <2>1, <2>2
<1>3. Optimize => FALSE
  BY <1>1 DEF Optimize
<1>4. Iterate => TurnOf(band)' = TurnOf(band)
  BY DEF Iterate, TurnOf
<1>5. Build => FALSE
  BY <1>1 DEF Build
<1>6. PrepareSolve => FALSE
  <2>1. SUFFICES ASSUME PrepareSolve  PROVE FALSE
    OBVIOUS
  <2>2. Fail({band}) \/ pc' = "solve"
    BY <2>1, Zenon DEF PrepareSolve
  <2>. QED  BY <1>1, <2>2
<1>7. Solved => TurnOf(band)' = TurnOf(band)
  BY SolvedTurn
<1>8. Unsolved => FALSE
  <2>1. SUFFICES ASSUME Unsolved  PROVE FALSE
    OBVIOUS
  <2>2. \E left : Fail(left)
    BY <2>1, Zenon DEF Unsolved
  <2>. QED  BY <1>1, <2>2
<1>9. (\A plan \in cfg.plans : ~Plan(plan) /\ ~OptimizeCandidate(plan)) /\ ~ClearPlanner
      /\ ~Expire /\ ~MoveVertex /\ ~MoveControl /\ ~UNCHANGED vars
  BY DEF Plan, OptimizeCandidate, ClearPlanner, Expire, MoveVertex, MoveControl, vars
<1>. QED  BY <1>2, <1>3, <1>4, <1>5, <1>6, <1>7, <1>8, <1>9 DEF Next, Call, Step, Finish

\* Replanning to the same goal from the old start turns by the same angle,
\* never by a full turn more or less, also when the warm start fails and the
\* call is repeated from a cold seed.
THEOREM TurnsAreKept == Spec => TurnKept
<1>1. ASSUME IInv, TurnSound, [Next]_vars, pc # "idle", pc' = "idle", answer',
             cfg.differential, ~Homotopy, request.warm, request.oldTurn # Null,
             Normalize(request.goal.yaw - request.start.yaw) = Normalize(request.oldTurn)
      PROVE  BackPose(band').yaw - Pose(band', 0).yaw = request.oldTurn
  <2>1. Single
    BY <1>1 DEF Single
  <2>2. TurnOf(band) = TurnAsked /\ TurnAsked = request.oldTurn
    BY <1>1, <2>1 DEF TurnSound, TurnAsked
  <2>3. TurnOf(band)' = TurnOf(band)
    BY <1>1, <2>1, CallKeepsTurn
  <2>. QED  BY <2>2, <2>3 DEF TurnOf
<1>2. IInv /\ TurnSound /\ [Next]_vars
        => [pc # "idle" /\ pc' = "idle" /\ answer' /\ cfg.differential /\ ~Homotopy
              /\ request.warm /\ request.oldTurn # Null
              /\ Normalize(request.goal.yaw - request.start.yaw) = Normalize(request.oldTurn)
              => BackPose(band').yaw - Pose(band', 0).yaw = request.oldTurn]_vars
  BY <1>1
<1>. QED  BY <1>2, InvariantHolds, TurnHolds, PTL DEF Spec, TurnKept

-----------------------------------------------------------------------------
(* The ends of a band.                                                     *)

\* The bands that begin with a pose.
Opening(p) == {b \in TimedBands : Pose(b, 0) = p}

Fixed(x, yaw) == [x |-> x, yaw |-> yaw, fixed |-> TRUE]

\* A pose added leaves the first one.
LEMMA AddedOpens ==
  ASSUME NEW p, NEW b \in Opening(p), NEW q \in PoseRecords, NEW dt \in Nat
  PROVE  AddPoseAndTimeDiff(b, q, dt) \in Opening(p)
<1>. DEFINE c == AddPoseAndTimeDiff(b, q, dt)
<1>1. b \in TimedBands /\ Pose(b, 0) = p /\ SizeTimeDiffs(b) \in Nat
  BY SizedIsTimed DEF Opening
<1>2. c \in TimedBands
  BY <1>1, AddedPoses
<1>3. \A k \in 0 .. SizeTimeDiffs(b) : Pose(c, k) = Pose(b, k)
  BY <1>1, AddedPoses
<1>. HIDE DEF c
<1>4. Pose(c, 0) = Pose(b, 0)
  BY <1>1, <1>3
<1>. QED  BY <1>1, <1>2, <1>4 DEF Opening, c

\* The pose that is fixed, with the others as they were.
LEMMA FixedPoses ==
  ASSUME NEW b \in TimedBands, NEW i \in 0 .. SizeTimeDiffs(b), NEW status \in BOOLEAN
  PROVE  LET c == SetPoseVertexFixed(b, i, status) IN
         /\ c \in TimedBands /\ SizeTimeDiffs(c) = SizeTimeDiffs(b)
         /\ Pose(c, i) = [Pose(b, i) EXCEPT !.fixed = status]
         /\ \A k \in 0 .. SizeTimeDiffs(b) : k # i => Pose(c, k) = Pose(b, k)
<1>. DEFINE p == Pose(b, i)  e == [p EXCEPT !.fixed = status]
            c == [b EXCEPT !.poses = [b.poses EXCEPT ![i + 1] = e]]
<1>1. p \in PoseRecords
  BY AllPoses
<1>2. e \in PoseRecords
  BY <1>1 DEF PoseRecords
<1>3. SetPoseVertexFixed(b, i, status) = c
  <2>2. b.poses[i + 1] = p
    BY DEF Pose
  <2>3. i + 1 \in DOMAIN b.poses
    BY Indexed, BandParts, ProperIsTimed DEF SizePoses, SizeTimeDiffs
  <2>. QED  BY <1>1, <2>2, <2>3 DEF SetPoseVertexFixed, TimedBands, Bands, Pose
<1>. HIDE DEF e
<1>4. /\ c \in TimedBands /\ SizeTimeDiffs(c) = SizeTimeDiffs(b) /\ Pose(c, i) = e
      /\ \A k \in 0 .. SizeTimeDiffs(b) : k # i => Pose(c, k) = Pose(b, k)
  BY <1>2, PoseReplaced
<1>. HIDE DEF c
<1>. QED  BY <1>3, <1>4 DEF e

\* A band begins at the start, fixed.
LEMMA BegunOpens ==
  ASSUME NEW x \in Int, NEW yaw \in Int
  PROVE  Begun(x, yaw) \in Opening(Fixed(x, yaw))
<1>. DEFINE p == PoseAt(x, yaw)  b == Begun(x, yaw)
            P == Append(<<>>, p)  D == <<>>  c == [poses |-> P, dts |-> D]
<1>1. p \in PoseRecords /\ p = [x |-> x, yaw |-> yaw, fixed |-> FALSE]
  BY PoseAtType DEF PoseAt
<1>2. b = SetPoseVertexFixed(c, 0, TRUE)
  <2>1. AddPose(EmptyBand, p) = c
    BY DEF AddPose, EmptyBand
  <2>. HIDE DEF c
  <2>. QED  BY <2>1 DEF Begun
<1>. HIDE DEF p, b
<1>3. c \in TimedBands /\ SizeTimeDiffs(c) = 0 /\ Pose(c, 0) = p
  <2>1. <<>> \in Seq(PoseRecords) /\ Len(<<>>) = 0 /\ D \in Seq(Nat) /\ Len(D) = 0
    BY EmptySeq
  <2>2. P \in Seq(PoseRecords) /\ Len(P) = 0 + 1 /\ P[0 + 1] = p
    BY <1>1, <2>1, AppendProperties
  <2>. HIDE DEF P, D
  <2>. QED  BY <2>1, <2>2, TimedBand DEF SizeTimeDiffs, Pose
<1>. HIDE DEF c
<1>4. 0 \in 0 .. SizeTimeDiffs(c) /\ TRUE \in BOOLEAN
  BY <1>3
<1>5. b \in TimedBands
  BY <1>2, <1>3, <1>4, FixedPoses
<1>6. Pose(b, 0) = [p EXCEPT !.fixed = TRUE]
  BY <1>2, <1>3, <1>4, FixedPoses
<1>7. Pose(b, 0) = Fixed(x, yaw)
  BY <1>1, <1>6 DEF Fixed
<1>. QED  BY <1>5, <1>7 DEF Opening, b

EndsFixed(p, goal) == p.x = goal.x /\ p.yaw = goal.yaw /\ p.fixed = TRUE

\* It ends at the goal, fixed.
LEMMA ClosedEnds ==
  ASSUME NEW p, NEW b \in Opening(p), NEW goal \in PoseRecords, NEW dt \in Nat
  PROVE  /\ Closed(b, goal, dt) \in ProperBands
         /\ Pose(Closed(b, goal, dt), 0) = p
         /\ EndsFixed(BackPose(Closed(b, goal, dt)), goal)
<1>. DEFINE c == AddPoseAndTimeDiff(b, goal, dt)  e == Closed(b, goal, dt)
<1>1. b \in TimedBands /\ Pose(b, 0) = p
  BY DEF Opening
<1>2. PICK n \in Nat : n = SizeTimeDiffs(b)
  BY <1>1, SizedIsTimed
<1>3. c \in Opening(p)
  BY AddedOpens
<1>4. c \in TimedBands /\ SizeTimeDiffs(c) = n + 1
  <2>1. c \in TimedBands
    BY <1>1, AddedPoses
  <2>2. SizeTimeDiffs(c) = SizeTimeDiffs(b) + 1
    BY <1>1, AddedPoses
  <2>. QED  BY <1>2, <2>1, <2>2
<1>5. Pose(c, n + 1) = goal
  <2>1. Pose(c, SizeTimeDiffs(b) + 1) = goal
    BY <1>1, AddedPoses
  <2>. QED  BY <1>2, <2>1
<1>6. e = SetPoseVertexFixed(c, SizePoses(c) - 1, TRUE)
  BY DEF Closed
<1>7. e \in ProperBands
  BY <1>1, ClosedType
<1>. HIDE DEF c, e
<1>8. PICK m \in Nat : m = n + 1
  OBVIOUS
<1>9. m \in 0 .. SizeTimeDiffs(c) /\ TRUE \in BOOLEAN /\ 0 \in 0 .. SizeTimeDiffs(c) /\ 0 # m
  BY <1>4, <1>8
<1>. DEFINE f == SetPoseVertexFixed(c, m, TRUE)
<1>10. f \in TimedBands /\ SizeTimeDiffs(f) = m
  BY <1>4, <1>8, <1>9, FixedPoses
<1>11. Pose(f, m) = [Pose(c, m) EXCEPT !.fixed = TRUE]
  BY <1>4, <1>9, FixedPoses
<1>12. \A k \in 0 .. SizeTimeDiffs(c) : k # m => Pose(f, k) = Pose(c, k)
  BY <1>4, <1>9, FixedPoses
<1>13. e = f
  <2>1. SizePoses(c) - 1 = m
    BY <1>4, <1>8, SizedIsTimed
  <2>. QED  BY <1>6, <2>1
<1>. HIDE DEF f
<1>14. Pose(f, 0) = p
  BY <1>3, <1>9, <1>12 DEF Opening
<1>15. BackPose(f) = [goal EXCEPT !.fixed = TRUE]
  BY <1>5, <1>8, <1>10, <1>11, LastPose
<1>16. EndsFixed([goal EXCEPT !.fixed = TRUE], goal)
  BY DEF PoseRecords, EndsFixed
<1>. QED  BY <1>7, <1>13, <1>14, <1>15, <1>16 DEF e

-----------------------------------------------------------------------------
(* The bands of initTrajectoryToGoal().                                    *)

\* A pose added to a band that begins with p, whichever way it is computed.
LEMMA BuildersOpen ==
  ASSUME NEW p, NEW b \in Opening(p)
  PROVE  /\ \A q \in Placed : AddSample(b, q) \in Opening(p)
         /\ \A goal \in PoseRecords : AddMidpoint(b, goal) \in Opening(p)
         /\ \A goal \in PoseRecords : AddStraightMidpoint(b, goal) \in Opening(p)
         /\ \A x \in Int, backwards \in BOOLEAN : AddPosition(b, x, backwards) \in Opening(p)
         /\ \A goal \in PoseRecords, dt \in Nat :
              AddPoseAndTimeDiff(b, Average(BackPose(b), goal), dt) \in Opening(p)
<1>1. b \in TimedBands /\ BackPose(b) \in PoseRecords /\ BackPose(b) \in Placed
  BY Indexed, PosesArePlaced DEF Opening
<1>2. ASSUME NEW q \in Placed  PROVE AddSample(b, q) \in Opening(p)
  <2>1. q.x \in Int /\ Normalize(q.yaw) \in Int
    BY PlacedParts, NormalizeType
  <2>2. PoseAt(q.x, Normalize(q.yaw)) \in PoseRecords
    BY <2>1, PoseAtType
  <2>3. EstimateDeltaT(BackPose(b), q) \in Nat
    BY <1>1, EstimateDeltaTType
  <2>. QED  BY <2>2, <2>3, AddedOpens DEF AddSample
<1>3. ASSUME NEW goal \in PoseRecords
      PROVE  Average(BackPose(b), goal) \in PoseRecords /\ Average(BackPose(b), goal) \in Placed
  BY <1>1, AverageType, PosesArePlaced
<1>4. ASSUME NEW goal \in PoseRecords  PROVE AddMidpoint(b, goal) \in Opening(p)
  <2>. DEFINE m == Average(BackPose(b), goal)
  <2>1. EstimateDeltaT(BackPose(b), m) \in Nat
    BY <1>1, <1>3, EstimateDeltaTType
  <2>. QED  BY <1>3, <2>1, AddedOpens DEF AddMidpoint
<1>5. ASSUME NEW goal \in PoseRecords  PROVE AddStraightMidpoint(b, goal) \in Opening(p)
  <2>. DEFINE m == Average(BackPose(b), goal)
  <2>1. TravelTime(BackPose(b), m) \in Nat
    BY <1>1, <1>3, TravelTimeType
  <2>. QED  BY <1>3, <2>1, AddedOpens DEF AddStraightMidpoint
<1>6. ASSUME NEW x \in Int, NEW backwards \in BOOLEAN  PROVE AddPosition(b, x, backwards) \in Opening(p)
  <2>. DEFINE dx == x - BackPose(b).x
              heading == IF dx < 0 THEN -(FullTurn \div 2) ELSE 0
              time == Larger(1, StepTime(Magnitude(dx)))
  <2>1. dx \in Int
    BY <1>1 DEF PoseRecords
  <2>2. heading \in Int
    BY DEF FullTurn
  <2>3. heading + FullTurn \div 2 \in Int
    BY <2>2 DEF FullTurn
  <2>. HIDE DEF dx, heading
  <2>4. Turned(heading, backwards) \in Int
    BY <2>2, <2>3, NormalizeType DEF Turned
  <2>5. time \in Nat
    BY <2>1, MagnitudeType, StepTimeType, LargerType
  <2>6. PoseAt(x, Turned(heading, backwards)) \in PoseRecords
    BY <2>4, PoseAtType
  <2>7. AddPosition(b, x, backwards) = AddPoseAndTimeDiff(b, PoseAt(x, Turned(heading, backwards)), time)
    BY DEF AddPosition, dx, heading
  <2>. HIDE DEF time
  <2>. QED  BY <2>5, <2>6, <2>7, AddedOpens
<1>7. ASSUME NEW goal \in PoseRecords, NEW dt \in Nat
      PROVE  AddPoseAndTimeDiff(b, Average(BackPose(b), goal), dt) \in Opening(p)
  BY <1>3, AddedOpens
<1>. QED  BY <1>2, <1>4, <1>5, <1>6, <1>7

\* What a pose added keeps, the samples of a plan keep.
LEMMA AddSamplesOpen ==
  ASSUME NEW p, NEW b \in Opening(p), NEW plan \in Seq(Placed)
  PROVE  AddSamples(b, plan) \in Opening(p)
<1>. DEFINE n == Larger(0, Len(plan) - 2)
<1>1. b \in TimedBands /\ n \in Nat
  BY InteriorType DEF Opening
<1>2. PICK g : /\ g[0] = b /\ AddSamples(b, plan) = g[n]
               /\ \A k \in 1 .. n : g[k] = AddSample(g[k - 1], plan[k + 1])
  BY <1>1, AddSamplesSteps
<1>3. ASSUME NEW k \in 1 .. n, g[k - 1] \in Opening(p)  PROVE g[k] \in Opening(p)
  <2>1. k + 1 \in 1 .. Len(plan)
    BY InteriorType
  <2>2. plan[k + 1] \in Placed
    BY <2>1, Elements
  <2>. HIDE DEF n
  <2>. QED  BY <1>2, <1>3, <2>2, BuildersOpen
<1>. HIDE DEF n
<1>4. \A k \in 0 .. n : g[k] \in Opening(p)
  BY <1>1, <1>2, <1>3, AllTyped
<1>. QED  BY <1>1, <1>2, <1>4

\* A band between two places, its ends fixed.
Between(b, start, goal) ==
  /\ b \in ProperBands /\ EndsFixed(Pose(b, 0), start) /\ EndsFixed(BackPose(b), goal)

\* The end of a band that is closed.
LEMMA ClosedBetween ==
  ASSUME NEW x \in Int, NEW yaw \in Int, NEW b \in Opening(Fixed(x, yaw)),
         NEW goal \in PoseRecords, NEW dt \in Nat
  PROVE  Between(Closed(b, goal, dt), PoseAt(x, yaw), goal)
<1>1. Closed(b, goal, dt) \in ProperBands /\ EndsFixed(BackPose(Closed(b, goal, dt)), goal)
  BY ClosedEnds
<1>2. Pose(Closed(b, goal, dt), 0) = Fixed(x, yaw)
  BY ClosedEnds
<1>3. EndsFixed(Fixed(x, yaw), PoseAt(x, yaw))
  BY DEF EndsFixed, Fixed, PoseAt
<1>. QED  BY <1>1, <1>2, <1>3 DEF Between

\* The band over a plan.
LEMMA InitTrajectoryToGoalEnds ==
  ASSUME NEW plan \in Seq(Placed) \ {<<>>}, NEW minSamples \in Nat
  PROVE  Between(InitTrajectoryToGoal(plan, minSamples), PoseAt(plan[1].x, plan[1].yaw),
                 PoseAt(Last(plan).x, plan[1].yaw + Normalize(Last(plan).yaw - plan[1].yaw)))
<1>. DEFINE start == plan[1]
            goal == PoseAt(Last(plan).x, start.yaw + Normalize(Last(plan).yaw - start.yaw))
            p == Fixed(start.x, start.yaw)
            added == AddSamples(Begun(start.x, start.yaw), plan)
            filled == FillSamples(added, goal, minSamples)
            dt == EstimateDeltaT(BackPose(filled), goal)
<1>1. start.x \in Int /\ start.yaw \in Int /\ Last(plan).x \in Int /\ Last(plan).yaw \in Int
  BY PlanEnds, PlacedParts
<1>2. Normalize(Last(plan).yaw - start.yaw) \in Int
  <2>1. PICK l \in Int, s \in Int : l = Last(plan).yaw /\ s = start.yaw
    BY <1>1
  <2>2. l - s \in Int
    OBVIOUS
  <2>. QED  BY <2>1, <2>2, NormalizeType
<1>3. goal \in PoseRecords
  BY <1>1, <1>2 DEF PoseAt, PoseRecords
<1>. HIDE DEF goal
<1>4. added \in Opening(p)
  BY <1>1, BegunOpens, AddSamplesOpen
<1>. HIDE DEF added, p
<1>5. filled \in Opening(p)
  <2>1. Opening(p) \subseteq TimedBands
    BY DEF Opening
  <2>2. \A c \in Opening(p) : AddMidpoint(c, goal) \in Opening(p)
    BY <1>3, BuildersOpen
  <2>. QED  BY <1>3, <1>4, <2>1, <2>2, FillSamplesIn
<1>6. InitTrajectoryToGoal(plan, minSamples) = Closed(filled, goal, dt)
  BY DEF InitTrajectoryToGoal, goal, added
<1>. HIDE DEF filled
<1>7. dt \in Nat
  <2>1. filled \in TimedBands
    BY <1>5 DEF Opening
  <2>. QED  BY <1>3, <2>1, EstimateDeltaTType, Indexed, PosesArePlaced
<1>. HIDE DEF dt
<1>8. Between(Closed(filled, goal, dt), PoseAt(start.x, start.yaw), goal)
  BY <1>1, <1>3, <1>5, <1>7, ClosedBetween DEF p
<1>. QED  BY <1>6, <1>8 DEF goal

\* The band over a path of the exploration.
LEMMA InitTrajectoryToGoalPathEnds ==
  ASSUME NEW path \in Seq(Int) \ {<<>>}, NEW startYaw \in Int, NEW goalYaw \in Int,
         NEW minSamples \in Nat, NEW guessBackwards \in BOOLEAN
  PROVE  Between(InitTrajectoryToGoalPath(path, startYaw, goalYaw, minSamples, guessBackwards),
                 PoseAt(path[1], startYaw), PoseAt(Last(path), goalYaw))
<1>. DEFINE towards == (Last(path) - path[1]) * Along(startYaw)
            backwards == guessBackwards /\ towards < 0
            goal == PoseAt(Last(path), goalYaw)
            interior == AddPositions(Begun(path[1], startYaw), path, backwards)
            rest == StepTime(Magnitude(Last(path) - BackPose(interior).x))
            filled == Bisect(interior, goal, rest, minSamples)
            p == Fixed(path[1], startYaw)
<1>1. path[1] \in Int /\ Last(path) \in Int
  BY PlanEnds
<1>2. backwards \in BOOLEAN
  OBVIOUS
<1>3. goal \in PoseRecords
  BY <1>1, PoseAtType
<1>. HIDE DEF backwards, goal
<1>4. interior \in Opening(p)
  <2>1. Begun(path[1], startYaw) \in Opening(p)
    BY <1>1, BegunOpens
  <2>2. \A c \in Opening(p), x \in Int : AddPosition(c, x, backwards) \in Opening(p)
    BY <1>2, BuildersOpen
  <2>. HIDE DEF p
  <2>. QED  BY <1>2, <2>1, <2>2, AddPositionsIn
<1>5. Opening(p) \subseteq TimedBands
  BY DEF Opening
<1>. HIDE DEF interior
<1>6. Last(path) - BackPose(interior).x \in Int
  BY <1>1, <1>4, <1>5, Indexed DEF PoseRecords
<1>7. rest \in Nat
  BY <1>6, MagnitudeType, StepTimeType
<1>. HIDE DEF rest
<1>8. filled \in [band : Opening(p), time : Nat]
  <2>1. \A e \in Opening(p), dt \in Nat :
          AddPoseAndTimeDiff(e, Average(BackPose(e), goal), dt) \in Opening(p)
    BY <1>3, BuildersOpen
  <2>. HIDE DEF p
  <2>. QED  BY <1>4, <1>5, <1>7, <2>1, BisectIn
<1>9. InitTrajectoryToGoalPath(path, startYaw, goalYaw, minSamples, guessBackwards) =
        Closed(filled.band, goal, filled.time)
  BY DEF InitTrajectoryToGoalPath, backwards, goal, interior, rest
<1>. HIDE DEF filled
<1>10. filled.band \in Opening(Fixed(path[1], startYaw)) /\ filled.time \in Nat
  BY <1>8
<1>11. Between(Closed(filled.band, goal, filled.time), PoseAt(path[1], startYaw), goal)
  BY <1>1, <1>3, <1>10, ClosedBetween
<1>. QED  BY <1>9, <1>11 DEF goal

\* The straight band between two poses.
LEMMA InitTrajectoryToGoalStraightEnds ==
  ASSUME NEW start \in Samples, NEW goal \in Samples, NEW minSamples \in Nat
  PROVE  Between(InitTrajectoryToGoalStraight(start, goal, minSamples),
                 PoseAt(start.x, start.yaw), PoseAt(goal.x, goal.yaw))
<1>. DEFINE target == PoseAt(goal.x, goal.yaw)  base == Begun(start.x, start.yaw)
            p == Fixed(start.x, start.yaw)
<1>1. target \in PoseRecords
  BY PoseAtType DEF Samples
<1>2. base \in Opening(p) /\ start.x \in Int /\ start.yaw \in Int
  BY BegunOpens DEF Samples
<1>. HIDE DEF p
<1>3. PICK b \in Opening(p) :
        EndsStraight(InitTrajectoryToGoalStraight(start, goal, minSamples), b, target)
  <2>1. target = PoseAt(goal.x, goal.yaw) /\ base = Begun(start.x, start.yaw)
    OBVIOUS
  <2>. HIDE DEF target, base
  <2>2. \A c \in Opening(p) : AddStraightMidpoint(c, target) \in Opening(p)
    BY <1>1, BuildersOpen
  <2>. QED  BY <1>2, <2>1, <2>2, StraightFilledIn
<1>. HIDE DEF target, base
<1>4. TravelTime(BackPose(b), target) \in Nat
  <2>1. b \in TimedBands
    BY DEF Opening
  <2>. QED  BY <1>1, <2>1, TravelTimeType, Indexed, PosesArePlaced
<1>5. PICK dt \in Nat : dt = TravelTime(BackPose(b), target)
  BY <1>4
<1>6. Between(Closed(b, target, dt), PoseAt(start.x, start.yaw), target)
  BY <1>1, <1>2, ClosedBetween DEF p
<1>. QED  BY <1>3, <1>5, <1>6 DEF EndsStraight, target

\* The band leads from the start of the plan to its end, and its ends do not
\* move.
Joins(b, plan) == Alike(Pose(b, 0), plan[1]) /\ Alike(BackPose(b), Last(plan))
Pinned(b) == Pose(b, 0).fixed = TRUE /\ BackPose(b).fixed = TRUE

\* A band that leads from one pose to the other joins a plan with these ends.
LEMMA BetweenJoins ==
  ASSUME NEW b, NEW plan, NEW start, NEW goal, Between(b, start, goal),
         Alike(start, plan[1]), Alike(goal, Last(plan))
  PROVE  b \in ProperBands /\ Joins(b, plan) /\ Pinned(b)
BY DEF Between, Joins, Pinned, EndsFixed, Alike

\* So does the band over a plan, whatever orientations are estimated.
LEMMA OrientedJoins ==
  ASSUME cfg \in ConfigRecords, NEW plan \in Seq(Samples) \ {<<>>}
  PROVE  LET b == InitTrajectoryToGoal(Oriented(plan), cfg.minSamples) IN
         b \in ProperBands /\ Joins(b, plan) /\ Pinned(b)
<1>. DEFINE s == Oriented(plan)
            b == InitTrajectoryToGoal(s, cfg.minSamples)
            start == PoseAt(s[1].x, s[1].yaw)
            swept == Normalize(Last(s).yaw - s[1].yaw)
            goal == PoseAt(Last(s).x, s[1].yaw + swept)
<1>1. s \in Seq(Placed) \ {<<>>} /\ s[1] = plan[1] /\ Last(s) = Last(plan) /\ cfg.minSamples \in Nat
  BY OrientedType DEF Seeds, ConfigRecords
<1>. HIDE DEF s
<1>2. Between(b, start, goal)
  BY <1>1, InitTrajectoryToGoalEnds
<1>3. Alike(start, plan[1]) /\ start.yaw = plan[1].yaw
  BY <1>1 DEF Alike, PoseAt
<1>4. Alike(goal, Last(plan))
  <2>1. s[1] \in Placed /\ Last(s) \in Placed
    BY <1>1, PlanEnds
  <2>2. PICK f \in Int, l \in Int : f = s[1].yaw /\ l = Last(s).yaw
    BY <2>1, PlacedParts
  <2>3. Normalize(f + Normalize(l - f)) = Normalize(l)
    BY Rewrapped
  <2>. QED  BY <1>1, <2>2, <2>3 DEF Alike, PoseAt
<1>. HIDE DEF start, goal, b
<1>5. b \in ProperBands /\ Joins(b, plan) /\ Pinned(b)
  BY <1>2, <1>3, <1>4, BetweenJoins
<1>. QED  BY <1>5 DEF b, s

\* The seed of a request joins its plan, whichever builder made it.
LEMMA InitializedJoins ==
  ASSUME cfg \in ConfigRecords, NEW plan \in Seq(Samples) \ {<<>>}, NEW goalYaw \in Int,
         NEW keepBranch \in BOOLEAN, NEW terminalYaw \in Int,
         Normalize(goalYaw) = Normalize(Last(plan).yaw),
         keepBranch => Normalize(terminalYaw) = Normalize(Last(plan).yaw)
  PROVE  LET b == Initialized(plan, goalYaw, keepBranch, terminalYaw) IN
         Joins(b, plan) /\ (~cfg.differential => Pinned(b))
<1>1. CASE cfg.differential
  <2>. DEFINE b == Initialized(plan, goalYaw, keepBranch, terminalYaw)
  <2>1. /\ Pose(b, 0).x = plan[1].x /\ Pose(b, 0).yaw = plan[1].yaw
        /\ BackPose(b).x = Last(plan).x
        /\ IF keepBranch THEN BackPose(b).yaw = terminalYaw
           ELSE Normalize(BackPose(b).yaw) = Normalize(Last(plan).yaw)
    BY <1>1, SeedInitialized
  <2>. HIDE DEF b
  <2>2. Joins(b, plan)
    BY <2>1 DEF Joins, Alike
  <2>. QED  BY <1>1, <2>2 DEF b
<1>2. CASE ~cfg.differential
  <2>. DEFINE b == InitTrajectoryToGoal(Oriented(plan), cfg.minSamples)
              c == [b EXCEPT !.poses[SizePoses(b)].yaw = goalYaw]
  <2>1. Initialized(plan, goalYaw, keepBranch, terminalYaw) = c
    BY <1>2, Zenon DEF Initialized
  <2>2. b \in ProperBands /\ Joins(b, plan) /\ Pinned(b)
    BY OrientedJoins
  <2>. HIDE DEF b
  <2>3. b \in TimedBands /\ BackPose(b) \in PoseRecords
    BY <2>2, Indexed, ProperIsTimed
  <2>4. Normalize(goalYaw) = Normalize(BackPose(b).yaw)
    BY <2>2 DEF Joins, Alike
  <2>5. Pose(c, 0) = Pose(b, 0)
    BY <2>2, <2>4, Rewound
  <2>6. BackPose(c) = [BackPose(b) EXCEPT !.yaw = goalYaw]
    BY <2>2, <2>4, Rewound
  <2>. HIDE DEF c
  <2>7. BackPose(c).x = BackPose(b).x /\ BackPose(c).yaw = goalYaw /\ BackPose(c).fixed = BackPose(b).fixed
    BY <2>3, <2>6 DEF PoseRecords
  <2>8. Joins(c, plan) /\ Pinned(c)
    BY <2>2, <2>4, <2>5, <2>7 DEF Joins, Pinned, Alike
  <2>. QED  BY <2>1, <2>8
<1>. QED  BY <1>1, <1>2

\* The bands a candidate begins with.
LEMMA NewCandidatesJoin ==
  ASSUME IInv, NEW plan \in Seq(Samples) \ {<<>>}, NEW b \in NewCandidates(plan)
  PROVE  Joins(b, plan) /\ (~cfg.differential => Pinned(b))
<1>. DEFINE seeded == InitTrajectoryToGoal(Oriented(plan), cfg.minSamples)
            path == [i \in DOMAIN plan |-> plan[i].x]
            explored == InitTrajectoryToGoalPath(path, plan[1].yaw, Last(plan).yaw,
                                                 cfg.minSamples, cfg.backwards)
            straight == InitTrajectoryToGoalStraight(plan[1], Last(plan), cfg.minSamples)
            start == PoseAt(plan[1].x, plan[1].yaw)
            goal == PoseAt(Last(plan).x, Last(plan).yaw)
<1>1. cfg \in ConfigRecords /\ cfg.minSamples \in Nat /\ cfg.backwards \in BOOLEAN
  BY ConfigTyped DEF ConfigRecords
<1>2. plan[1] \in Samples /\ Last(plan) \in Samples /\ Len(plan) \in Nat \ {0}
      /\ \A i \in 1 .. Len(plan) : plan[i] \in Samples
  BY PlanEnds
<1>3. plan[1].yaw \in Int /\ Last(plan).yaw \in Int
  BY <1>2 DEF Samples
<1>4. Joins(seeded, plan) /\ (~cfg.differential => Pinned(seeded))
  BY <1>1, OrientedJoins
<1>5. path \in Seq(Int) \ {<<>>} /\ path[1] = plan[1].x /\ Last(path) = Last(plan).x
  <2>1. PICK n \in Nat \ {0} : n = Len(plan)
    BY <1>2
  <2>2. DOMAIN plan = 1 .. n /\ \A i \in 1 .. n : plan[i].x \in Int
    BY <1>2, <2>1 DEF Samples
  <2>3. path \in Seq(Int) /\ Len(path) = n /\ \A i \in 1 .. n : path[i] = plan[i].x
    BY <2>2
  <2>4. 1 \in 1 .. n /\ n \in 1 .. n
    OBVIOUS
  <2>. HIDE DEF path
  <2>5. path[1] = plan[1].x /\ path[n] = plan[n].x
    BY <2>3, <2>4
  <2>. QED  BY <2>1, <2>3, <2>5, EmptySeq DEF Last
<1>6. Alike(start, plan[1]) /\ Alike(goal, Last(plan))
  BY DEF Alike, PoseAt
<1>. HIDE DEF path
<1>7. Between(explored, start, goal)
  <2>1. Between(explored, PoseAt(path[1], plan[1].yaw), PoseAt(Last(path), Last(plan).yaw))
    BY <1>1, <1>3, <1>5, InitTrajectoryToGoalPathEnds
  <2>. QED  BY <1>5, <2>1
<1>8. Between(straight, start, goal)
  BY <1>1, <1>2, InitTrajectoryToGoalStraightEnds
<1>9. b \in {seeded, explored, straight}
  BY Zenon DEF NewCandidates, path
<1>. HIDE DEF seeded, explored, straight, start, goal
<1>10. Joins(explored, plan) /\ Pinned(explored)
  BY <1>6, <1>7, BetweenJoins
<1>11. Joins(straight, plan) /\ Pinned(straight)
  BY <1>6, <1>8, BetweenJoins
<1>. QED  BY <1>4, <1>9, <1>10, <1>11

-----------------------------------------------------------------------------
(* Resizing leaves the ends where they are.                                *)

\* The ends of a sequence, and of the poses of a band.
EndsOf(s) == <<s[1], s[Len(s)]>>
SameEnds(c, b) == Pose(c, 0) = Pose(b, 0) /\ BackPose(c) = BackPose(b)

\* Bands with the same poses at both ends have the same ends.
LEMMA EndsOfPoses ==
  ASSUME NEW b, NEW c, EndsOf(c.poses) = EndsOf(b.poses)
  PROVE  SameEnds(c, b)
<1>1. c.poses[1] = b.poses[1] /\ c.poses[Len(c.poses)] = b.poses[Len(b.poses)]
  BY DEF EndsOf
<1>2. 0 + 1 = 1
  OBVIOUS
<1>. QED  BY <1>1, <1>2 DEF SameEnds, Pose, BackPose

\* A pose inserted between two others is neither of the ends.
LEMMA InsertedBetween ==
  ASSUME NEW S, NEW s \in Seq(S), NEW n \in Nat, Len(s) = n, NEW i \in 2 .. n, NEW e \in S
  PROVE  EndsOf(InsertAt(s, i, e)) = EndsOf(s)
<1>. DEFINE t == InsertAt(s, i, e)
<1>1. i \in 1 .. n + 1
  OBVIOUS
<1>2. Len(t) = n + 1 /\ MakesRoom(t, s, n, i, e)
  <2>1. Len(InsertAt(s, i, e)) = n + 1
    BY <1>1, Inserted
  <2>2. MakesRoom(InsertAt(s, i, e), s, n, i, e)
    BY <1>1, Inserted
  <2>. QED  BY <2>1, <2>2
<1>3. \A j \in 1 .. n + 1 : t[j] = IF j < i THEN s[j] ELSE IF j = i THEN e ELSE s[j - 1]
  BY <1>2, Zenon DEF MakesRoom
<1>. HIDE DEF t
<1>4. t[1] = s[1]
  <2>1. 1 \in 1 .. n + 1 /\ 1 < i
    OBVIOUS
  <2>. QED  BY <1>3, <2>1
<1>5. t[n + 1] = s[n]
  <2>1. PICK m \in Nat : m = n + 1
    OBVIOUS
  <2>2. m \in 1 .. n + 1 /\ ~(m < i) /\ m # i /\ m - 1 = n
    BY <2>1
  <2>. QED  BY <1>3, <2>1, <2>2
<1>. QED  BY <1>2, <1>4, <1>5 DEF EndsOf, t

\* A pose removed between two others was neither of the ends.
LEMMA RemovedBetween ==
  ASSUME NEW S, NEW s \in Seq(S), NEW n \in Nat, Len(s) = n, NEW i \in 2 .. n - 1
  PROVE  EndsOf(RemoveAt(s, i)) = EndsOf(s)
<1>. DEFINE t == RemoveAt(s, i)
<1>1. i \in 1 .. n /\ n - 1 \in 1 .. n - 1 /\ 1 \in 1 .. n - 1
  OBVIOUS
<1>2. Len(t) = n - 1 /\ \A j \in 1 .. n - 1 : t[j] = IF j < i THEN s[j] ELSE s[j + 1]
  <2>1. Len(RemoveAt(s, i)) = n - 1
    BY <1>1, Removed
  <2>2. \A j \in 1 .. n - 1 : RemoveAt(s, i)[j] = IF j < i THEN s[j] ELSE s[j + 1]
    BY <1>1, Removed
  <2>. QED  BY <2>1, <2>2
<1>. HIDE DEF t
<1>3. t[1] = s[1]
  <2>1. 1 < i
    OBVIOUS
  <2>. QED  BY <1>1, <1>2, <2>1
<1>4. t[n - 1] = s[n]
  <2>1. PICK m \in Nat : m = n - 1
    BY <1>1
  <2>2. m \in 1 .. n - 1 /\ ~(m < i) /\ m + 1 = n
    BY <2>1
  <2>. QED  BY <1>2, <2>1, <2>2
<1>. QED  BY <1>2, <1>3, <1>4 DEF EndsOf, t

\* Only the poses named are touched.
LEMMA PosesOf ==
  ASSUME NEW b \in Bands
  PROVE  /\ \A i, dt : SetTimeDiff(b, i, dt).poses = b.poses
         /\ \A i, dt : InsertTimeDiff(b, i, dt).poses = b.poses
         /\ \A i : DeleteTimeDiff(b, i).poses = b.poses
         /\ \A i, p : InsertPose(b, i, p).poses = InsertAt(b.poses, i + 1, p)
         /\ \A i : DeletePose(b, i).poses = RemoveAt(b.poses, i + 1)
<1>1. b = [poses |-> b.poses, dts |-> b.dts]
  BY BandParts
<1>. QED  BY <1>1 DEF SetTimeDiff, InsertTimeDiff, DeleteTimeDiff, InsertPose, DeletePose

\* Splitting an interval leaves the ends.
LEMMA SplitEnds ==
  ASSUME NEW n \in Nat, NEW b \in Sized(n + 1, n), NEW i \in 0 .. n - 1
  PROVE  SameEnds(Split(b, i), b)
<1>. DEFINE half == TimeDiff(b, i) \div 2
            rest == TimeDiff(b, i) - half
            middle == Average(Pose(b, i), Pose(b, i + 1))
            b1 == SetTimeDiff(b, i, half)
            b2 == InsertPose(b1, i + 1, middle)
<1>1. half \in Nat /\ rest \in Nat
  BY SizedIndexed
<1>2. i \in 0 .. (n + 1) - 1 /\ i + 1 \in 0 .. (n + 1) - 1 /\ n + 1 \in Nat
      /\ i + 1 \in 0 .. n + 1
  OBVIOUS
<1>3. middle \in PoseRecords
  BY <1>2, SizedIndexed, AverageType
<1>. HIDE DEF half, rest, middle
<1>4. b1 \in Sized(n + 1, n) /\ b1.poses = b.poses
  BY <1>1, <1>2, SetTimeDiffSize, PosesOf DEF Sized
<1>. HIDE DEF b1
<1>5. b2 \in Sized((n + 1) + 1, n) /\ b2.poses = InsertAt(b.poses, (i + 1) + 1, middle)
  BY <1>2, <1>3, <1>4, InsertPoseSize, PosesOf DEF Sized
<1>. HIDE DEF b2
<1>6. InsertTimeDiff(b2, i + 1, rest).poses = InsertAt(b.poses, (i + 1) + 1, middle)
  BY <1>5, PosesOf DEF Sized
<1>7. EndsOf(InsertAt(b.poses, (i + 1) + 1, middle)) = EndsOf(b.poses)
  <2>1. PICK N \in Nat, I \in Nat : N = n + 1 /\ I = (i + 1) + 1
    BY <1>2
  <2>2. b.poses \in Seq(PoseRecords) /\ Len(b.poses) = N /\ I \in 2 .. N
    BY <1>2, <2>1, SizedParts
  <2>3. EndsOf(InsertAt(b.poses, I, middle)) = EndsOf(b.poses)
    BY <1>3, <2>2, InsertedBetween
  <2>. QED  BY <2>1, <2>3
<1>8. Split(b, i) = InsertTimeDiff(b2, i + 1, rest)
  BY DEF Split, half, rest, middle, b1, b2
<1>. QED  BY <1>6, <1>7, <1>8, EndsOfPoses

\* Moving the excess of one interval to the next leaves the ends.
LEMMA ShiftExcessEnds ==
  ASSUME NEW n \in Nat, NEW b \in Sized(n + 1, n), NEW i \in 0 .. n - 1, NEW dtRef \in Nat,
         TimeDiff(b, i) >= dtRef
  PROVE  SameEnds(ShiftExcess(b, i, dtRef), b)
<1>. DEFINE dt == TimeDiff(b, i + 1) + TimeDiff(b, i) - dtRef
            shifted == IF i < SizeTimeDiffs(b) - 1 THEN SetTimeDiff(b, i + 1, dt) ELSE b
<1>1. n + 1 \in Nat /\ SizeTimeDiffs(b) = n /\ b \in Bands
  BY SizedParts DEF Sized
<1>2. shifted \in Bands /\ shifted.poses = b.poses
  <2>1. CASE i < n - 1
    <3>1. i + 1 \in 0 .. n - 1
      BY <2>1
    <3>2. dt \in Nat
      BY <1>1, <3>1, SizedIndexed
    <3>3. SetTimeDiff(b, i + 1, dt) \in Sized(n + 1, n)
      BY <1>1, <3>1, <3>2, SetTimeDiffSize
    <3>. QED  BY <1>1, <2>1, <3>3, PosesOf DEF Sized
  <2>2. CASE ~(i < n - 1)
    BY <1>1, <2>2
  <2>. QED  BY <2>1, <2>2
<1>3. ShiftExcess(b, i, dtRef) = SetTimeDiff(shifted, i, dtRef)
  BY DEF ShiftExcess
<1>. HIDE DEF shifted
<1>4. SetTimeDiff(shifted, i, dtRef).poses = b.poses
  BY <1>2, PosesOf
<1>. QED  BY <1>3, <1>4, EndsOfPoses

\* An inner pose goes with an interval that is merged.
LEMMA MergeEnds ==
  ASSUME NEW n \in Nat, NEW b \in Sized(n + 1, n), NEW i \in 0 .. n - 1, NEW j \in 0 .. n - 1,
         NEW q \in 1 .. n - 1
  PROVE  SameEnds(DeletePose(DeleteTimeDiff(
                    SetTimeDiff(b, j, TimeDiff(b, j) + TimeDiff(b, i)), i), q), b)
<1>. DEFINE dt == TimeDiff(b, j) + TimeDiff(b, i)
            b1 == SetTimeDiff(b, j, dt)
            b2 == DeleteTimeDiff(b1, i)
<1>1. n + 1 \in Nat /\ n - 1 \in Nat
  OBVIOUS
<1>2. dt \in Nat
  BY <1>1, SizedIndexed
<1>. HIDE DEF dt
<1>3. b1 \in Sized(n + 1, n) /\ b1.poses = b.poses
  BY <1>1, <1>2, SetTimeDiffSize, PosesOf DEF Sized
<1>. HIDE DEF b1
<1>4. b2 \in Sized(n + 1, n - 1) /\ b2.poses = b.poses
  BY <1>1, <1>3, DeleteTimeDiffSize, PosesOf DEF Sized
<1>. HIDE DEF b2
<1>5. DeletePose(b2, q).poses = RemoveAt(b.poses, q + 1)
  BY <1>4, PosesOf DEF Sized
<1>6. EndsOf(RemoveAt(b.poses, q + 1)) = EndsOf(b.poses)
  <2>1. PICK N \in Nat, I \in Nat : N = n + 1 /\ I = q + 1
    BY <1>1
  <2>2. b.poses \in Seq(PoseRecords) /\ Len(b.poses) = N /\ I \in 2 .. N - 1
    BY <1>1, <2>1, SizedParts
  <2>3. EndsOf(RemoveAt(b.poses, I)) = EndsOf(b.poses)
    BY <2>2, RemovedBetween
  <2>. QED  BY <2>1, <2>3
<1>7. SameEnds(DeletePose(b2, q), b)
  BY <1>5, <1>6, EndsOfPoses
<1>. QED  BY <1>7 DEF b2, b1, dt

\* A round of autoResize leaves the ends.
LEMMA ResizeStepEnds ==
  ASSUME NEW b \in ProperBands, NEW i \in Nat, i < SizeTimeDiffs(b), NEW c \in ConfigRecords
  PROVE  SameEnds(ResizeStep(b, i, c).band, b)
<1>1. PICK n \in Nat : n = SizeTimeDiffs(b)
  BY SizedIsTimed, ProperIsTimed
<1>2. n >= 1 /\ b \in Sized(n + 1, n) /\ i \in 0 .. n - 1 /\ n + 1 \in Nat
  BY <1>1, SizedIsTimed, ProperIsTimed
<1>. DEFINE dt == TimeDiff(b, i)
            long == dt > c.dtRef + c.hysteresis /\ SizeTimeDiffs(b) < c.maxSamples
            short == dt < c.dtRef - c.hysteresis /\ SizeTimeDiffs(b) > c.minSamples
            r1 == [band |-> Split(b, i), next |-> i, modified |-> TRUE]
            r2 == [band |-> ShiftExcess(b, i, c.dtRef), next |-> i + 1, modified |-> FALSE]
            r3 == [band |-> MergeIntoNext(b, i), next |-> i, modified |-> TRUE]
            r4 == [band |-> MergeIntoPrevious(b, i), next |-> i + 1, modified |-> TRUE]
            r5 == [band |-> b, next |-> i + 1, modified |-> FALSE]
            Keeps(r) == SameEnds(r.band, b)
<1>3. dt \in Nat /\ c.dtRef \in Nat /\ c.hysteresis \in Nat /\ c.minSamples \in Nat /\ c.minSamples >= 3
  <2>1. dt \in Nat
    BY <1>2, SizedIndexed
  <2>2. c.dtRef \in Nat \ {0} /\ c.hysteresis \in Nat /\ c.minSamples \in Nat \ (0 .. 2)
    BY DEF ConfigRecords
  <2>. QED  BY <2>1, <2>2
<1>4. long => Keeps(r1) /\ Keeps(r2)
  <2>1. SUFFICES ASSUME long  PROVE Keeps(r1) /\ Keeps(r2)
    OBVIOUS
  <2>2. dt >= c.dtRef
    BY <1>3, <2>1
  <2>3. SameEnds(Split(b, i), b)
    BY <1>2, SplitEnds
  <2>4. SameEnds(ShiftExcess(b, i, c.dtRef), b)
    BY <1>2, <1>3, <2>2, ShiftExcessEnds
  <2>. QED  BY <2>3, <2>4
<1>5. short /\ i < SizeTimeDiffs(b) - 1 => Keeps(r3)
  <2>1. SUFFICES ASSUME short, i < SizeTimeDiffs(b) - 1  PROVE Keeps(r3)
    OBVIOUS
  <2>2. i + 1 \in 0 .. n - 1 /\ i + 1 \in 1 .. n - 1
    BY <1>1, <1>2, <2>1
  <2>3. SameEnds(MergeIntoNext(b, i), b)
    BY <1>2, <2>2, MergeEnds DEF MergeIntoNext
  <2>. QED  BY <2>3
<1>6. short /\ i = SizeTimeDiffs(b) - 1 => Keeps(r4)
  <2>1. SUFFICES ASSUME short, i = n - 1  PROVE Keeps(r4)
    BY <1>1
  <2>2. i - 1 \in 0 .. n - 1 /\ i \in 1 .. n - 1
    BY <1>1, <1>2, <1>3, <2>1
  <2>3. SameEnds(MergeIntoPrevious(b, i), b)
    BY <1>2, <2>2, MergeEnds DEF MergeIntoPrevious
  <2>. QED  BY <2>3
<1>7. Keeps(r5)
  BY DEF SameEnds
<1>8. ResizeStep(b, i, c) =
        CASE long /\ dt > 2 * c.dtRef -> r1
          [] long /\ dt <= 2 * c.dtRef -> r2
          [] ~long /\ short /\ i < SizeTimeDiffs(b) - 1 -> r3
          [] ~long /\ short /\ i = SizeTimeDiffs(b) - 1 -> r4
          [] OTHER -> r5
  BY Zenon DEF ResizeStep
<1>9. \/ ResizeStep(b, i, c) = r5
      \/ long /\ ResizeStep(b, i, c) \in {r1, r2}
      \/ short /\ i < SizeTimeDiffs(b) - 1 /\ ResizeStep(b, i, c) = r3
      \/ short /\ i = SizeTimeDiffs(b) - 1 /\ ResizeStep(b, i, c) = r4
  <2>. HIDE DEF r1, r2, r3, r4, r5, long, short, dt
  <2>. QED  BY <1>8
<1>10. Keeps(ResizeStep(b, i, c))
  <2>. HIDE DEF r1, r2, r3, r4, r5, long, short, dt, Keeps
  <2>. QED  BY <1>4, <1>5, <1>6, <1>7, <1>9
<1>. QED  BY <1>10

-----------------------------------------------------------------------------
(* What the trajectory connects.                                           *)

\* During a call the band leads from the start of the plan to its end, and so
\* does the cold seed it may fall back to; without the motion model of a
\* robot that surges and turns both ends are fixed, also between two calls.
EndsSound ==
  /\ pc = "subdivide" => cfg.differential
  /\ pc # "idle" =>
       /\ Joins(band, request.plan)
       /\ request.warm /\ ~request.retried =>
            Joins(request.cold, request.plan) /\ (~cfg.differential => Pinned(request.cold))
  /\ ~cfg.differential /\ band # EmptyBand => Pinned(band)

\* The ends are where they were, and fixed when they were.
KeepsEnds(c, b) ==
  /\ Alike(Pose(c, 0), Pose(b, 0)) /\ Alike(BackPose(c), BackPose(b))
  /\ ~cfg.differential /\ Pinned(b) => Pinned(c)

\* A band that was initialized is not the empty one.
LEMMA ProperIsNotEmpty ==
  EmptyBand \notin ProperBands
<1>1. Len(EmptyBand.poses) = 0
  BY EmptySeq DEF EmptyBand
<1>. QED  BY <1>1 DEF ProperBands

\* A band that keeps its ends joins what it joined.
LEMMA EndsKept ==
  ASSUME NEW b, NEW c, NEW plan, KeepsEnds(c, b), Joins(b, plan)
  PROVE  Joins(c, plan)
BY DEF KeepsEnds, Joins, Alike

\* A band that is left as it is keeps its ends.
LEMMA EndsUnmoved ==
  ASSUME NEW b, NEW c, c = b
  PROVE  KeepsEnds(c, b)
BY DEF KeepsEnds, Alike

\* A band with the same end poses, and their flags, keeps its ends.
LEMMA SameEndsKept ==
  ASSUME NEW b, NEW c, SameEnds(c, b)
  PROVE  KeepsEnds(c, b)
BY DEF KeepsEnds, SameEnds, Alike, Pinned

\* A seed or a band that is updated joins the plan.
LEMMA UpdatedJoins ==
  ASSUME NEW b \in ProperBands, NEW plan, NEW start \in Samples, NEW goal \in Samples,
         NEW minSamples \in Nat, minSamples >= 2, NEW timed \in BOOLEAN,
         Alike(start, plan[1]), Alike(goal, Last(plan))
  PROVE  LET u == UpdateAndPruneTEB(b, start, goal, minSamples, timed) IN
         Joins(u, plan) /\ (Pinned(b) => Pinned(u))
<1>. DEFINE u == UpdateAndPruneTEB(b, start, goal, minSamples, timed)
<1>1. /\ Pose(u, 0).x = start.x /\ Pose(u, 0).yaw = start.yaw
      /\ Pose(u, 0).fixed = Pose(b, 0).fixed
      /\ BackPose(u).x = goal.x /\ BackPose(u).yaw = goal.yaw
      /\ BackPose(u).fixed = BackPose(b).fixed
  BY UpdateAndPruneTEBEnds
<1>. HIDE DEF u
<1>2. Joins(u, plan) /\ (Pinned(b) => Pinned(u))
  BY <1>1 DEF Joins, Pinned, Alike
<1>. QED  BY <1>2 DEF u

\* A call that begins.
LEMMA PlanEndsSound ==
  ASSUME IInv, EndsSound, NEW plan \in cfg.plans, Plan(plan)
  PROVE  EndsSound'
<1>. DEFINE r == Prepare(plan)
            c == IF r.warm THEN ColdBand(r) ELSE r.cold
            q == [r EXCEPT !.cold = c]
            updated == UpdateAndPruneTEB(band, r.start, r.goal, cfg.minSamples, cfg.differential)
            fresh == Initialized(plan, r.goal.yaw, FALSE, r.terminalYaw)
<1>1. cfg \in ConfigRecords /\ plan \in Seq(Samples) \ {<<>>}
  BY ConfigTyped, PlanTyped
<1>2. pc = "idle" /\ band \in {EmptyBand} \cup ProperBands
  BY DEF Plan, IInv, CallHasBand
<1>3. r \in RequestRecords /\ r.plan = plan /\ (r.warm => band \in ProperBands)
  BY <1>1, <1>2, PrepareType
<1>4. AsksFor(r, plan)
  BY <1>1, <1>2, PrepareParts
<1>5. request' = q /\ band' = (IF r.warm THEN updated ELSE fresh) /\ pc' = AfterSeed /\ cfg' = cfg
  BY DEF Plan
<1>. HIDE DEF r
<1>6. r.start \in Samples /\ r.goal \in Samples /\ r.goal.yaw \in Int /\ r.start.yaw \in Int
      /\ r.terminalYaw \in Int
  BY <1>3 DEF RequestRecords, Samples
<1>7. q.warm = r.warm /\ q.cold = c /\ q.plan = plan
  BY <1>3 DEF RequestRecords
<1>. HIDE DEF q
<1>8. Alike(r.start, plan[1]) /\ Alike(r.goal, Last(plan))
  BY <1>4 DEF AsksFor, Alike
<1>9. r.warm => Joins(updated, plan) /\ (Pinned(band) => Pinned(updated))
  <2>1. cfg.minSamples \in Nat /\ cfg.minSamples >= 2 /\ cfg.differential \in BOOLEAN
    <3>1. cfg.minSamples \in Nat \ (0 .. 2) /\ cfg.differential \in BOOLEAN
      BY <1>1 DEF ConfigRecords
    <3>. QED  BY <3>1
  <2>. QED  BY <1>3, <1>6, <1>8, <2>1, UpdatedJoins
<1>10. Normalize(r.goal.yaw) = Normalize(Last(plan).yaw)
  BY <1>4 DEF AsksFor
<1>11. Normalize(r.terminalYaw) = Normalize(Last(plan).yaw)
  <2>1. plan[1] \in Samples
    BY <1>1, PlanEnds
  <2>2. PICK g \in Int, s \in Int : g = r.goal.yaw /\ s = r.start.yaw
    BY <1>6
  <2>3. PICK f \in Int : f = plan[1].yaw
    BY <2>1 DEF Samples
  <2>4. r.terminalYaw = g - s + f /\ Normalize(s) = Normalize(f)
    BY <1>4, <2>2, <2>3 DEF AsksFor
  <2>5. Normalize(g - s + f) = Normalize(g)
    BY <2>4, Shifted
  <2>. QED  BY <1>10, <2>2, <2>4, <2>5
<1>12. Joins(fresh, plan) /\ (~cfg.differential => Pinned(fresh))
  <2>1. FALSE \in BOOLEAN
    OBVIOUS
  <2>. QED  BY <1>1, <1>6, <1>10, <1>11, <2>1, InitializedJoins
<1>13. r.warm => Joins(c, plan) /\ (~cfg.differential => Pinned(c))
  <2>1. SUFFICES ASSUME r.warm  PROVE Joins(c, plan) /\ (~cfg.differential => Pinned(c))
    OBVIOUS
  <2>. DEFINE e == Initialized(plan, r.goal.yaw, TRUE, r.terminalYaw)
  <2>2. TRUE \in BOOLEAN
    OBVIOUS
  <2>3. Joins(e, plan) /\ (~cfg.differential => Pinned(e))
    BY <1>1, <1>6, <1>10, <1>11, <2>2, InitializedJoins
  <2>4. c = e
    BY <1>3, <2>1 DEF ColdBand
  <2>. HIDE DEF c, e
  <2>. QED  BY <2>3, <2>4
<1>. HIDE DEF updated, fresh, c
<1>14. Joins(band', plan)
  BY <1>5, <1>9, <1>12
<1>15. ~cfg.differential => Pinned(band')
  <2>1. r.warm /\ ~cfg.differential => Pinned(band)
    BY <1>3, ProperIsNotEmpty DEF EndsSound
  <2>. QED  BY <1>5, <1>9, <1>12, <2>1
<1>16. request'.plan = plan /\ request'.warm = r.warm /\ request'.cold = c
  BY <1>5, <1>7
<1>17. pc' = "subdivide" => cfg.differential
  BY <1>5 DEF AfterSeed
<1>18. Joins(request.cold, request.plan)' = Joins(c, plan) /\ Pinned(request.cold)' = Pinned(c)
  BY <1>16 DEF Joins, Pinned
<1>19. Joins(band, request.plan)' = Joins(band', plan) /\ Pinned(band)' = Pinned(band')
  BY <1>16
<1>. QED  BY <1>5, <1>13, <1>14, <1>15, <1>16, <1>17, <1>18, <1>19 DEF EndsSound

\* A candidate is updated, or new.
LEMMA CandidateEndsSound ==
  ASSUME IInv, EndsSound, NEW plan \in cfg.plans, OptimizeCandidate(plan)
  PROVE  EndsSound'
<1>. DEFINE r == Prepare(plan)
            q == [r EXCEPT !.warm = FALSE]
            updated == UpdateAndPruneTEB(band, plan[1], Last(plan), 3, FALSE)
<1>1. cfg \in ConfigRecords /\ plan \in Seq(Samples) \ {<<>>}
  BY ConfigTyped, PlanTyped
<1>2. pc = "idle" /\ band \in {EmptyBand} \cup ProperBands
  BY DEF OptimizeCandidate, IInv, CallHasBand
<1>3. r \in RequestRecords /\ r.plan = plan
  BY <1>1, <1>2, PrepareType
<1>4. request' = q /\ band' \in (IF IsInit(band) THEN {updated} ELSE NewCandidates(plan))
      /\ cfg' = cfg /\ pc' = "optimize"
  BY DEF OptimizeCandidate
<1>. HIDE DEF r
<1>5. q.plan = plan /\ q.warm = FALSE
  BY <1>3 DEF RequestRecords
<1>. HIDE DEF q
<1>6. IsInit(band) => band \in ProperBands
  BY <1>2, InitIsProper
<1>7. IsInit(band) => Joins(updated, plan) /\ (Pinned(band) => Pinned(updated))
  <2>1. plan[1] \in Samples /\ Last(plan) \in Samples
    BY <1>1, PlanEnds
  <2>2. 3 \in Nat /\ 3 >= 2 /\ FALSE \in BOOLEAN
    OBVIOUS
  <2>3. Alike(plan[1], plan[1]) /\ Alike(Last(plan), Last(plan))
    BY DEF Alike
  <2>. QED  BY <1>6, <2>1, <2>2, <2>3, UpdatedJoins
<1>8. \A b \in NewCandidates(plan) : Joins(b, plan) /\ (~cfg.differential => Pinned(b))
  BY <1>1, NewCandidatesJoin
<1>. HIDE DEF updated
<1>9. IsInit(band) /\ ~cfg.differential => Pinned(band)
  BY <1>6, ProperIsNotEmpty DEF EndsSound
<1>10. Joins(band', plan) /\ (~cfg.differential => Pinned(band'))
  BY <1>4, <1>7, <1>8, <1>9
<1>11. request'.plan = plan /\ request'.warm = FALSE
  BY <1>4, <1>5
<1>12. Joins(band, request.plan)' = Joins(band', plan) /\ Pinned(band)' = Pinned(band')
  BY <1>11
<1>. QED  BY <1>4, <1>10, <1>11, <1>12 DEF EndsSound

\* A call that fails ends, or falls back to the cold seed.
LEMMA FailEndsSound ==
  ASSUME IInv, EndsSound, pc # "idle", NEW left, Fail(left), cfg' = cfg,
         ~cfg.differential => left = {band}
  PROVE  EndsSound'
<1>1. CASE request.warm /\ ~request.retried
  <2>. DEFINE q == [request EXCEPT !.retried = TRUE]
  <2>1. request' = q /\ band' = request.cold /\ pc' = AfterSeed
    BY <1>1 DEF Fail
  <2>2. request \in RequestRecords
    BY InCall
  <2>3. q.retried = TRUE /\ q.plan = request.plan
    BY <2>2 DEF RequestRecords
  <2>. HIDE DEF q
  <2>4. Joins(request.cold, request.plan) /\ (~cfg.differential => Pinned(request.cold))
    BY <1>1 DEF EndsSound
  <2>5. Joins(band, request.plan)' = Joins(request.cold, request.plan)
        /\ Pinned(band)' = Pinned(request.cold)
    BY <2>1, <2>3 DEF Joins, Pinned
  <2>6. pc' = "subdivide" => cfg'.differential
    BY <2>1 DEF AfterSeed
  <2>7. request'.retried = TRUE
    BY <2>1, <2>3
  <2>. QED  BY <2>4, <2>5, <2>6, <2>7 DEF EndsSound
<1>2. CASE ~(request.warm /\ ~request.retried)
  <2>1. pc' = "idle" /\ band' \in left
    BY <1>2 DEF Fail, Answer
  <2>2. ~cfg.differential => band' = band
    BY <2>1
  <2>3. ~cfg.differential => Pinned(band)
    BY InCall, ProperIsNotEmpty DEF EndsSound
  <2>4. ~cfg'.differential => Pinned(band)'
    BY <2>2, <2>3
  <2>. QED  BY <2>1, <2>4 DEF EndsSound
<1>. QED  BY <1>1, <1>2

\* A step that keeps the ends, within a call or at its end.
LEMMA EndsStep ==
  ASSUME IInv, EndsSound, pc # "idle", cfg' = cfg, pc' = "idle" \/ request' = request,
         pc' = "subdivide" => pc = "subdivide", KeepsEnds(band', band)
  PROVE  EndsSound'
<1>1. ~cfg.differential => Pinned(band')
  BY InCall, ProperIsNotEmpty DEF EndsSound, KeepsEnds
<1>2. Joins(band', request.plan)
  BY EndsKept DEF EndsSound
<1>3. Pinned(band)' = Pinned(band')
  OBVIOUS
<1>4. CASE pc' = "idle"
  BY <1>1, <1>3, <1>4 DEF EndsSound
<1>5. CASE request' = request
  <2>1. Joins(band, request.plan)' = Joins(band', request.plan)
        /\ Joins(request.cold, request.plan)' = Joins(request.cold, request.plan)
        /\ Pinned(request.cold)' = Pinned(request.cold)
    BY <1>5
  <2>. QED  BY <1>1, <1>2, <1>3, <1>5, <2>1 DEF EndsSound
<1>. QED  BY <1>4, <1>5

\* The rollout of a band leads between the same ends.
LEMMA RolloutKeepsEnds ==
  ASSUME NEW b \in ProperBands, cfg.differential
  PROVE  KeepsEnds(Rollout(b), b)
<1>. DEFINE c == Rollout(b)
<1>1. b \in TimedBands
  BY ProperIsTimed
<1>2. c \in TimedBands /\ AlikeBands(c, b)
  BY <1>1, RolloutAlike
<1>. HIDE DEF c
<1>3. PICK n \in Nat : n = SizeTimeDiffs(b) /\ n = SizeTimeDiffs(c)
  BY <1>1, <1>2, SizedIsTimed DEF AlikeBands
<1>4. Alike(Pose(c, 0), Pose(b, 0)) /\ Alike(Pose(c, n), Pose(b, n))
  BY <1>2, <1>3 DEF AlikeBands
<1>5. BackPose(c) = Pose(c, n) /\ BackPose(b) = Pose(b, n)
  BY <1>1, <1>2, <1>3, LastPose
<1>6. KeepsEnds(c, b)
  BY <1>4, <1>5 DEF KeepsEnds
<1>. QED  BY <1>6 DEF c

\* An inner pose is moved.
LEMMA MovedKeepsEnds ==
  ASSUME NEW b \in ProperBands, NEW n \in Nat, n = SizeTimeDiffs(b), NEW i \in 1 .. n - 1,
         NEW x \in Int, NEW yaw \in Int
  PROVE  SameEnds(Moved(b, i, x, yaw), b) /\ Moved(b, i, x, yaw) \in ProperBands
<1>. DEFINE m == Moved(b, i, x, yaw)
<1>1. b \in Sized(n + 1, n) /\ i \in 0 .. n /\ i # 0 /\ i # n /\ 0 \in 0 .. n /\ n \in 0 .. n
      /\ SizePoses(b) = n + 1 /\ b \in TimedBands
  BY SizedIsTimed, ProperIsTimed
<1>2. m \in Sized(n + 1, n) /\ \A k \in 0 .. n : k # i => Pose(m, k) = Pose(b, k)
  BY <1>1, MovedPose
<1>3. m \in ProperBands
  <2>1. i \in 0 .. SizePoses(b) - 1
    BY <1>1
  <2>. QED  BY <2>1, MovedProper
<1>. HIDE DEF m
<1>4. m \in TimedBands /\ SizeTimeDiffs(m) = n
  BY <1>2, <1>3, ProperIsTimed, SizedParts
<1>5. BackPose(m) = Pose(m, n) /\ BackPose(b) = Pose(b, n)
  BY <1>1, <1>4, LastPose
<1>6. SameEnds(m, b)
  BY <1>1, <1>2, <1>5 DEF SameEnds
<1>. QED  BY <1>3, <1>6 DEF m

\* g2o leaves the ends, which are fixed.
LEMMA MoveVertexKeepsEnds ==
  ASSUME IInv, EndsSound, MoveVertex
  PROVE  KeepsEnds(band', band)
<1>1. pc = "solve" /\ ~cfg.differential
  BY DEF MoveVertex
<1>2. band \in ProperBands /\ band \in TimedBands /\ Pinned(band)
  BY <1>1, InCall, ProperIsNotEmpty DEF EndsSound
<1>3. PICK n \in Nat : n = SizeTimeDiffs(band) /\ SizePoses(band) = n + 1 /\ n >= 1
  BY <1>2, SizedIsTimed
<1>4. CASE \E i \in 0 .. SizePoses(band) - 1, x \in Positions :
             ~Pose(band, i).fixed /\ band' = Moved(band, i, x, Pose(band, i).yaw)
  <2>1. PICK i \in 0 .. SizePoses(band) - 1, x \in Positions :
          ~Pose(band, i).fixed /\ band' = Moved(band, i, x, Pose(band, i).yaw)
    BY <1>4
  <2>2. x \in Int /\ Pose(band, i).yaw \in Int
    BY <1>2, PlannerAssumption, Indexed DEF PoseRecords
  <2>3. i # 0 /\ i # n
    BY <1>2, <1>3, <2>1, LastPose DEF Pinned
  <2>4. i \in 1 .. n - 1
    BY <1>3, <2>3
  <2>5. PICK yaw \in Int : yaw = Pose(band, i).yaw
    BY <2>2
  <2>6. SameEnds(Moved(band, i, x, yaw), band)
    BY <1>2, <1>3, <2>2, <2>4, MovedKeepsEnds
  <2>7. SameEnds(band', band)
    BY <2>1, <2>5, <2>6
  <2>. QED  BY <2>7, SameEndsKept
<1>5. CASE \E i \in 0 .. SizeTimeDiffs(band) - 1, dt \in Durations :
             band' = SetTimeDiff(band, i, dt)
  <2>1. PICK i \in 0 .. SizeTimeDiffs(band) - 1, dt \in Durations : band' = SetTimeDiff(band, i, dt)
    BY <1>5
  <2>2. band'.poses = band.poses
    BY <1>2, <2>1, PosesOf, ProperIsTimed
  <2>3. SameEnds(band', band)
    BY <2>2, EndsOfPoses
  <2>. QED  BY <2>3, SameEndsKept
<1>. QED  BY <1>4, <1>5 DEF MoveVertex

\* nlopt controls the primitives in between.
LEMMA MoveControlKeepsEnds ==
  ASSUME IInv, MoveControl
  PROVE  KeepsEnds(band', band)
<1>1. pc = "solve" /\ cfg.differential
  BY DEF MoveControl
<1>2. band \in ProperBands /\ band \in TimedBands
  BY <1>1, InCall
<1>3. PICK n \in Nat : n = SizeTimeDiffs(band) /\ SizePoses(band) = n + 1 /\ n >= 1
  BY <1>2, SizedIsTimed
<1>4. PICK i \in 1 .. SizePoses(band) - 2, x \in Positions, angle \in {-Quarter, 0, Quarter} :
        band' = Rollout(Moved(band, i, x, Pose(band, i - 1).yaw + angle))
  BY DEF MoveControl
<1>5. x \in Int /\ Pose(band, i - 1).yaw + angle \in Int
  <2>1. i - 1 \in 0 .. SizePoses(band) - 1
    BY <1>2, Indexed
  <2>2. Pose(band, i - 1).yaw \in Int
    BY <1>2, <2>1, Indexed DEF PoseRecords
  <2>3. angle \in Int
    BY DEF Quarter
  <2>. QED  BY <2>2, <2>3, PlannerAssumption
<1>6. PICK yaw \in Int : yaw = Pose(band, i - 1).yaw + angle
  BY <1>5
<1>. DEFINE m == Moved(band, i, x, yaw)
<1>7. SameEnds(m, band) /\ m \in ProperBands
  <2>1. i \in 1 .. n - 1
    BY <1>3
  <2>. QED  BY <1>2, <1>3, <1>5, <2>1, MovedKeepsEnds
<1>8. band' = Rollout(m)
  BY <1>4, <1>6
<1>. HIDE DEF m
<1>9. KeepsEnds(Rollout(m), m)
  BY <1>1, <1>7, RolloutKeepsEnds
<1>. QED  BY <1>1, <1>7, <1>8, <1>9 DEF KeepsEnds, SameEnds

\* A step of a call fails, or keeps the ends.
Falls == \E left : Fail(left) /\ (~cfg.differential => left = {band})
Stays ==
  /\ KeepsEnds(band', band)
  /\ (pc' = "idle" /\ answer') \/ (pc' # "idle" /\ request' = request)
  /\ pc' = "subdivide" => pc = "subdivide"

\* A step of a call falls back to the cold seed, gives up, or stays with a band that keeps the ends.
LEMMA StepsOfCall ==
  ASSUME IInv, EndsSound, [Next]_vars, pc # "idle"
  PROVE  cfg' = cfg /\ (Falls \/ Stays)
<1>1. ASSUME Subdivide  PROVE cfg' = cfg /\ Stays
  <2>1. pc = "subdivide" /\ pc' \in {"subdivide", "optimize"} /\ UNCHANGED <<cfg, request>>
    BY <1>1, Zenon DEF Subdivide
  <2>2. /\ Pose(band', 0).x = Pose(band, 0).x /\ Pose(band', 0).yaw = Pose(band, 0).yaw
        /\ BackPose(band').x = BackPose(band).x /\ BackPose(band').yaw = BackPose(band).yaw
    BY <1>1, SubdivideEnds
  <2>3. KeepsEnds(band', band)
    BY <2>1, <2>2 DEF KeepsEnds, EndsSound, Alike
  <2>. QED  BY <2>1, <2>3 DEF Stays
<1>2. ASSUME pc' # "idle", pc' # "subdivide", UNCHANGED <<cfg, band, request>>
      PROVE  cfg' = cfg /\ Stays
  BY <1>2, EndsUnmoved DEF Stays
<1>3. ASSUME Fail({band}), cfg' = cfg  PROVE cfg' = cfg /\ Falls
  BY <1>3, Zenon DEF Falls
<1>4. ASSUME Optimize  PROVE cfg' = cfg /\ (Falls \/ Stays)
  <2>1. cfg' = cfg
    BY <1>4 DEF Optimize
  <2>2. Fail({band}) \/ (pc' = "iterate" /\ UNCHANGED <<band, request>>)
    BY <1>4, Zenon DEF Optimize
  <2>. QED  BY <1>2, <1>3, <2>1, <2>2
<1>5. ASSUME Iterate  PROVE cfg' = cfg /\ Stays
  <2>1. UNCHANGED <<cfg, band>>
    BY <1>5 DEF Iterate
  <2>2. \/ pc' = "idle" /\ answer'
        \/ pc' \in {"resize", "build"} /\ request' = request
    BY <1>5 DEF Iterate, Answer
  <2>3. KeepsEnds(band', band)
    BY <2>1, EndsUnmoved
  <2>. QED  BY <2>1, <2>2, <2>3 DEF Stays
<1>6. ASSUME Resize  PROVE cfg' = cfg /\ Stays
  <2>1. pc = "resize" /\ pc' \in {"resize", "build"} /\ UNCHANGED <<cfg, request>>
    BY <1>6, Zenon DEF Resize
  <2>2. KeepsEnds(band', band)
    <3>1. CASE loop.at < SizeTimeDiffs(band)
      <4>1. band' = ResizeStep(band, loop.at, cfg).band
        BY <1>6, <3>1, Zenon DEF Resize
      <4>2. band \in ProperBands /\ loop.at \in Nat /\ cfg \in ConfigRecords
        BY <2>1, InCall
      <4>3. SameEnds(band', band)
        BY <3>1, <4>1, <4>2, ResizeStepEnds
      <4>. QED  BY <4>3, SameEndsKept
    <3>2. CASE ~(loop.at < SizeTimeDiffs(band))
      <4>1. band' = band
        BY <1>6, <3>2, Zenon DEF Resize
      <4>. QED  BY <4>1, EndsUnmoved
    <3>. QED  BY <3>1, <3>2
  <2>. QED  BY <2>1, <2>2 DEF Stays
<1>7. ASSUME Build  PROVE cfg' = cfg /\ (Falls \/ Stays)
  <2>1. cfg' = cfg
    BY <1>7 DEF Build
  <2>2. Fail({band}) \/ (pc' = "prepare" /\ UNCHANGED <<band, request>>)
    BY <1>7, Zenon DEF Build
  <2>. QED  BY <1>2, <1>3, <2>1, <2>2
<1>8. ASSUME PrepareSolve  PROVE cfg' = cfg /\ (Falls \/ Stays)
  <2>1. cfg' = cfg
    BY <1>8 DEF PrepareSolve
  <2>2. Fail({band}) \/ (pc' = "solve" /\ UNCHANGED <<band, request>>)
    BY <1>8, Zenon DEF PrepareSolve
  <2>. QED  BY <1>2, <1>3, <2>1, <2>2
<1>9. ASSUME MoveVertex \/ MoveControl  PROVE cfg' = cfg /\ Stays
  <2>1. pc = "solve" /\ pc' = pc /\ UNCHANGED <<cfg, request>>
    BY <1>9 DEF MoveVertex, MoveControl
  <2>2. KeepsEnds(band', band)
    BY <1>9, MoveVertexKeepsEnds, MoveControlKeepsEnds
  <2>. QED  BY <2>1, <2>2 DEF Stays
<1>10. ASSUME Solved  PROVE cfg' = cfg /\ Stays
  <2>1. pc = "solve" /\ cfg' = cfg /\ band' = IF cfg.differential THEN Rollout(band) ELSE band
    BY <1>10 DEF Solved
  <2>2. \/ pc' = "idle" /\ answer'
        \/ pc' = "iterate" /\ request' = request
    BY <1>10, Zenon DEF Solved, Answer
  <2>3. KeepsEnds(band', band)
    BY <2>1, InCall, RolloutKeepsEnds, EndsUnmoved
  <2>. QED  BY <2>1, <2>2, <2>3 DEF Stays
<1>11. ASSUME Unsolved  PROVE cfg' = cfg /\ Falls
  <2>. DEFINE left == IF cfg.differential
                      THEN {Moved(band, SizePoses(band) - 1, x, BackPose(band).yaw) : x \in Positions}
                      ELSE {band}
  <2>1. cfg' = cfg /\ Fail(left)
    BY <1>11, Zenon DEF Unsolved
  <2>2. ~cfg.differential => left = {band}
    OBVIOUS
  <2>. HIDE DEF left
  <2>. QED  BY <2>1, <2>2 DEF Falls
<1>12. ASSUME Expire \/ UNCHANGED vars  PROVE cfg' = cfg /\ Stays
  <2>1. UNCHANGED <<cfg, band, pc, request>>
    BY <1>12 DEF Expire, vars
  <2>. QED  BY <2>1, EndsUnmoved DEF Stays
<1>13. ~ClearPlanner /\ \A plan \in cfg.plans : ~Plan(plan) /\ ~OptimizeCandidate(plan)
  BY DEF ClearPlanner, Plan, OptimizeCandidate
<1>14. Step => cfg' = cfg /\ (Falls \/ Stays)
  BY <1>1, <1>4, <1>5, <1>6, <1>7, <1>8, <1>10, <1>11 DEF Step, Finish
<1>. QED  BY <1>9, <1>12, <1>13, <1>14 DEF Next, Call

\* Every step keeps what the band and the cold seed connect.
LEMMA EndsSoundKept ==
  ASSUME IInv, EndsSound, [Next]_vars
  PROVE  EndsSound'
<1>1. CASE pc # "idle"
  <2>1. cfg' = cfg /\ (Falls \/ Stays)
    BY <1>1, StepsOfCall
  <2>2. CASE Falls
    <3>1. PICK left : Fail(left) /\ (~cfg.differential => left = {band})
      BY <2>2 DEF Falls
    <3>. QED  BY <1>1, <2>1, <3>1, FailEndsSound
  <2>3. CASE Stays
    BY <1>1, <2>1, <2>3, EndsStep DEF Stays
  <2>. QED  BY <2>1, <2>2, <2>3
<1>2. CASE pc = "idle"
  <2>1. ASSUME NEW plan \in cfg.plans, Plan(plan)  PROVE EndsSound'
    BY <2>1, PlanEndsSound
  <2>2. ASSUME NEW plan \in cfg.plans, OptimizeCandidate(plan)  PROVE EndsSound'
    BY <2>2, CandidateEndsSound
  <2>3. ASSUME ClearPlanner  PROVE EndsSound'
    <3>1. cfg' = cfg /\ pc' = "idle" /\ band' = ClearTimedElasticBand(band)
      BY <2>3 DEF ClearPlanner
    <3>2. band \in Bands
      BY <1>2, EmptyBandIsBand, ProperIsTimed DEF IInv, CallHasBand
    <3>3. band' = EmptyBand
      BY <3>1, <3>2 DEF ClearTimedElasticBand, EmptyBand, Bands
    <3>4. EmptyBand' = EmptyBand
      BY DEF EmptyBand
    <3>. QED  BY <3>1, <3>3, <3>4 DEF EndsSound
  <2>4. ASSUME UNCHANGED vars  PROVE EndsSound'
    BY <2>4 DEF vars, EndsSound
  <2>5. ~Step /\ ~Expire /\ ~MoveVertex /\ ~MoveControl
    <3>1. ~Subdivide /\ ~Optimize /\ ~Iterate /\ ~Resize
      BY <1>2 DEF Subdivide, Optimize, Iterate, Resize
    <3>2. ~Build /\ ~PrepareSolve /\ ~Finish
      BY <1>2 DEF Build, PrepareSolve, Finish, Solved, Unsolved
    <3>. QED  BY <1>2, <3>1, <3>2 DEF Step, Expire, MoveVertex, MoveControl
  <2>. QED  BY <2>1, <2>2, <2>3, <2>4, <2>5 DEF Next, Call
<1>. QED  BY <1>1, <1>2

\* The ends are sound in every reachable state.
LEMMA EndsHold ==
  Spec => []EndsSound
<1>1. Init => EndsSound
  BY DEF Init, EndsSound
<1>2. IInv /\ EndsSound /\ [Next]_vars => EndsSound'
  BY EndsSoundKept
<1>. QED  BY <1>1, <1>2, InvariantHolds, PTL DEF Spec

-----------------------------------------------------------------------------
(* The interface of every planner.                                         *)

\* The variables of the interface.
Route(plan) == <<Wrapped(plan[1]), Wrapped(Last(plan))>>
Asked == IF request = Null THEN Null ELSE Route(request.plan)
Trajectory ==
  IF pc = "idle" /\ answer THEN <<Wrapped(Pose(band, 0)), Wrapped(BackPose(band))>> ELSE Null

\* The steps of the interface, in terms of its variables.
LEMMA InterfaceSteps ==
  /\ Asked = Null /\ Trajectory = Null => Interface!InterfaceInit
  /\ Asked' = Asked /\ Trajectory' = Trajectory => UNCHANGED Interface!interfaceVars
  /\ Asked = Null /\ Asked' \in Interface!Requests /\ Trajectory' = Null => Interface!InterfaceNext
  /\ Asked # Null /\ Asked' = Null /\ Trajectory' \in {Asked, Null} => Interface!InterfaceNext
  /\ Asked = Null /\ Asked' = Asked /\ Trajectory' = Null => Interface!InterfaceNext
<1>1. Asked = Null /\ Trajectory = Null => Interface!InterfaceInit
  BY DEF Asked, Trajectory, Route, Interface!InterfaceInit
<1>2. Asked' = Asked /\ Trajectory' = Trajectory => UNCHANGED Interface!interfaceVars
  BY DEF Asked, Trajectory, Route, Interface!interfaceVars
<1>3. Asked = Null /\ Asked' \in Interface!Requests /\ Trajectory' = Null => Interface!InterfaceNext
  BY DEF Asked, Trajectory, Route, Interface!InterfaceNext, Interface!Ask
<1>4. Asked # Null /\ Asked' = Null /\ Trajectory' \in {Asked, Null} => Interface!InterfaceNext
  BY DEF Asked, Trajectory, Route, Interface!InterfaceNext, Interface!Succeed, Interface!Fail
<1>5. Asked = Null /\ Asked' = Asked /\ Trajectory' = Null => Interface!InterfaceNext
  BY DEF Asked, Trajectory, Route, Interface!InterfaceNext, Interface!ClearPlanner
<1>. QED  BY <1>1, <1>2, <1>3, <1>4, <1>5

\* A plan asks for a start and a goal.
LEMMA RouteType ==
  ASSUME NEW plan \in Seq(Samples) \ {<<>>}
  PROVE  Route(plan) # Null
<1>1. plan[1] \in Samples /\ Last(plan) \in Samples
  BY PlanEnds
<1>2. Normalize(plan[1].yaw) \in Int /\ Normalize(Last(plan).yaw) \in Int
  BY <1>1, NormalizeType DEF Samples
<1>3. Wrapped(plan[1]) \in Samples /\ Wrapped(Last(plan)) \in Samples
  BY <1>1, <1>2 DEF Wrapped, Samples
<1>4. Route(plan) \in Samples \X Samples
  BY <1>3 DEF Route
<1>. QED  BY <1>4, PlannerAssumption

\* What a plan of the configuration asks for is a request of the interface.
LEMMA RouteAsked ==
  ASSUME cfg \in Configs, NEW plan \in cfg.plans
  PROVE  Route(plan) \in Interface!Requests
<1>1. plan \in UNION {c.plans : c \in Configs}
  OBVIOUS
<1>. DEFINE P == UNION {{Wrapped(p[1]), Wrapped(Last(p))} : p \in UNION {c.plans : c \in Configs}}
<1>2. Wrapped(plan[1]) \in P /\ Wrapped(Last(plan)) \in P
  BY <1>1
<1>. QED  BY <1>2 DEF Route, Interface!Requests

\* A band that joins a plan is the trajectory it asked for.
LEMMA JoinsIsRoute ==
  ASSUME NEW b, NEW plan, Joins(b, plan)
  PROVE  <<Wrapped(Pose(b, 0)), Wrapped(BackPose(b))>> = Route(plan)
BY DEF Joins, Alike, Route, Wrapped

\* A step maps to a step of the interface, or to none.
LEMMA StepMaps ==
  ASSUME IInv, IInv', EndsSound, [Next]_vars
  PROVE  Interface!InterfaceNext \/ UNCHANGED Interface!interfaceVars
<1>1. CASE pc = "idle"
  <2>1. request = Null /\ Asked = Null
    BY <1>1 DEF IInv, CallHasBand, Asked
  <2>2. ASSUME NEW plan \in cfg.plans, Plan(plan) \/ OptimizeCandidate(plan)
        PROVE  Interface!InterfaceNext
    <3>1. pc' # "idle" /\ request'.plan = plan
      <4>1. cfg \in ConfigRecords /\ plan \in Seq(Samples) \ {<<>>}
        BY ConfigTyped, PlanTyped
      <4>2. band \in {EmptyBand} \cup ProperBands
        BY <1>1 DEF IInv, CallHasBand
      <4>. DEFINE r == Prepare(plan)
      <4>3. r \in RequestRecords /\ r.plan = plan
        BY <4>1, <4>2, PrepareType
      <4>4. \/ request' = [r EXCEPT !.cold = IF r.warm THEN ColdBand(r) ELSE @]
            \/ request' = [r EXCEPT !.warm = FALSE]
        BY <2>2 DEF Plan, OptimizeCandidate
      <4>5. pc' # "idle"
        BY <2>2, AfterSeedType DEF Plan, OptimizeCandidate
      <4>. HIDE DEF r
      <4>6. request'.plan = r.plan
        BY <4>3, <4>4 DEF RequestRecords
      <4>. QED  BY <4>3, <4>5, <4>6
    <3>2. request' # Null
      BY <3>1, PlannerAssumption DEF IInv, CallHasBand
    <3>3. Asked' = Route(plan) /\ Trajectory' = Null
      BY <3>1, <3>2 DEF Asked, Trajectory, Route
    <3>4. Route(plan) \in Interface!Requests
      BY RouteAsked DEF IInv, CountersTyped
    <3>. QED  BY <2>1, <3>3, <3>4, InterfaceSteps
  <2>3. ASSUME ClearPlanner  PROVE Interface!InterfaceNext
    <3>1. request' = request /\ answer' = FALSE
      BY <2>3 DEF ClearPlanner
    <3>2. Asked' = Asked /\ Trajectory' = Null
      BY <3>1 DEF Asked, Trajectory
    <3>. QED  BY <2>1, <3>2, InterfaceSteps
  <2>4. ASSUME UNCHANGED vars  PROVE UNCHANGED Interface!interfaceVars
    <3>1. Asked' = Asked /\ Trajectory' = Trajectory
      BY <2>4 DEF vars, Asked, Trajectory
    <3>. QED  BY <3>1, InterfaceSteps
  <2>5. ~Step /\ ~Expire /\ ~MoveVertex /\ ~MoveControl
    <3>1. ~Subdivide /\ ~Optimize /\ ~Iterate /\ ~Resize
      BY <1>1 DEF Subdivide, Optimize, Iterate, Resize
    <3>2. ~Build /\ ~PrepareSolve /\ ~Finish
      BY <1>1 DEF Build, PrepareSolve, Finish, Solved, Unsolved
    <3>. QED  BY <1>1, <3>1, <3>2 DEF Step, Expire, MoveVertex, MoveControl
  <2>. QED  BY <2>2, <2>3, <2>4, <2>5 DEF Next, Call
<1>2. CASE pc # "idle"
  <2>1. request \in RequestRecords /\ request.plan \in Seq(Samples) \ {<<>>}
    BY <1>2, InCall DEF RequestRecords
  <2>2. Asked = Route(request.plan) /\ Asked # Null /\ Trajectory = Null
    BY <1>2, <2>1, PlannerAssumption, RouteType DEF Asked, Trajectory
  <2>3. CASE pc' # "idle" /\ request'.plan = request.plan
    <3>1. request' # Null
      BY <2>3, PlannerAssumption DEF IInv, CallHasBand
    <3>2. Asked' = Asked /\ Trajectory' = Trajectory
      BY <2>2, <2>3, <3>1 DEF Asked, Trajectory, Route
    <3>. QED  BY <3>2, InterfaceSteps
  <2>4. CASE pc' = "idle" /\ ~answer'
    <3>1. Asked' = Null /\ Trajectory' = Null
      BY <2>4 DEF Asked, Trajectory, IInv, CallHasBand
    <3>. QED  BY <2>2, <3>1, InterfaceSteps
  <2>5. CASE pc' = "idle" /\ answer' /\ Stays
    <3>1. Joins(band', request.plan)
      BY <1>2, <2>5, EndsKept DEF Stays, EndsSound
    <3>2. Trajectory' = <<Wrapped(Pose(band', 0)), Wrapped(BackPose(band'))>>
      BY <2>5 DEF Trajectory, Pose, BackPose, Wrapped
    <3>3. Trajectory' = Asked
      BY <2>2, <3>1, <3>2, JoinsIsRoute
    <3>4. Asked' = Null
      BY <2>5 DEF Asked, IInv, CallHasBand
    <3>. QED  BY <2>2, <3>3, <3>4, InterfaceSteps
  <2>6. Falls \/ Stays
    BY <1>2, StepsOfCall
  <2>7. Falls => (pc' # "idle" /\ request'.plan = request.plan) \/ (pc' = "idle" /\ ~answer')
    <3>1. SUFFICES ASSUME NEW left, Fail(left)
                   PROVE  (pc' # "idle" /\ request'.plan = request.plan) \/ (pc' = "idle" /\ ~answer')
      BY Zenon DEF Falls
    <3>2. \/ request' = [request EXCEPT !.retried = TRUE] /\ pc' = AfterSeed
          \/ pc' = "idle" /\ answer' = FALSE
      BY <3>1 DEF Fail, Answer
    <3>. QED  BY <2>1, <3>2, AfterSeedType DEF RequestRecords
  <2>8. Stays => (pc' # "idle" /\ request'.plan = request.plan) \/ (pc' = "idle" /\ answer' /\ Stays)
    BY DEF Stays
  <2>. QED  BY <2>3, <2>4, <2>5, <2>6, <2>7, <2>8
<1>. QED  BY <1>1, <1>2

\* Every call of plan(), and every candidate that is optimized, behaves as
\* planner_interface.h promises: the answer true is given only for a band
\* that leads from the start to the goal of its own request, whatever was
\* resized, moved, rolled out or repeated from a cold seed in between; no
\* trajectory is held during a call or after a failure.
THEOREM AnswersConnectTheRequest ==
  Spec => Interface!InterfaceInit /\ [][Interface!InterfaceNext]_(Interface!interfaceVars)
<1>1. Init => Interface!InterfaceInit
  <2>1. Init => Asked = Null /\ Trajectory = Null
    BY DEF Init, Asked, Trajectory
  <2>. QED  BY <2>1, InterfaceSteps
<1>2. IInv /\ IInv' /\ EndsSound /\ [Next]_vars
        => [Interface!InterfaceNext]_(Interface!interfaceVars)
  BY StepMaps
<1>. QED  BY <1>1, <1>2, InvariantHolds, EndsHold, PTL DEF Spec

=============================================================================
