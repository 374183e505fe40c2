------------------------- MODULE ControlCycleProofs -------------------------
(***************************************************************************)
(* The safety of the control cycle, for every set of scenes, every         *)
(* capacity and threshold of the failure detector and every clock.         *)
(***************************************************************************)
EXTENDS ControlCycle, SequenceTheorems, TLAPS

-----------------------------------------------------------------------------
(* Arithmetic: what the saturation does to a command.                      *)

\* A quotient of a product that is small enough stays below the limit.
LEMMA QuotientBound ==
  ASSUME NEW a \in Nat, NEW d \in Nat \ {0}, NEW limit \in Nat, a <= limit * d
  PROVE  a \div d \in 0 .. limit
<1> DEFINE q == a \div d
<1>1. q \in Int /\ q >= 0
  BY Z3
<1>2. q * d <= a
  BY Z3
<1>3. SUFFICES ASSUME q > limit PROVE FALSE
  BY <1>1
<1>4. PICK k \in Nat : q = limit + 1 + k
  <2>1. q - limit - 1 \in Nat /\ q = limit + 1 + (q - limit - 1)
    BY <1>1, <1>3
  <2> QED BY <2>1
<1>5. q * d = limit * d + d + k * d
  BY <1>4, Z3
<1>6. k * d \in Nat
  BY Z3
<1> QED
  BY <1>2, <1>5, <1>6

\* Scaling keeps the sign and obeys a limit the scaled magnitude obeys.
LEMMA ScaleBound ==
  ASSUME NEW x \in Int, NEW num \in Nat, NEW den \in Nat \ {0}, NEW limit \in Nat,
         Abs(x) * num <= limit * den
  PROVE  /\ Scale(x, num, den) \in Int
         /\ x >= 0 => Scale(x, num, den) \in 0 .. limit
         /\ x < 0 => Scale(x, num, den) \in -limit .. 0
<1> DEFINE a == Abs(x) * num
<1>1. Abs(x) \in Nat
  BY DEF Abs
<1>2. a \in Nat
  BY <1>1, Z3
<1>3. a \div den \in 0 .. limit
  BY <1>2, QuotientBound
<1> HIDE DEF a
<1>4. Scale(x, num, den) = (IF x < 0 THEN -1 ELSE 1) * (a \div den)
  BY DEF Scale, a
<1> DEFINE q == a \div den
<1>5. q \in 0 .. limit
  BY <1>3
<1> HIDE DEF q
<1>6. Scale(x, num, den) = (IF x < 0 THEN -1 ELSE 1) * q
  BY <1>4 DEF q
<1>7. CASE x < 0
  BY <1>5, <1>6, <1>7
<1>8. CASE x >= 0
  BY <1>5, <1>6, <1>8
<1> QED BY <1>7, <1>8

\* A factor of at most one takes a value towards zero.
LEMMA ScaleShrinks ==
  ASSUME NEW x \in Int, NEW num \in Nat, NEW den \in Nat \ {0}, num <= den
  PROVE  /\ Scale(x, num, den) \in Int
         /\ x >= 0 => Scale(x, num, den) \in 0 .. x
         /\ x < 0 => Scale(x, num, den) \in x .. 0
<1>1. Abs(x) \in Nat /\ (x >= 0 => Abs(x) = x) /\ (x < 0 => Abs(x) = -x)
  BY DEF Abs
<1> DEFINE a == Abs(x)
<1> HIDE DEF a
<1>2. a \in Nat
  BY <1>1 DEF a
<1>3. PICK k \in Nat : den = num + k
  <2>1. den - num \in Nat /\ den = num + (den - num)
    OBVIOUS
  <2> QED BY <2>1
<1>4. a * den = a * num + a * k
  BY <1>2, <1>3, Z3
<1>5. a * k \in Nat /\ a * num \in Nat
  BY <1>2, Z3
<1>6. a * num <= a * den
  BY <1>4, <1>5
<1>7. Abs(x) * num <= Abs(x) * den
  BY <1>6 DEF a
<1>8. /\ Scale(x, num, den) \in Int
      /\ x >= 0 => Scale(x, num, den) \in 0 .. Abs(x)
      /\ x < 0 => Scale(x, num, den) \in -Abs(x) .. 0
  BY <1>1, <1>7, ScaleBound
<1> QED BY <1>1, <1>8

\* A ratio no greater than that of a limit and a magnitude scales the
\* magnitude to the limit.
LEMMA RatioLimits ==
  ASSUME NEW s \in Nat, NEW limit \in Nat, NEW n \in Nat, NEW d \in Nat \ {0},
         s > limit => n * s <= limit * d, s <= limit => n <= d
  PROVE  s * n <= limit * d
<1>1. CASE s > limit
  <2>1. n * s = s * n
    BY Z3
  <2> QED BY <1>1, <2>1
<1>2. CASE s <= limit
  <2>1. PICK k \in Nat, j \in Nat : d = n + k /\ limit = s + j
    <3>1. d - n \in Nat /\ d = n + (d - n) /\ limit - s \in Nat /\ limit = s + (limit - s)
      BY <1>2
    <3> QED BY <3>1
  <2>2. limit * d = s * n + s * k + j * n + j * k
    BY <2>1, Z3
  <2>3. s * k \in Nat /\ j * n \in Nat /\ j * k \in Nat /\ s * n \in Nat
    BY Z3
  <2> QED BY <2>2, <2>3
<1> QED BY <1>1, <1>2

-----------------------------------------------------------------------------
(* Commands within the limits of a robot.                                  *)

Within(c, r) ==
  /\ c \in Commands
  /\ c.surge \in -r.backward .. r.forward
  /\ c.yaw \in -r.angular .. r.angular

\* The limit on the side a command surges to.
SideLimit(c, r) == IF c.surge >= 0 THEN r.forward ELSE r.backward

\* Both components fit when the ratio n / d is at most each of the ratios.
LEMMA RatiosFit ==
  ASSUME NEW c \in Commands, NEW r \in Robots, NEW n \in Nat, NEW d \in Nat \ {0}
  PROVE  /\ SurgeRatio(c, r)[1] \in Nat /\ SurgeRatio(c, r)[2] \in Nat \ {0}
         /\ YawRatio(c, r)[1] \in Nat /\ YawRatio(c, r)[2] \in Nat \ {0}
         /\ n * SurgeRatio(c, r)[2] <= SurgeRatio(c, r)[1] * d =>
              Abs(c.surge) * n <= SideLimit(c, r) * d
         /\ n * YawRatio(c, r)[2] <= YawRatio(c, r)[1] * d =>
              Abs(c.yaw) * n <= r.angular * d
<1>1. /\ c.surge \in Int /\ c.yaw \in Int
      /\ r.forward \in Nat /\ r.backward \in Nat /\ r.angular \in Nat
  BY DEF Commands, Robots
<1>2. /\ Abs(c.surge) \in Nat /\ Abs(c.yaw) \in Nat /\ SideLimit(c, r) \in Nat
      /\ n * 1 = n /\ 1 * d = d
  BY <1>1 DEF Abs, SideLimit
<1>3. SurgeRatio(c, r) = IF Abs(c.surge) > SideLimit(c, r)
                         THEN <<SideLimit(c, r), Abs(c.surge)>> ELSE <<1, 1>>
  BY <1>1 DEF SurgeRatio, Abs, SideLimit
<1>4. YawRatio(c, r) = IF Abs(c.yaw) > r.angular
                       THEN <<r.angular, Abs(c.yaw)>> ELSE <<1, 1>>
  BY DEF YawRatio
<1> DEFINE s == Abs(c.surge)
           y == Abs(c.yaw)
           L == SideLimit(c, r)
           A == r.angular
<1>5. s \in Nat /\ y \in Nat /\ L \in Nat /\ A \in Nat
  BY <1>1, <1>2
<1> HIDE DEF s, y, L, A
<1>6. n * SurgeRatio(c, r)[2] <= SurgeRatio(c, r)[1] * d => s * n <= L * d
  <2> SUFFICES ASSUME n * SurgeRatio(c, r)[2] <= SurgeRatio(c, r)[1] * d
               PROVE  s * n <= L * d
    OBVIOUS
  <2>1. s > L => n * s <= L * d
    BY <1>3 DEF s, L
  <2>2. s <= L => n <= d
    BY <1>2, <1>3, <1>5 DEF s, L
  <2> QED BY <1>5, <2>1, <2>2, RatioLimits
<1>7. n * YawRatio(c, r)[2] <= YawRatio(c, r)[1] * d => y * n <= A * d
  <2> SUFFICES ASSUME n * YawRatio(c, r)[2] <= YawRatio(c, r)[1] * d
               PROVE  y * n <= A * d
    OBVIOUS
  <2>1. y > A => n * y <= A * d
    BY <1>4 DEF y, A
  <2>2. y <= A => n <= d
    BY <1>2, <1>4, <1>5 DEF y, A
  <2> QED BY <1>5, <2>1, <2>2, RatioLimits
<1>8. /\ SurgeRatio(c, r)[1] \in Nat /\ SurgeRatio(c, r)[2] \in Nat \ {0}
      /\ YawRatio(c, r)[1] \in Nat /\ YawRatio(c, r)[2] \in Nat \ {0}
  BY <1>1, <1>2, <1>3, <1>4
<1> QED BY <1>6, <1>7, <1>8 DEF s, y, L, A

\* Saturation, proportional or not, leaves a command within the limits.
LEMMA SaturatedWithin ==
  ASSUME NEW c \in Commands, NEW r \in Robots, NEW e
  PROVE  Within(SaturateVelocity(c, r, e), r)
<1> DEFINE x == SurgeRatio(c, r)
           w == YawRatio(c, r)
           least == IF x[1] * w[2] < w[1] * x[2] THEN x ELSE w
           scaled == IF r.proportional
                     THEN [surge |-> Scale(c.surge, least[1], least[2]),
                           yaw |-> Scale(c.yaw, least[1], least[2])]
                     ELSE [surge |-> Scale(c.surge, x[1], x[2]),
                           yaw |-> Scale(c.yaw, w[1], w[2])]
           speed == Abs(scaled.surge)
<1>1. SaturateVelocity(c, r, e) =
        IF speed > r.trans
        THEN [surge |-> Scale(scaled.surge, r.trans, speed),
              yaw |-> IF e.enabled THEN Scale(scaled.yaw, r.trans, speed) ELSE scaled.yaw]
        ELSE scaled
  BY DEF SaturateVelocity
<1>2. /\ x[1] \in Nat /\ x[2] \in Nat \ {0} /\ w[1] \in Nat /\ w[2] \in Nat \ {0}
  BY RatiosFit, 1 \in Nat \ {0}
<1>3. c.surge \in Int /\ c.yaw \in Int /\ r.trans \in Nat /\ r.forward \in Nat
      /\ r.backward \in Nat /\ r.angular \in Nat
  BY DEF Commands, Robots
<1>4. SideLimit(c, r) \in Nat
  BY <1>3 DEF SideLimit
<1> HIDE DEF x, w
<1>5. /\ least[1] \in Nat /\ least[2] \in Nat \ {0}
      /\ least[1] * x[2] <= x[1] * least[2]
      /\ least[1] * w[2] <= w[1] * least[2]
  <2>1. x[1] * w[2] \in Int /\ w[1] * x[2] \in Int /\ x[1] * x[2] \in Int /\ w[1] * w[2] \in Int
    BY <1>2
  <2> QED BY <1>2, <2>1
<1>6. /\ Abs(c.surge) * least[1] <= SideLimit(c, r) * least[2]
      /\ Abs(c.yaw) * least[1] <= r.angular * least[2]
  BY <1>5, RatiosFit DEF x, w
<1>7. /\ Abs(c.surge) * x[1] <= SideLimit(c, r) * x[2]
      /\ Abs(c.yaw) * w[1] <= r.angular * w[2]
  <2>1. x[1] * x[2] <= x[1] * x[2] /\ w[1] * w[2] <= w[1] * w[2]
    BY <1>2
  <2> QED BY <1>2, <2>1, RatiosFit DEF x, w
<1> HIDE DEF least
<1>8. /\ scaled.surge \in Int /\ scaled.yaw \in Int
      /\ scaled.surge \in -r.backward .. r.forward
      /\ scaled.yaw \in -r.angular .. r.angular
  <2>1. CASE r.proportional
    <3>1. scaled.surge = Scale(c.surge, least[1], least[2])
          /\ scaled.yaw = Scale(c.yaw, least[1], least[2])
      BY <2>1
    <3>2. /\ Scale(c.surge, least[1], least[2]) \in Int
          /\ c.surge >= 0 => Scale(c.surge, least[1], least[2]) \in 0 .. SideLimit(c, r)
          /\ c.surge < 0 => Scale(c.surge, least[1], least[2]) \in -SideLimit(c, r) .. 0
      BY <1>3, <1>4, <1>5, <1>6, ScaleBound
    <3>3. /\ Scale(c.yaw, least[1], least[2]) \in Int
          /\ c.yaw >= 0 => Scale(c.yaw, least[1], least[2]) \in 0 .. r.angular
          /\ c.yaw < 0 => Scale(c.yaw, least[1], least[2]) \in -r.angular .. 0
      BY <1>3, <1>5, <1>6, ScaleBound
    <3> QED BY <1>3, <3>1, <3>2, <3>3 DEF SideLimit
  <2>2. CASE ~r.proportional
    <3>1. scaled.surge = Scale(c.surge, x[1], x[2])
          /\ scaled.yaw = Scale(c.yaw, w[1], w[2])
      BY <2>2
    <3>2. /\ Scale(c.surge, x[1], x[2]) \in Int
          /\ c.surge >= 0 => Scale(c.surge, x[1], x[2]) \in 0 .. SideLimit(c, r)
          /\ c.surge < 0 => Scale(c.surge, x[1], x[2]) \in -SideLimit(c, r) .. 0
      BY <1>2, <1>3, <1>4, <1>7, ScaleBound
    <3>3. /\ Scale(c.yaw, w[1], w[2]) \in Int
          /\ c.yaw >= 0 => Scale(c.yaw, w[1], w[2]) \in 0 .. r.angular
          /\ c.yaw < 0 => Scale(c.yaw, w[1], w[2]) \in -r.angular .. 0
      BY <1>2, <1>3, <1>7, ScaleBound
    <3> QED BY <1>3, <3>1, <3>2, <3>3 DEF SideLimit
  <2> QED BY <2>1, <2>2
<1>9. scaled = [surge |-> scaled.surge, yaw |-> scaled.yaw]
  OBVIOUS
<1> HIDE DEF scaled
<1>10. CASE speed > r.trans
  <2>1. speed \in Nat \ {0} /\ r.trans <= speed
    BY <1>3, <1>8, <1>10 DEF Abs
  <2>2. /\ Scale(scaled.surge, r.trans, speed) \in Int
        /\ scaled.surge >= 0 => Scale(scaled.surge, r.trans, speed) \in 0 .. scaled.surge
        /\ scaled.surge < 0 => Scale(scaled.surge, r.trans, speed) \in scaled.surge .. 0
    BY <1>3, <1>8, <2>1, ScaleShrinks
  <2>3. /\ Scale(scaled.yaw, r.trans, speed) \in Int
        /\ scaled.yaw >= 0 => Scale(scaled.yaw, r.trans, speed) \in 0 .. scaled.yaw
        /\ scaled.yaw < 0 => Scale(scaled.yaw, r.trans, speed) \in scaled.yaw .. 0
    BY <1>3, <1>8, <2>1, ScaleShrinks
  <2> HIDE DEF speed
  <2>4. PICK su, sy \in Int :
          /\ SaturateVelocity(c, r, e) = [surge |-> su, yaw |-> sy]
          /\ su = Scale(scaled.surge, r.trans, speed)
          /\ sy = scaled.yaw \/ sy = Scale(scaled.yaw, r.trans, speed)
    BY <1>1, <1>8, <1>10, <2>2, <2>3
  <2>5. su \in -r.backward .. r.forward /\ sy \in -r.angular .. r.angular
    BY <1>3, <1>8, <2>2, <2>3, <2>4
  <2> QED BY <2>4, <2>5 DEF Within, Commands
<1>11. CASE ~(speed > r.trans)
  BY <1>1, <1>8, <1>9, <1>11 DEF Within, Commands
<1> QED BY <1>10, <1>11

\* The caps only tighten: every cap in force holds for the narrowed robot.
LEMMA NarrowedTightens ==
  ASSUME NEW r \in Robots, NEW s \in Scopes, NEW e \in Envelopes
  PROVE  /\ Narrowed(r, s, e) \in Robots
         /\ Narrowed(r, s, e).car = r.car
         /\ Narrowed(r, s, e).angular = r.angular
         /\ Narrowed(r, s, e).forward <= r.forward
         /\ Narrowed(r, s, e).backward <= r.backward
         /\ s.enabled => Narrowed(r, s, e).backward <= s.reverse
         /\ e.enabled => /\ Narrowed(r, s, e).forward <= e.limit
                         /\ Narrowed(r, s, e).backward <= e.limit
<1> DEFINE scoped == IF s.enabled
                     THEN [r EXCEPT !.backward = Lower(@, s.reverse)] ELSE r
<1>1. /\ scoped \in Robots /\ scoped.car = r.car /\ scoped.angular = r.angular
      /\ scoped.forward = r.forward /\ scoped.backward <= r.backward
      /\ s.enabled => scoped.backward <= s.reverse
  BY DEF Robots, Scopes, Lower
<1>2. Narrowed(r, s, e) =
        IF e.enabled
        THEN [scoped EXCEPT !.forward = Lower(@, e.limit),
                            !.backward = Lower(@, e.limit),
                            !.proportional = TRUE]
        ELSE scoped
  BY DEF Narrowed
<1> HIDE DEF scoped
<1>3. CASE e.enabled
  <2>1. scoped.forward \in Nat /\ scoped.backward \in Nat /\ e.limit \in Nat
        /\ r.forward \in Nat /\ r.backward \in Nat /\ s.reverse \in Nat
    BY <1>1 DEF Robots, Envelopes, Scopes
  <2>2. /\ Narrowed(r, s, e) \in Robots
        /\ Narrowed(r, s, e).car = scoped.car
        /\ Narrowed(r, s, e).angular = scoped.angular
        /\ Narrowed(r, s, e).forward = Lower(scoped.forward, e.limit)
        /\ Narrowed(r, s, e).backward = Lower(scoped.backward, e.limit)
    BY <1>1, <1>2, <1>3, <2>1 DEF Robots, Lower
  <2> QED BY <1>1, <2>1, <2>2 DEF Lower
<1>4. CASE ~e.enabled
  BY <1>1, <1>2, <1>4 DEF Robots
<1> QED BY <1>3, <1>4

\* Clamping to an interval that is not empty lands in the limits.
LEMMA ClampObeys ==
  ASSUME NEW low \in Nat, NEW high \in Nat, NEW value \in Int, NEW change \in Nat, NEW x \in Int,
         Low(low, value, change) <= High(high, value, change)
  PROVE  Higher(Low(low, value, change), Lower(High(high, value, change), x)) \in -low .. high
BY DEF Low, High, Higher, Lower

\* Shaping keeps a command within the limits, whatever was accepted before and
\* under which limits.
LEMMA ShapedWithin ==
  ASSUME robot \in Robots, previous \in Commands, NEW budget \in 0 .. Period,
         NEW c, Within(c, robot), NEW clock_set, Shapable(c, clock_set, budget)
  PROVE  Within(Shaped(c, budget), robot)
<1> DEFINE d == Shaped(c, budget)
           l == SelectionLimits(robot)
           dx == robot.acc * budget
           dw == robot.angular_acc * budget
<1>1. /\ robot.forward \in Nat /\ robot.backward \in Nat /\ robot.trans \in Nat
      /\ robot.angular \in Nat /\ robot.acc \in Nat /\ robot.angular_acc \in Nat
      /\ previous.surge \in Int /\ previous.yaw \in Int
      /\ c.surge \in Int /\ c.yaw \in Int
      /\ Period \in Nat /\ budget \in Nat
  BY CycleAssumption DEF Robots, Commands, Within
<1>2. CASE ~scope.enabled
  BY <1>2 DEF Shaped
<1>3. CASE scope.enabled /\ Restarts(c, budget)
  <2>1. d = Zero
    BY <1>3 DEF Shaped
  <2>2. Within(Zero, robot)
    BY <1>1 DEF Within, Zero, Commands
  <2> QED BY <2>1, <2>2
<1>4. CASE scope.enabled /\ ~Restarts(c, budget)
  <2>1. dx \in Nat /\ dw \in Nat
    BY <1>1
  <2>2. /\ l.forward \in Nat /\ l.forward <= robot.forward
        /\ l.reverse \in Nat /\ l.reverse <= robot.backward
        /\ l.angular = robot.angular
    BY <1>1 DEF SelectionLimits, ForwardLimit, ReverseLimit, Lower
  <2>3. Fits(previous, dx, dw, l) /\ d = Clamp(c, previous, dx, dw, l)
    BY <1>4 DEF Shapable, Shaped
  <2> HIDE DEF d, l, dx, dw
  <2>4. /\ Low(l.reverse, previous.surge, dx) <= High(l.forward, previous.surge, dx)
        /\ Low(l.angular, previous.yaw, dw) <= High(l.angular, previous.yaw, dw)
    BY <2>3 DEF Fits
  <2>5. d = [surge |-> Higher(Low(l.reverse, previous.surge, dx),
                              Lower(High(l.forward, previous.surge, dx), c.surge)),
             yaw |-> Higher(Low(l.angular, previous.yaw, dw),
                            Lower(High(l.angular, previous.yaw, dw), c.yaw))]
    BY <2>3 DEF Clamp
  <2>6. d.surge \in -l.reverse .. l.forward
    BY <1>1, <2>1, <2>2, <2>4, <2>5, ClampObeys
  <2>7. l.angular \in Nat
    BY <1>1, <2>2
  <2>8. d.yaw \in -l.angular .. l.angular
    BY <1>1, <2>1, <2>4, <2>5, <2>7, ClampObeys
  <2>9. d \in Commands
    BY <2>2, <2>5, <2>6, <2>7, <2>8 DEF Commands
  <2> QED BY <1>1, <2>2, <2>6, <2>8, <2>9 DEF Within, d
<1> QED BY <1>2, <1>3, <1>4

\* Every candidate of the contact recovery is within the limits.
LEMMA CandidatesWithin ==
  ASSUME NEW r \in Robots, NEW u, Within(u, r), NEW route \in Routes,
         NEW i \in DOMAIN Candidates(r, route, u)
  PROVE  Within(Candidates(r, route, u)[i], r)
<1> DEFINE W == {c \in Commands : Within(c, r)}
           ahead == IF route.behind THEN -ReverseLimit(r) ELSE ForwardLimit(r)
           other == IF route.behind THEN ForwardLimit(r) ELSE -ReverseLimit(r)
           turn == (IF u.yaw # 0 THEN Sign(u.yaw) ELSE route.side) * r.angular
           Turns(x) == <<[surge |-> x, yaw |-> u.yaw], [surge |-> x, yaw |-> 0],
                         [surge |-> x, yaw |-> turn], [surge |-> x, yaw |-> -turn]>>
           Pivots == <<[surge |-> 0, yaw |-> turn], [surge |-> 0, yaw |-> -turn]>>
<1>1. r.forward \in Nat /\ r.backward \in Nat /\ r.trans \in Nat /\ r.angular \in Nat
  BY DEF Robots
<1>2. u \in Commands /\ u.yaw \in -r.angular .. r.angular
  BY DEF Within
<1>3. turn \in -r.angular .. r.angular
  BY <1>1, <1>2 DEF Sign, Routes, Commands
<1>4. /\ ahead \in -r.backward .. r.forward
      /\ other \in -r.backward .. r.forward
  BY <1>1 DEF ReverseLimit, ForwardLimit, Lower
<1>5. Candidates(r, route, u) =
        <<u>> \o Turns(ahead) \o Turns(Scale(ahead, 1, 2))
        \o Turns(other) \o Turns(Scale(other, 1, 2)) \o Pivots
  BY DEF Candidates
<1> HIDE DEF ahead, other, turn
<1>6. ASSUME NEW x \in -r.backward .. r.forward PROVE Turns(x) \in Seq(W)
  BY <1>1, <1>2, <1>3 DEF Within, Commands
<1>7. ASSUME NEW x \in -r.backward .. r.forward
      PROVE  Scale(x, 1, 2) \in -r.backward .. r.forward
  <2>1. x \in Int /\ x >= -r.backward /\ x <= r.forward /\ 1 \in Nat /\ 2 \in Nat \ {0} /\ 1 <= 2
    BY <1>1
  <2>2. /\ Scale(x, 1, 2) \in Int
        /\ x >= 0 => Scale(x, 1, 2) \in 0 .. x
        /\ x < 0 => Scale(x, 1, 2) \in x .. 0
    BY <2>1, ScaleShrinks
  <2> QED BY <1>1, <2>1, <2>2
<1>8. <<u>> \in Seq(W) /\ Pivots \in Seq(W)
  BY <1>1, <1>2, <1>3 DEF Within, Commands
<1>9. /\ Turns(ahead) \in Seq(W) /\ Turns(Scale(ahead, 1, 2)) \in Seq(W)
      /\ Turns(other) \in Seq(W) /\ Turns(Scale(other, 1, 2)) \in Seq(W)
  BY <1>4, <1>6, <1>7
<1> HIDE DEF W, Turns, Pivots
<1>10. Candidates(r, route, u) \in Seq(W)
  BY <1>5, <1>8, <1>9, ConcatProperties
<1>11. Candidates(r, route, u)[i] \in W
  BY <1>10, ElementOfSeq
<1> QED BY <1>11 DEF W

-----------------------------------------------------------------------------
(* The inductive invariant.                                                *)

Working == {"locate", "via", "refill", "goal", "modes", "plan", "check", "select"}

\* What the variables the properties speak of may hold.
TypeOK ==
  /\ scene \in Scenes /\ cfg \in scene.configs
  /\ robot \in Robots /\ saved \in Robots
  /\ scope \in Scopes /\ envelope \in Envelopes
  /\ pc \in Working \cup {"idle", "returning"}
  /\ available \in BOOLEAN /\ previous \in Commands
  /\ accepted \in BOOLEAN /\ output \in Commands
  /\ goal_reached \in BOOLEAN /\ oscillating \in BOOLEAN
  /\ failures \in 0 .. MaxFailures /\ since \in Int
  /\ rotdir \in {"none", "left", "right"} /\ preferences \subseteq {"none", "left", "right"}
  /\ via \in {"none", "plan", "custom"} /\ callback \in {"idle", "none", "custom"}
  /\ active \in BOOLEAN /\ overlapped \in BOOLEAN /\ settled \in BOOLEAN

\* A cycle that may still command works with the narrowed robot and knows the
\* configured one.
CapsInForce ==
  /\ pc # "idle" => saved = cfg.robot
  /\ pc \in Working \/ (pc = "returning" /\ accepted) =>
       /\ robot = Narrowed(saved, scope, envelope)
       /\ scope.enabled \/ envelope.enabled => Supported(robot)

\* No command before the selection, and none within the limits of the cycle
\* after it.
CommandWithin ==
  /\ pc \in Working => ~accepted /\ output = Zero
  /\ pc = "returning" /\ accepted =>
       /\ output.surge \in -robot.backward .. robot.forward
       /\ Supported(robot) => Within(output, robot)

\* A message whose callback has not set the flag yet is in the container, and
\* the plan is written over it only while the flag is down.
CallbackInStep ==
  /\ callback # "idle" /\ ~overlapped => via = callback
  /\ pc = "refill" => overlapped \/ (~active /\ callback = "idle")

\* Once the clock has run long enough, a direction is there as long as the
\* recovery lasts.
RecoveryActs ==
  settled /\ (since < MinDuration \/ oscillating) => rotdir # "none"

IInv ==
  /\ TypeOK
  /\ CapsAreLifted /\ CapsInForce
  /\ CommandWithin /\ CommandIsChecked
  /\ CallbackInStep /\ CustomViaPointsKept
  /\ RecoveryActs /\ PreferencesExpire

LEMMA InitTypes == Init => TypeOK
<1> SUFFICES ASSUME Init PROVE TypeOK
  OBVIOUS
<1>1. scene \in Scenes /\ cfg \in scene.configs /\ robot \in Robots /\ saved \in Robots
  BY SceneAssumption DEF Init
<1>2. scope \in Scopes /\ envelope \in Envelopes
  BY DEF Init, NoScope, NoEnvelope, Scopes, Envelopes
<1>3. failures \in 0 .. MaxFailures /\ since \in Int
  BY CycleAssumption, SceneAssumption DEF Init
<1>4. rotdir \in {"none", "left", "right"} /\ preferences \subseteq {"none", "left", "right"}
  BY DEF Init
<1>5. /\ pc \in Working \cup {"idle", "returning"}
      /\ via \in {"none", "plan", "custom"} /\ callback \in {"idle", "none", "custom"}
  BY DEF Init
<1>6. /\ accepted \in BOOLEAN /\ goal_reached \in BOOLEAN /\ oscillating \in BOOLEAN
      /\ active \in BOOLEAN /\ overlapped \in BOOLEAN /\ settled \in BOOLEAN
      /\ available \in BOOLEAN
  BY DEF Init
<1>7. output \in Commands /\ previous \in Commands
  BY DEF Init, Zero, Commands
<1> QED
  BY <1>1, <1>2, <1>3, <1>4, <1>5, <1>6, <1>7 DEF TypeOK

LEMMA InitInvariant == Init => IInv
<1> SUFFICES ASSUME Init PROVE IInv
  OBVIOUS
<1>1. TypeOK
  BY InitTypes
<1>2. CapsAreLifted /\ CapsInForce /\ CommandWithin /\ CommandIsChecked
  BY DEF Init, CapsAreLifted, CapsInForce, CommandWithin, CommandIsChecked, Working
<1>3. CallbackInStep /\ CustomViaPointsKept
  BY DEF Init, CallbackInStep, CustomViaPointsKept
<1>4. RecoveryActs /\ PreferencesExpire
  BY DEF Init, RecoveryActs, PreferencesExpire
<1> QED BY <1>1, <1>2, <1>3, <1>4 DEF IInv

-----------------------------------------------------------------------------
(* The steps.                                                              *)

USE DEF ownerVars, historyVars, commandVars, recoveryVars, viaVars

\* Only the recovery and the clock touch the direction and its time.
LEMMA RecoverySteps ==
  ASSUME IInv, [Next]_vars
  PROVE  RecoveryActs' /\ PreferencesExpire'
<1>0. /\ since \in Int /\ MinDuration \in Nat
      /\ oscillating \in BOOLEAN /\ settled \in BOOLEAN
      /\ RecoveryActs /\ PreferencesExpire
  BY CycleAssumption DEF IInv, TypeOK
<1>1. ASSUME UNCHANGED <<since, oscillating, settled, rotdir>>,
             preferences' \subseteq preferences \cup {"none"}
      PROVE  RecoveryActs' /\ PreferencesExpire'
  BY <1>0, <1>1 DEF RecoveryActs, PreferencesExpire
<1>2. ASSUME NEW left \in BOOLEAN, ConfigureBackupModes(left)
      PROVE  RecoveryActs' /\ PreferencesExpire'
  <2> DEFINE longer == Detector!Update(buffer, LastMeasurement)
             found == Detector!Oscillates(longer)
             dir == NextDirection(found, left)
  <2>1. CASE cfg.recovery
    <3>1. /\ oscillating' = found /\ rotdir' = dir
          /\ since' = NextSince(found)
          /\ preferences' = IF found \/ dir # rotdir THEN Told(dir) ELSE preferences
          /\ settled' = (settled \/ since >= MinDuration)
      BY <1>2, <2>1 DEF ConfigureBackupModes
    <3> HIDE DEF longer, found
    <3>2. PreferencesExpire'
      BY <1>0, <3>1 DEF Told, PreferencesExpire
    <3>3. CASE since < MinDuration
      <4>1. dir = rotdir
        BY <3>3 DEF NextDirection
      <4>2. settled' => settled
        BY <1>0, <3>1, <3>3
      <4> QED BY <1>0, <3>1, <3>2, <3>3, <4>1, <4>2 DEF RecoveryActs
    <3>4. CASE since >= MinDuration
      <4>1. dir = IF found THEN IF left THEN "left" ELSE "right" ELSE "none"
        BY <1>0, <3>4 DEF NextDirection
      <4>2. CASE found
        BY <3>1, <3>2, <4>1, <4>2 DEF RecoveryActs
      <4>3. CASE ~found
        BY <1>0, <3>1, <3>2, <3>4, <4>3 DEF RecoveryActs, NextSince
      <4> QED BY <4>2, <4>3
    <3> QED BY <1>0, <3>3, <3>4
  <2>2. CASE ~cfg.recovery
    BY <1>1, <1>2, <2>2 DEF ConfigureBackupModes
  <2> QED BY <2>1, <2>2
<1>3. CASE BeginCycle
  BY <1>1, <1>3 DEF BeginCycle
<1>4. ASSUME NEW found \in BOOLEAN, Locate(found)  PROVE RecoveryActs' /\ PreferencesExpire'
  BY <1>1, <1>4 DEF Locate, Return
<1>5. CASE CheckViaPoints
  BY <1>1, <1>5 DEF CheckViaPoints
<1>6. CASE UpdateViaPointsContainer
  BY <1>1, <1>6 DEF UpdateViaPointsContainer
<1>7. ASSUME NEW reached \in BOOLEAN, NEW persistent \in BOOLEAN, CheckGoal(reached, persistent)
      PROVE  RecoveryActs' /\ PreferencesExpire'
  BY <1>1, <1>7 DEF CheckGoal
<1>8. Cleared \subseteq preferences
  BY DEF Cleared
<1>9. ASSUME NEW found \in BOOLEAN, NEW fresh \in BOOLEAN, NEW kept \in SUBSET preferences,
             Plan(found, kept, fresh)
      PROVE  RecoveryActs' /\ PreferencesExpire'
  <2>1. preferences' \subseteq preferences \cup {"none"}
    BY <1>8, <1>9 DEF Plan, Reject
  <2>2. UNCHANGED <<since, oscillating, settled, rotdir>>
    BY <1>9 DEF Plan
  <2> QED BY <1>1, <2>1, <2>2
<1>10. ASSUME NEW w \in scene.worlds, CheckFeasibility(w)
       PROVE  RecoveryActs' /\ PreferencesExpire'
  <2>1. preferences' \subseteq preferences \cup {"none"}
    BY <1>8, <1>10 DEF CheckFeasibility, Reject
  <2>2. UNCHANGED <<since, oscillating, settled, rotdir>>
    BY <1>10 DEF CheckFeasibility
  <2> QED BY <1>1, <2>1, <2>2
<1>11. ASSUME NEW asked \in scene.requests, NEW route \in Routes,
              NEW clock_set \in BOOLEAN, NEW budget \in 0 .. Period,
              SelectCommand(asked, route, clock_set, budget)
       PROVE  RecoveryActs' /\ PreferencesExpire'
  <2>1. UNCHANGED preferences
    BY <1>11 DEF SelectCommand, Return, Accept, Recover
  <2>2. UNCHANGED <<since, oscillating, settled, rotdir>>
    BY <1>11 DEF SelectCommand
  <2> QED BY <1>1, <2>1, <2>2
<1>12. CASE RejectCommand
  BY <1>1, <1>8, <1>12 DEF RejectCommand, Reject
<1>13. ASSUME NEW in_time \in BOOLEAN, FinishCycle(in_time)
       PROVE  RecoveryActs' /\ PreferencesExpire'
  BY <1>1, <1>13 DEF FinishCycle
<1>14. ASSUME NEW s \in scene.scopes, NEW same \in BOOLEAN, SetCommandScope(s, same)
       PROVE  RecoveryActs' /\ PreferencesExpire'
  BY <1>1, <1>14 DEF SetCommandScope
<1>15. ASSUME NEW e \in scene.envelopes, SetStationEnvelope(e)
       PROVE  RecoveryActs' /\ PreferencesExpire'
  BY <1>1, <1>15 DEF SetStationEnvelope
<1>16. CASE DiscardCommand \/ \E c \in {Zero, output}, in_time, clock_set \in BOOLEAN :
                               CommitCommand(c, in_time, clock_set)
  BY <1>1, <1>16 DEF DiscardCommand, CommitCommand
<1>17. CASE IsGoalReached
  BY <1>1, <1>8, <1>17 DEF IsGoalReached
<1>18. ASSUME NEW c \in scene.configs, Reconfigure(c)
       PROVE  RecoveryActs' /\ PreferencesExpire'
  BY <1>1, <1>18 DEF Reconfigure
<1>19. CASE Callback
  BY <1>1, <1>19 DEF Callback, ReceiveViaPoints, ActivateViaPoints
<1>20. CASE Tick
  <2>1. /\ since' = since + 1 /\ since < MinDuration
        /\ UNCHANGED <<oscillating, settled, rotdir, preferences>>
    BY <1>20 DEF Tick
  <2> QED BY <1>0, <2>1 DEF RecoveryActs, PreferencesExpire
<1>21. ASSUME NEW t \in -MaxBack .. 0, JumpBack(t)
       PROVE  RecoveryActs' /\ PreferencesExpire'
  <2>1. settled' = FALSE /\ UNCHANGED <<rotdir, preferences>>
    BY <1>21 DEF JumpBack
  <2> QED BY <1>0, <2>1 DEF RecoveryActs, PreferencesExpire
<1>22. CASE UNCHANGED vars
  BY <1>1, <1>22 DEF vars
<1> QED
  BY <1>2, <1>3, <1>4, <1>5, <1>6, <1>7, <1>9, <1>10, <1>11, <1>12, <1>13, <1>14, <1>15,
     <1>16, <1>17, <1>18, <1>19, <1>20, <1>21, <1>22 DEF Next, Cycle, Owner, Clock

\* The callback and the cycle beside it.
LEMMA CallbackSteps ==
  ASSUME IInv, [Next]_vars
  PROVE  CallbackInStep' /\ CustomViaPointsKept'
<1> USE DEF CallbackInStep, CustomViaPointsKept
<1>0. /\ CallbackInStep /\ CustomViaPointsKept
      /\ active \in BOOLEAN /\ overlapped \in BOOLEAN
      /\ via \in {"none", "plan", "custom"} /\ callback \in {"idle", "none", "custom"}
      /\ scene \in Scenes
  BY DEF IInv, TypeOK
<1>1. CASE BeginCycle
  BY <1>0, <1>1 DEF BeginCycle
<1>2. CASE \E found \in BOOLEAN : Locate(found)
  BY <1>0, <1>2 DEF Locate, Return
<1>3. CASE CheckViaPoints
  BY <1>0, <1>3 DEF CheckViaPoints
<1>4. CASE UpdateViaPointsContainer
  BY <1>0, <1>4 DEF UpdateViaPointsContainer
<1>5. CASE \E reached, persistent \in BOOLEAN : CheckGoal(reached, persistent)
  BY <1>0, <1>5 DEF CheckGoal
<1>6. CASE \E left \in BOOLEAN : ConfigureBackupModes(left)
  BY <1>0, <1>6 DEF ConfigureBackupModes
<1>7. CASE \E found, fresh \in BOOLEAN, kept \in SUBSET preferences : Plan(found, kept, fresh)
  BY <1>0, <1>7 DEF Plan, Reject
<1>8. CASE \E w \in scene.worlds : CheckFeasibility(w)
  BY <1>0, <1>8 DEF CheckFeasibility, Reject
<1>9. CASE \E asked \in scene.requests, route \in Routes, clock_set \in BOOLEAN,
              budget \in 0 .. Period : SelectCommand(asked, route, clock_set, budget)
  BY <1>0, <1>9 DEF SelectCommand, Return, Accept, Recover
<1>10. CASE RejectCommand
  BY <1>0, <1>10 DEF RejectCommand, Reject
<1>11. CASE \E in_time \in BOOLEAN : FinishCycle(in_time)
  BY <1>0, <1>11 DEF FinishCycle
<1>12. CASE Owner
  BY <1>0, <1>12 DEF Owner, SetCommandScope, SetStationEnvelope, CommitCommand,
                     DiscardCommand, IsGoalReached, Reconfigure
<1>13. ASSUME NEW points \in scene.messages, ReceiveViaPoints(points)
       PROVE  CallbackInStep' /\ CustomViaPointsKept'
  <2>1. points \in {"custom", "none"}
    BY <1>0, SceneAssumption
  <2> QED BY <1>0, <1>13, <2>1 DEF ReceiveViaPoints
<1>14. CASE ActivateViaPoints
  BY <1>0, <1>14 DEF ActivateViaPoints
<1>15. CASE Clock
  BY <1>0, <1>15 DEF Clock, Tick, JumpBack
<1>16. CASE UNCHANGED vars
  BY <1>0, <1>16 DEF vars
<1> QED
  BY <1>1, <1>2, <1>3, <1>4, <1>5, <1>6, <1>7, <1>8, <1>9, <1>10, <1>11, <1>12,
     <1>13, <1>14, <1>15, <1>16 DEF Next, Cycle, Callback

\* What a selection leaves: no command, or one within the limits that the
\* arc check of a robot it covers has found free.
LEMMA SelectionSteps ==
  ASSUME IInv, NEW asked \in scene.requests, NEW route \in Routes,
         NEW clock_set \in BOOLEAN, NEW budget \in 0 .. Period,
         SelectCommand(asked, route, clock_set, budget)
  PROVE  /\ accepted' \in BOOLEAN /\ output' \in Commands
         /\ failures' \in 0 .. MaxFailures
         /\ CommandWithin' /\ CommandIsChecked'
<1> DEFINE u == SaturateVelocity(asked, robot, envelope)
           c == Shaped(u, budget)
           tried == Candidates(robot, route, u)
<1>1. /\ robot \in Robots /\ accepted = FALSE /\ output = Zero
      /\ failures \in 0 .. MaxFailures /\ 0 \in 0 .. MaxFailures
      /\ asked \in Commands /\ pc = "select" /\ previous \in Commands
  BY SceneAssumption, CycleAssumption
  DEF IInv, TypeOK, CommandWithin, Working, SelectCommand
<1>2. /\ pc' = "returning" /\ robot' = robot /\ world' = world
      /\ Supported(robot') = Supported(robot)
  BY DEF SelectCommand, Return, Accept, Recover
<1>3. Within(u, robot) /\ (Shapable(u, clock_set, budget) => Within(c, robot))
  BY <1>1, SaturatedWithin, ShapedWithin
<1>4. Zero \in Commands
  BY DEF Zero, Commands
<1>5. CASE Return
  BY <1>1, <1>2, <1>4, <1>5 DEF Return, CommandWithin, CommandIsChecked, Working
<1>6. ASSUME NEW d, Accept(d), Within(d, robot), Supported(robot) => d \in world.free
      PROVE  /\ accepted' \in BOOLEAN /\ output' \in Commands
             /\ failures' \in 0 .. MaxFailures
             /\ CommandWithin' /\ CommandIsChecked'
  <2>1. d \in Commands /\ d.surge \in -robot.backward .. robot.forward
    BY <1>6 DEF Within
  <2> QED BY <1>1, <1>2, <1>6, <2>1
          DEF Accept, CommandWithin, CommandIsChecked, Working, Within
<1>7. CASE /\ ~Supported(robot) /\ Shapable(u, clock_set, budget)
           /\ Accept([c EXCEPT !.yaw = SteeringAngle(c, robot)])
  <2> DEFINE d == [c EXCEPT !.yaw = SteeringAngle(c, robot)]
  <2>1. c \in Commands /\ SteeringAngle(c, robot) \in Int
    BY <1>1, <1>3, <1>7 DEF Within, SteeringAngle, Sign
  <2>2. d \in Commands /\ d.surge = c.surge
    BY <2>1 DEF Commands
  <2>3. d.surge \in -robot.backward .. robot.forward
    BY <1>3, <1>7, <2>2 DEF Within
  <2> HIDE DEF d
  <2>4. accepted' = TRUE /\ output' = d /\ failures' = 0
    BY <1>7 DEF Accept, d
  <2> QED BY <1>1, <1>2, <1>7, <2>2, <2>3, <2>4
          DEF CommandWithin, CommandIsChecked, Working
<1>8. CASE Shapable(u, clock_set, budget) /\ c \in world.free /\ Accept(c)
  BY <1>3, <1>6, <1>8
<1>9. CASE Recover(u, route, clock_set, budget)
  <2>1. CASE Return
    BY <1>5, <2>1
  <2>2. ASSUME NEW i \in DOMAIN tried, Shapable(tried[i], clock_set, budget),
               Shaped(tried[i], budget) \in world.free, Accept(Recovered(tried[i], budget))
        PROVE  /\ accepted' \in BOOLEAN /\ output' \in Commands
               /\ failures' \in 0 .. MaxFailures
               /\ CommandWithin' /\ CommandIsChecked'
    <3>1. Within(tried[i], robot)
      BY <1>1, <1>3, CandidatesWithin
    <3>2. Within(Shaped(tried[i], budget), robot)
      BY <1>1, <2>2, <3>1, ShapedWithin
    <3>3. Recovered(tried[i], budget) = Shaped(tried[i], budget)
      BY DEF Recovered
    <3> QED BY <1>6, <2>2, <3>2, <3>3
  <2> QED BY <1>9, <2>1, <2>2 DEF Recover
<1> QED
  BY <1>5, <1>7, <1>8, <1>9 DEF SelectCommand

\* The limits, the command and its check.
LEMMA CommandSteps ==
  ASSUME IInv, [Next]_vars
  PROVE  CapsAreLifted' /\ CapsInForce' /\ CommandWithin' /\ CommandIsChecked'
<1> USE DEF CapsAreLifted, CapsInForce, CommandWithin, CommandIsChecked, Working
<1>0. /\ CapsAreLifted /\ CapsInForce /\ CommandWithin /\ CommandIsChecked
      /\ robot \in Robots /\ scope \in Scopes /\ envelope \in Envelopes
      /\ accepted \in BOOLEAN /\ output \in Commands
  BY DEF IInv, TypeOK
<1>1. CASE BeginCycle
  <2>1. /\ pc = "idle" /\ saved' = robot /\ cfg' = cfg /\ output' = Zero /\ accepted' = FALSE
        /\ scope' = scope /\ envelope' = envelope
        /\ pc' \in {"returning", "locate"}
        /\ pc' = "locate" =>
             /\ robot' = Narrowed(robot, scope, envelope)
             /\ scope.enabled \/ envelope.enabled => Supported(robot)
    BY <1>1 DEF BeginCycle
  <2>2. Narrowed(robot, scope, envelope).car = robot.car
    BY <1>0, NarrowedTightens
  <2> QED BY <1>0, <2>1, <2>2 DEF Supported
<1>2. CASE \E found \in BOOLEAN : Locate(found)
  BY <1>0, <1>2 DEF Locate, Return, Zero
<1>3. CASE CheckViaPoints \/ UpdateViaPointsContainer
  BY <1>0, <1>3 DEF CheckViaPoints, UpdateViaPointsContainer
<1>4. ASSUME NEW reached \in BOOLEAN, NEW persistent \in BOOLEAN,
             CheckGoal(reached, persistent)
      PROVE  CapsAreLifted' /\ CapsInForce' /\ CommandWithin' /\ CommandIsChecked'
  <2>1. 0 \in -robot.backward .. robot.forward /\ 0 \in -robot.angular .. robot.angular
    BY <1>0 DEF Robots
  <2>2. Within(Zero, robot) /\ Zero.surge = 0
    BY <2>1 DEF Within, Zero, Commands
  <2>3. pc' \in {"returning", "modes"} /\ output' = Zero /\ UNCHANGED <<robot, saved, cfg, scope, envelope>>
        /\ (pc' = "modes" => accepted' = FALSE) /\ pc = "goal"
    BY <1>0, <1>4 DEF CheckGoal
  <2> QED BY <1>0, <2>1, <2>2, <2>3 DEF Supported
<1>5. CASE \E left \in BOOLEAN : ConfigureBackupModes(left)
  BY <1>0, <1>5 DEF ConfigureBackupModes
<1>6. CASE \E found, fresh \in BOOLEAN, kept \in SUBSET preferences : Plan(found, kept, fresh)
  BY <1>0, <1>6 DEF Plan, Reject
<1>7. CASE \E w \in scene.worlds : CheckFeasibility(w)
  BY <1>0, <1>7 DEF CheckFeasibility, Reject
<1>8. ASSUME NEW asked \in scene.requests, NEW route \in Routes,
             NEW clock_set \in BOOLEAN, NEW budget \in 0 .. Period,
             SelectCommand(asked, route, clock_set, budget)
      PROVE  CapsAreLifted' /\ CapsInForce' /\ CommandWithin' /\ CommandIsChecked'
  <2>1. CommandWithin' /\ CommandIsChecked'
    BY <1>8, SelectionSteps
  <2>2. CapsAreLifted' /\ CapsInForce'
    BY <1>0, <1>8 DEF SelectCommand, Return, Accept, Recover, Supported
  <2> QED BY <2>1, <2>2
<1>9. CASE RejectCommand
  BY <1>0, <1>9 DEF RejectCommand, Reject
<1>10. CASE \E in_time \in BOOLEAN : FinishCycle(in_time)
  BY <1>0, <1>10 DEF FinishCycle, Restored
<1>11. CASE Owner
  BY <1>0, <1>11 DEF Owner, SetCommandScope, SetStationEnvelope, CommitCommand,
                     DiscardCommand, IsGoalReached, Reconfigure
<1>12. CASE Callback
  BY <1>0, <1>12 DEF Callback, ReceiveViaPoints, ActivateViaPoints
<1>13. CASE Clock
  BY <1>0, <1>13 DEF Clock, Tick, JumpBack
<1>14. CASE UNCHANGED vars
  BY <1>0, <1>14 DEF vars
<1> QED
  BY <1>1, <1>2, <1>3, <1>4, <1>5, <1>6, <1>7, <1>8, <1>9, <1>10, <1>11, <1>12,
     <1>13, <1>14 DEF Next, Cycle

\* What a step within a cycle may change keeps its type.
LEMMA TypeFrame ==
  ASSUME TypeOK,
         UNCHANGED <<scene, cfg, robot, saved, scope, envelope, available, previous>>,
         UNCHANGED <<oscillating, since, rotdir, settled>>,
         UNCHANGED <<via, callback, active, overlapped>>,
         pc' \in Working \cup {"idle", "returning"},
         accepted' \in BOOLEAN, output' \in Commands, goal_reached' \in BOOLEAN,
         failures' \in 0 .. MaxFailures, preferences' \subseteq {"none", "left", "right"}
  PROVE  TypeOK'
BY DEF TypeOK

\* So does what the callback may change.
LEMMA CallbackFrame ==
  ASSUME TypeOK,
         UNCHANGED <<scene, cfg, robot, saved, scope, envelope, available, previous,
                     oscillating, since, rotdir, settled, pc, accepted, output, goal_reached, failures, preferences>>,
         via' \in {"none", "plan", "custom"}, callback' \in {"idle", "none", "custom"},
         active' \in BOOLEAN, overlapped' \in BOOLEAN
  PROVE  TypeOK'
BY DEF TypeOK

\* No step leaves the types.
LEMMA TypeSteps ==
  ASSUME IInv, [Next]_vars
  PROVE  TypeOK'
<1> USE DEF TypeOK, Working
<1>0. /\ TypeOK /\ MaxFailures \in Nat /\ MaxBack \in Nat /\ MinDuration \in Nat
      /\ Lower(failures + 1, MaxFailures) \in 0 .. MaxFailures
      /\ 0 \in 0 .. MaxFailures /\ Zero \in Commands
      /\ Cleared \subseteq {"none", "left", "right"}
  <2>1. TypeOK /\ MaxFailures \in Nat /\ MaxBack \in Nat /\ MinDuration \in Nat
    BY CycleAssumption DEF IInv
  <2>2. failures \in 0 .. MaxFailures /\ preferences \subseteq {"none", "left", "right"}
    BY <2>1
  <2> HIDE DEF TypeOK
  <2>3. Lower(failures + 1, MaxFailures) \in 0 .. MaxFailures /\ 0 \in 0 .. MaxFailures
    BY <2>1, <2>2 DEF Lower
  <2>4. Zero \in Commands
    BY DEF Zero, Commands
  <2>5. Cleared \subseteq {"none", "left", "right"}
    BY <2>2 DEF Cleared
  <2> QED BY <2>1, <2>3, <2>4, <2>5
<1>1. CASE BeginCycle
  <2>1. /\ Narrowed(robot, scope, envelope) \in Robots
        /\ Narrowed(robot, scope, NoEnvelope) \in Robots
    <3>1. NoEnvelope \in Envelopes
      BY DEF NoEnvelope, Envelopes
    <3> QED BY <1>0, <3>1, NarrowedTightens
  <2> QED BY <1>0, <1>1, <2>1 DEF BeginCycle
<1>2. ASSUME NEW found \in BOOLEAN, Locate(found)  PROVE TypeOK'
  <2>1. pc' \in {"via", "returning"} /\ UNCHANGED <<accepted, output, failures, preferences>>
    BY <1>2 DEF Locate, Return
  <2> QED BY <1>0, <1>2, <2>1, TypeFrame DEF Locate
<1>3. CASE CheckViaPoints \/ UpdateViaPointsContainer
  <2>1. CASE CheckViaPoints
    BY <1>0, <2>1 DEF CheckViaPoints
  <2>2. CASE UpdateViaPointsContainer
    BY <1>0, <2>2 DEF UpdateViaPointsContainer
  <2> QED BY <1>3, <2>1, <2>2
<1>4. ASSUME NEW reached \in BOOLEAN, NEW persistent \in BOOLEAN, CheckGoal(reached, persistent)
      PROVE  TypeOK'
  <2>1. pc' \in {"modes", "returning"} /\ accepted' \in BOOLEAN /\ goal_reached' \in BOOLEAN
    BY <1>0, <1>4 DEF CheckGoal
  <2> QED BY <1>0, <1>4, <2>1, TypeFrame DEF CheckGoal
<1>5. ASSUME NEW left \in BOOLEAN, ConfigureBackupModes(left) PROVE TypeOK'
  <2> DEFINE found == Detector!Oscillates(Detector!Update(buffer, LastMeasurement))
             dir == NextDirection(found, left)
  <2>1. CASE cfg.recovery
    <3>1. /\ oscillating' = found /\ rotdir' = dir
          /\ since' = NextSince(found)
          /\ preferences' = IF found \/ dir # rotdir THEN Told(dir) ELSE preferences
          /\ settled' = (settled \/ since >= MinDuration)
          /\ pc' = "plan"
          /\ UNCHANGED <<scene, cfg, robot, saved, ownerVars, historyVars, commandVars,
                         last_cmd, failures, viaVars>>
      BY <1>5, <2>1 DEF ConfigureBackupModes
    <3>2. found \in BOOLEAN
      BY DEF Detector!Oscillates
    <3> HIDE DEF found
    <3>3. dir \in {"none", "left", "right"} /\ since' \in Int
      BY <1>0, <3>1 DEF NextDirection, NextSince
    <3> HIDE DEF dir
    <3>4. Told(dir) \subseteq {"none", "left", "right"}
      BY <3>3 DEF Told
    <3> QED BY <1>0, <3>1, <3>2, <3>3, <3>4
  <2>2. CASE ~cfg.recovery
    BY <1>0, <1>5, <2>2 DEF ConfigureBackupModes
  <2> QED BY <2>1, <2>2
<1>6. ASSUME NEW found \in BOOLEAN, NEW fresh \in BOOLEAN, NEW kept \in SUBSET preferences,
             Plan(found, kept, fresh)
      PROVE  TypeOK'
  <2>1. preferences' \subseteq {"none", "left", "right"}
    BY <1>0, <1>6 DEF Plan, Reject
  <2>2. /\ pc' \in {"check", "returning"} /\ failures' \in 0 .. MaxFailures
        /\ UNCHANGED <<accepted, output>>
    BY <1>0, <1>6 DEF Plan, Reject
  <2> QED BY <1>0, <1>6, <2>1, <2>2, TypeFrame DEF Plan
<1>7. ASSUME NEW w \in scene.worlds, CheckFeasibility(w)  PROVE TypeOK'
  <2>1. preferences' \subseteq {"none", "left", "right"}
    BY <1>0, <1>7 DEF CheckFeasibility, Reject
  <2>2. /\ pc' \in {"select", "returning"} /\ failures' \in 0 .. MaxFailures
        /\ UNCHANGED <<accepted, output>>
    BY <1>0, <1>7 DEF CheckFeasibility, Reject
  <2> QED BY <1>0, <1>7, <2>1, <2>2, TypeFrame DEF CheckFeasibility
<1>8. ASSUME NEW asked \in scene.requests, NEW route \in Routes,
             NEW clock_set \in BOOLEAN, NEW budget \in 0 .. Period,
             SelectCommand(asked, route, clock_set, budget)
      PROVE  TypeOK'
  <2>1. accepted' \in BOOLEAN /\ output' \in Commands /\ failures' \in 0 .. MaxFailures
    BY <1>8, SelectionSteps
  <2>2. pc' = "returning" /\ UNCHANGED preferences
    BY <1>8 DEF SelectCommand, Return, Accept, Recover
  <2> QED BY <1>0, <1>8, <2>1, <2>2 DEF SelectCommand
<1>9. CASE RejectCommand
  BY <1>0, <1>9 DEF RejectCommand, Reject
<1>10. CASE \E in_time \in BOOLEAN : FinishCycle(in_time)
  BY <1>0, <1>10 DEF FinishCycle, Restored, Reset
<1>11. ASSUME NEW s \in scene.scopes, NEW same \in BOOLEAN, SetCommandScope(s, same)
       PROVE  TypeOK'
  <2>1. s \in Scopes /\ NoScope \in Scopes
    BY <1>0, SceneAssumption DEF NoScope, Scopes
  <2> QED BY <1>0, <1>11, <2>1 DEF SetCommandScope, Reset
<1>12. ASSUME NEW e \in scene.envelopes, SetStationEnvelope(e) PROVE TypeOK'
  <2>1. e \in Envelopes
    BY <1>0, SceneAssumption
  <2> QED BY <1>0, <1>12, <2>1 DEF SetStationEnvelope
<1>13. CASE DiscardCommand \/ IsGoalReached \/
            \E c \in {Zero, output}, in_time, clock_set \in BOOLEAN :
              CommitCommand(c, in_time, clock_set)
  <2>1. preferences' \subseteq {"none", "left", "right"}
    BY <1>0, <1>13 DEF DiscardCommand, IsGoalReached, CommitCommand
  <2>2. UNCHANGED <<scene, cfg, robot, saved, scope, envelope, oscillating, since, rotdir,
                    settled, via, callback, active, overlapped, pc, accepted,
                    goal_reached, failures>>
    BY <1>13 DEF DiscardCommand, IsGoalReached, CommitCommand
  <2>3. output' = Zero /\ available' \in BOOLEAN
    BY <1>13 DEF DiscardCommand, IsGoalReached, CommitCommand, Reset
  <2>4. previous' \in Commands
    BY <1>0, <1>13 DEF DiscardCommand, IsGoalReached, CommitCommand, Reset
  <2> QED BY <1>0, <2>1, <2>2, <2>3, <2>4
<1>14. ASSUME NEW c \in scene.configs, Reconfigure(c) PROVE TypeOK'
  <2>1. c.robot \in Robots
    BY <1>0, SceneAssumption
  <2> QED BY <1>0, <1>14, <2>1 DEF Reconfigure
<1>15. ASSUME NEW points \in scene.messages, ReceiveViaPoints(points) PROVE TypeOK'
  <2>1. points \in {"custom", "none"}
    BY <1>0, SceneAssumption
  <2>2. /\ active' \in BOOLEAN /\ overlapped' \in BOOLEAN
        /\ via' \in {"none", "plan", "custom"} /\ callback' \in {"idle", "none", "custom"}
    <3>1. CASE cfg.plan_via
      BY <1>0, <1>15, <3>1 DEF ReceiveViaPoints
    <3>2. CASE ~cfg.plan_via
      <4>1. via' = points /\ callback' = points /\ active' = active
        BY <1>15, <3>2 DEF ReceiveViaPoints
      <4>2. overlapped' \in BOOLEAN
        BY <1>15, <3>2 DEF ReceiveViaPoints
      <4> QED BY <1>0, <2>1, <4>1, <4>2
    <3> QED BY <3>1, <3>2
  <2>3. UNCHANGED <<scene, cfg, robot, saved, scope, envelope, available, previous,
                    oscillating, since, rotdir, settled, pc, accepted, output, goal_reached, failures, preferences>>
    BY <1>15 DEF ReceiveViaPoints
  <2> HIDE DEF TypeOK
  <2> QED BY <1>0, <2>2, <2>3, CallbackFrame
<1>16. CASE ActivateViaPoints
  BY <1>0, <1>16 DEF ActivateViaPoints
<1>17. CASE Clock
  <2>1. since' \in Int /\ settled' \in BOOLEAN
    <3>1. CASE Tick
      BY <1>0, <3>1 DEF Tick
    <3>2. ASSUME NEW t \in -MaxBack .. 0, JumpBack(t)
          PROVE  since' \in Int /\ settled' \in BOOLEAN
      <4>1. t \in Int
        BY <1>0
      <4> QED BY <3>2, <4>1 DEF JumpBack
    <3> QED BY <1>17, <3>1, <3>2 DEF Clock
  <2>2. UNCHANGED <<scene, cfg, robot, saved, scope, envelope, available, previous,
                    oscillating, rotdir, via, callback, active, overlapped, pc, accepted, output, goal_reached,
                    failures, preferences>>
    BY <1>17 DEF Clock, Tick, JumpBack
  <2> QED BY <1>0, <2>1, <2>2
<1>18. CASE UNCHANGED vars
  BY <1>0, <1>18 DEF vars
<1> QED
  BY <1>1, <1>2, <1>3, <1>4, <1>5, <1>6, <1>7, <1>8, <1>9, <1>10, <1>11, <1>12,
     <1>13, <1>14, <1>15, <1>16, <1>17, <1>18 DEF Next, Cycle, Owner, Callback

LEMMA StepInvariant == IInv /\ [Next]_vars => IInv'
<1> SUFFICES ASSUME IInv, [Next]_vars PROVE IInv'
  OBVIOUS
<1>1. TypeOK'
  BY TypeSteps
<1>2. CapsAreLifted' /\ CapsInForce' /\ CommandWithin' /\ CommandIsChecked'
  BY CommandSteps
<1>3. CallbackInStep' /\ CustomViaPointsKept'
  BY CallbackSteps
<1>4. RecoveryActs' /\ PreferencesExpire'
  BY RecoverySteps
<1> QED BY <1>1, <1>2, <1>3, <1>4 DEF IInv

-----------------------------------------------------------------------------
(* The theorems.                                                           *)

\* The conjunction the properties follow from holds in every reachable state
\* of computeVelocityCommands() and what runs beside it.
THEOREM InductiveInvariant == Spec => []IInv
BY InitInvariant, StepInvariant, PTL DEF Spec

\* Robot, command, counters and flags keep their types.
THEOREM TypeCorrect == Spec => []TypeOK
<1>1. IInv => TypeOK
  BY DEF IInv
<1> QED BY <1>1, InductiveInvariant, PTL

\* Whatever the optimizer asks for and whichever candidate the contact
\* recovery takes, a robot the arc check covers is given a command that it
\* found free.
THEOREM CommandAlwaysChecked == Spec => []CommandIsChecked
<1>1. IInv => CommandIsChecked
  BY DEF IInv
<1> QED BY <1>1, InductiveInvariant, PTL

\* No request, saturation, continuity or recovery exceeds the configured limits
\* or a cap in force, for all limits and caps and whatever was accepted before
\* them: the reference a command stays close to may lie beyond them.
THEOREM CapsAlwaysObeyed == Spec => []CapsAreObeyed
<1>1. ASSUME IInv PROVE CapsAreObeyed
  <2> SUFFICES ASSUME pc = "returning", accepted PROVE
        /\ output.surge \in -cfg.robot.backward .. cfg.robot.forward
        /\ Supported(robot) => output.yaw \in -cfg.robot.angular .. cfg.robot.angular
        /\ scope.enabled => output.surge >= -scope.reverse
        /\ envelope.enabled => output.surge \in -envelope.limit .. envelope.limit
    BY DEF CapsAreObeyed
  <2>1. /\ saved = cfg.robot /\ robot = Narrowed(saved, scope, envelope)
        /\ saved \in Robots /\ scope \in Scopes /\ envelope \in Envelopes
        /\ robot \in Robots
    BY <1>1 DEF IInv, TypeOK, CapsInForce
  <2>2. /\ output.surge \in -robot.backward .. robot.forward
        /\ Supported(robot) => output.yaw \in -robot.angular .. robot.angular
    BY <1>1 DEF IInv, CommandWithin, Within
  <2>3. /\ robot.angular = saved.angular
        /\ robot.forward <= saved.forward /\ robot.backward <= saved.backward
        /\ scope.enabled => robot.backward <= scope.reverse
        /\ envelope.enabled => robot.forward <= envelope.limit /\ robot.backward <= envelope.limit
    BY <2>1, NarrowedTightens
  <2>4. /\ robot.forward \in Nat /\ robot.backward \in Nat
        /\ saved.forward \in Nat /\ saved.backward \in Nat
        /\ scope.reverse \in Nat /\ envelope.limit \in Nat
    BY <2>1 DEF Robots, Scopes, Envelopes
  <2> QED BY <2>1, <2>2, <2>3, <2>4
<1> QED BY <1>1, InductiveInvariant, PTL

\* No return of a cycle leaves its caps behind.
THEOREM CapsAlwaysLifted == Spec => []CapsAreLifted
<1>1. IInv => CapsAreLifted
  BY DEF IInv
<1> QED BY <1>1, InductiveInvariant, PTL

\* Custom via-points survive every cycle their callback did not overlap.
THEOREM CustomViaPointsAlwaysKept == Spec => []CustomViaPointsKept
<1>1. IInv => CustomViaPointsKept
  BY DEF IInv
<1> QED BY <1>1, InductiveInvariant, PTL

\* A reported oscillation has a direction, but for a clock that has just
\* started.
THEOREM RecoveryAlwaysActs == Spec => []RecoveryHasDirection
<1>1. IInv => RecoveryHasDirection
  BY DEF IInv, RecoveryActs, RecoveryHasDirection
<1> QED BY <1>1, InductiveInvariant, PTL

\* No preference outlives its recovery.
THEOREM PreferencesAlwaysExpire == Spec => []PreferencesExpire
<1>1. IInv => PreferencesExpire
  BY DEF IInv
<1> QED BY <1>1, InductiveInvariant, PTL

=============================================================================
