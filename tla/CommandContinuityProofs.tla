----------------------- MODULE CommandContinuityProofs -----------------------
(***************************************************************************)
(* Proof that the commands TebLocalPlannerROS accepts are a command        *)
(* reference, for every route, horizon, acceleration and speed limit, and  *)
(* every behaviour of the clock.                                           *)
(***************************************************************************)
EXTENDS CommandContinuity, TLAPS

-----------------------------------------------------------------------------
(* The inductive invariant.                                                *)

NoHistory == ~available => stamp = 0 /\ previous = Zero

\* A command on its way to its commit.
Pending == (phase = "accepted" \/ owed) /\ Enabled

\* The pending command was selected against the history in place.
PendingFollows ==
  Pending =>
    \/ output = Zero
    \/ /\ available
       /\ proposed > stamp /\ proposed - stamp <= horizon
       /\ Reference!Near(output, previous, proposed - stamp)

PendingInLimits ==
  Pending =>
    /\ output.surge \in -limits.reverse..limits.forward
    /\ output.yaw \in -limits.angular..limits.angular

OwedWhenIdle == owed => phase = "idle"

StoppedWhilePlanning == phase = "planning" => output = Zero

IInv ==
  /\ TypeOK
  /\ NoHistory
  /\ PendingFollows
  /\ PendingInLimits
  /\ OwedWhenIdle
  /\ StoppedWhilePlanning
  /\ HistoryOfItsRoute

-----------------------------------------------------------------------------
(* The arithmetic of select().                                             *)

\* The values a reset writes have their types, and zero obeys every limit.
LEMMA ZeroFits ==
  /\ Zero \in Commands /\ NoLimits \in [forward : Nat, reverse : Nat, angular : Nat]
  /\ 0 \in 0..MaxTime /\ None \in Routes \cup {None}
  /\ \A l \in [forward : Nat, reverse : Nat, angular : Nat] :
       /\ Zero.surge \in -l.reverse..l.forward
       /\ Zero.yaw \in -l.angular..l.angular
<1>1. \A a, b \in Nat : 0 \in -a..b
  OBVIOUS
<1> QED
  BY <1>1, ConstantsAssumption DEF Zero, NoLimits, Commands

\* The budget grows with the elapsed time, and so does every acceleration bound.
LEMMA BudgetGrows ==
  ASSUME NEW a \in Nat, NEW e1 \in Nat, NEW e2 \in Nat, e1 <= e2
  PROVE  /\ Budget(e1) \in Nat /\ Budget(e2) \in Nat
         /\ a * Budget(e1) \in Nat /\ a * Budget(e2) \in Nat
         /\ a * Budget(e1) <= a * Budget(e2)
<1>1. Budget(e1) \in Nat /\ Budget(e2) \in Nat /\ Budget(e1) <= Budget(e2)
  BY ConstantsAssumption DEF Budget, Lower
<1>2. \A x, y \in Nat : x <= y => a * x <= a * y /\ a * x \in Nat /\ a * y \in Nat
  OBVIOUS
<1> QED
  BY <1>1, <1>2

\* A command near the previous one stays near it as time goes by.
LEMMA NearLasts ==
  ASSUME NEW c \in Commands, NEW p \in Commands, NEW e1 \in Nat, NEW e2 \in Nat, e1 <= e2,
         Reference!Near(c, p, e1)
  PROVE  Reference!Near(c, p, e2)
<1>1. Reference!Budget(e1) = Budget(e1) /\ Reference!Budget(e2) = Budget(e2)
  BY DEF Reference!Budget, Budget, Lower
<1>2. /\ Acc * Budget(e1) \in Nat /\ Acc * Budget(e2) \in Nat
      /\ Acc * Budget(e1) <= Acc * Budget(e2)
  BY BudgetGrows, ConstantsAssumption
<1>3. /\ AngularAcc * Budget(e1) \in Nat /\ AngularAcc * Budget(e2) \in Nat
      /\ AngularAcc * Budget(e1) <= AngularAcc * Budget(e2)
  BY BudgetGrows, ConstantsAssumption
<1> DEFINE x1 == Acc * Budget(e1)  x2 == Acc * Budget(e2)
           w1 == AngularAcc * Budget(e1)  w2 == AngularAcc * Budget(e2)
<1>4. /\ c.surge \in (p.surge - x1)..(p.surge + x1)
      /\ c.yaw \in (p.yaw - w1)..(p.yaw + w1)
  BY <1>1 DEF Reference!Near
<1>5. /\ c.surge \in Int /\ c.yaw \in Int /\ p.surge \in Int /\ p.yaw \in Int
  BY DEF Commands
<1>6. /\ c.surge \in (p.surge - x2)..(p.surge + x2)
      /\ c.yaw \in (p.yaw - w2)..(p.yaw + w2)
  <2> HIDE DEF x1, x2, w1, w2
  <2>1. x1 \in Nat /\ x2 \in Nat /\ x1 <= x2 /\ w1 \in Nat /\ w2 \in Nat /\ w1 <= w2
    BY <1>2, <1>3 DEF x1, x2, w1, w2
  <2> QED BY <1>4, <1>5, <2>1
<1> QED
  BY <1>1, <1>6 DEF Reference!Near

\* Clamping to a nonempty interval lands in it, and the interval lies within
\* the speed limits and within the change allowed.
LEMMA ClampLands ==
  ASSUME NEW low \in Nat, NEW high \in Nat, NEW value \in Int, NEW change \in Nat, NEW x \in Int,
         Low(low, value, change) <= High(high, value, change)
  PROVE  LET y == Higher(Low(low, value, change), Lower(High(high, value, change), x))
         IN  y \in Int /\ y \in -low..high /\ y \in (value - change)..(value + change)
BY DEF Low, High, Higher, Lower

\* select(): a command it returns is zero, or obeys limits and history at once.
LEMMA SelectedFollows ==
  ASSUME TypeOK, NEW c \in Requests, NEW l \in Limits, Selectable(c, l, clock)
  PROVE  /\ Selected(c, l, clock) \in Commands
         /\ \/ Selected(c, l, clock) = Zero
            \/ /\ available /\ clock > stamp /\ clock - stamp <= horizon
               /\ Reference!Near(Selected(c, l, clock), previous, clock - stamp)
         /\ Selected(c, l, clock).surge \in -l.reverse..l.forward
         /\ Selected(c, l, clock).yaw \in -l.angular..l.angular
<1> DEFINE s == Selected(c, l, clock)
<1>0. /\ c.surge \in Int /\ c.yaw \in Int
      /\ l.forward \in Nat /\ l.reverse \in Nat /\ l.angular \in Nat
      /\ previous.surge \in Int /\ previous.yaw \in Int
      /\ clock \in Int /\ stamp \in Int /\ horizon \in Int
  BY ConstantsAssumption DEF TypeOK, Commands
<1>1. CASE Restarts(c, clock)
  <2>1. s = Zero
    BY <1>1 DEF Selected
  <2>2. l \in [forward : Nat, reverse : Nat, angular : Nat]
    BY ConstantsAssumption
  <2>3. /\ Zero.surge \in -l.reverse..l.forward
        /\ Zero.yaw \in -l.angular..l.angular
        /\ Zero \in Commands
    BY <2>2, ZeroFits
  <2> HIDE DEF s
  <2>4. /\ s.surge \in -l.reverse..l.forward
        /\ s.yaw \in -l.angular..l.angular
        /\ s \in Commands
    BY <2>1, <2>3
  <2> QED
    BY <2>1, <2>4 DEF s
<1>2. CASE ~Restarts(c, clock)
  <2>1. available /\ clock > stamp /\ clock - stamp <= horizon /\ clock - stamp \in Nat
    BY <1>0, <1>2 DEF Restarts
  <2> DEFINE dx == Acc * Budget(clock - stamp)  dw == AngularAcc * Budget(clock - stamp)
  <2>2. dx \in Nat /\ dw \in Nat
    <3>1. Budget(clock - stamp) \in Nat /\ Acc \in Nat /\ AngularAcc \in Nat
      BY <2>1, ConstantsAssumption DEF Budget, Lower
    <3> QED
      BY <3>1
  <2>3. /\ Low(l.reverse, previous.surge, dx) <= High(l.forward, previous.surge, dx)
        /\ Low(l.angular, previous.yaw, dw) <= High(l.angular, previous.yaw, dw)
    BY <1>2 DEF Selectable, FitsLimits, Fits, dx, dw
  <2>4. s = [surge |-> Higher(Low(l.reverse, previous.surge, dx),
                              Lower(High(l.forward, previous.surge, dx), c.surge)),
             yaw |-> Higher(Low(l.angular, previous.yaw, dw),
                            Lower(High(l.angular, previous.yaw, dw), c.yaw))]
    BY <1>2 DEF Selected, Clamped, Clamp, dx, dw
  <2> HIDE DEF dx, dw, s
  <2>5. /\ s.surge \in Int /\ s.surge \in -l.reverse..l.forward
        /\ s.surge \in (previous.surge - dx)..(previous.surge + dx)
    BY <1>0, <2>2, <2>3, <2>4, ClampLands
  <2>6. /\ s.yaw \in Int /\ s.yaw \in -l.angular..l.angular
        /\ s.yaw \in (previous.yaw - dw)..(previous.yaw + dw)
    BY <1>0, <2>2, <2>3, <2>4, ClampLands
  <2>7. s \in Commands
    BY <2>4, <2>5, <2>6 DEF Commands
  <2>8. Reference!Near(s, previous, clock - stamp)
    BY <2>5, <2>6 DEF Reference!Near, Reference!Budget, Budget, Lower, dx, dw
  <2> QED
    BY <2>1, <2>5, <2>6, <2>7, <2>8 DEF s
<1> QED
  BY <1>1, <1>2

-----------------------------------------------------------------------------
(* The invariant.                                                          *)

\* The invariant holds in the initial state.
LEMMA InvariantHoldsInitially == Init => IInv
<1> SUFFICES ASSUME Init PROVE IInv
  OBVIOUS
<1>1. TypeOK
  BY ZeroFits DEF Init, TypeOK
<1> QED
  BY <1>1 DEF Init, IInv, NoHistory, Pending, PendingFollows, PendingInLimits, OwedWhenIdle,
              StoppedWhilePlanning, HistoryOfItsRoute, Enabled

\* setCommandScope() preserves the invariant.
LEMMA ScopeKeepsInvariant ==
  ASSUME IInv, NEW s \in Routes \cup {None}, NEW h \in Horizons, NEW supported \in BOOLEAN,
         SetCommandScope(s, h, supported)
  PROVE  IInv'
<1> USE DEF IInv
<1> DEFINE t == IF supported THEN s ELSE None
<1>1. t \in Routes \cup {None} /\ h \in Nat /\ Configure(t, h)
  BY ConstantsAssumption DEF SetCommandScope
<1> HIDE DEF t
<1>2. \/ Reset
      \/ UNCHANGED <<historyVars, scopeVars>> /\ scope # None
  BY <1>1 DEF Configure, scopeVars
<1>3. scope' \in Routes \cup {None} /\ horizon' \in Nat
  BY <1>1 DEF Configure, TypeOK
<1>4. TypeOK'
  <2>1. CASE Reset
    BY <1>3, <2>1, ZeroFits DEF SetCommandScope, Reset, TypeOK
  <2>2. CASE UNCHANGED <<historyVars, scopeVars>>
    BY <2>2 DEF SetCommandScope, historyVars, scopeVars, TypeOK
  <2> QED
    BY <1>2, <2>1, <2>2
<1>5. NoHistory' /\ HistoryOfItsRoute'
  BY <1>2 DEF Reset, historyVars, scopeVars, NoHistory, HistoryOfItsRoute
<1>6. /\ OwedWhenIdle' /\ StoppedWhilePlanning'
      /\ Pending' => Pending /\ UNCHANGED scopeVars
  BY DEF SetCommandScope, OwedWhenIdle, StoppedWhilePlanning, Pending, Enabled, scopeVars
<1>7. PendingInLimits'
  BY <1>6 DEF SetCommandScope, PendingInLimits
<1>8. PendingFollows'
  <2>1. SUFFICES ASSUME Pending', output' # Zero PROVE PendingFollows'
    BY DEF PendingFollows
  <2>2. Pending /\ UNCHANGED scopeVars /\ output # Zero
    BY <1>6, <2>1 DEF SetCommandScope
  <2>3. scope # None
    BY <2>2 DEF Pending, Enabled
  <2>4. UNCHANGED historyVars
    BY <1>1, <2>2, <2>3 DEF Configure, scopeVars
  <2> QED
    BY <2>2, <2>4 DEF SetCommandScope, PendingFollows, historyVars, scopeVars
<1> QED
  BY <1>4, <1>5, <1>6, <1>7, <1>8

\* commitCommand(): what it accepts is zero or follows the previous reference.
LEMMA CommitFollows ==
  ASSUME IInv, NEW c \in {Zero, output}, CommitCommand(c), Enabled, ~Expired(clock), c # Zero
  PROVE  Reference!Follows(c, clock)
<1>1. Pending /\ output # Zero /\ c = output
  BY DEF CommitCommand, Pending
<1>2. /\ available
      /\ proposed > stamp /\ proposed - stamp <= horizon
      /\ Reference!Near(output, previous, proposed - stamp)
  BY <1>1 DEF IInv, PendingFollows
<1>3. clock >= proposed /\ clock > stamp /\ clock - stamp <= horizon
  BY <1>2, ConstantsAssumption DEF Expired, IInv, TypeOK
<1>4. /\ proposed - stamp \in Nat /\ clock - stamp \in Nat
      /\ proposed - stamp <= clock - stamp
      /\ output \in Commands /\ previous \in Commands
  BY <1>2, <1>3, ConstantsAssumption DEF IInv, TypeOK
<1>5. Reference!Near(output, previous, clock - stamp)
  BY <1>2, <1>4, NearLasts
<1> QED
  BY <1>1, <1>2, <1>3, <1>5 DEF Reference!Follows

\* commitCommand() preserves the invariant.
LEMMA CommitKeepsInvariant ==
  ASSUME IInv, NEW c \in {Zero, output}, CommitCommand(c)
  PROVE  IInv'
<1> USE DEF IInv
<1>1. CASE ~Enabled
  BY <1>1 DEF CommitCommand, TypeOK, NoHistory, Pending, PendingFollows, PendingInLimits,
              OwedWhenIdle, StoppedWhilePlanning, HistoryOfItsRoute, Enabled, historyVars, scopeVars
<1>2. CASE Enabled
  <2> DEFINE a == IF Expired(clock) THEN Zero ELSE c
  <2>1. /\ Accept(a, clock) /\ output' = a /\ now' = clock /\ owed' = FALSE
        /\ phase = "idle" /\ UNCHANGED <<scopeVars, clock, phase, proposed, limits>>
    BY <1>2 DEF CommitCommand
  <2>2. a \in Commands
    BY DEF TypeOK, Zero, Commands
  <2> HIDE DEF a
  <2>3. CASE clock = 0
    <3>1. Reset
      BY <2>1, <2>3 DEF Accept
    <3>2. TypeOK'
      BY <2>1, <2>2, <3>1, ZeroFits DEF Reset, TypeOK, scopeVars
    <3>3. NoHistory' /\ HistoryOfItsRoute' /\ OwedWhenIdle' /\ StoppedWhilePlanning'
      BY <2>1, <3>1 DEF Reset, NoHistory, HistoryOfItsRoute, OwedWhenIdle, StoppedWhilePlanning
    <3> QED
      BY <2>1, <3>2, <3>3 DEF Pending, PendingFollows, PendingInLimits
  <2>4. CASE clock # 0
    <3>1. previous' = a /\ stamp' = clock /\ available' = TRUE /\ history_of' = scope
      BY <1>2, <2>1, <2>4 DEF Accept
    <3>2. TypeOK'
      <4>1. clock > 0 /\ stamp' > 0 /\ scope' # None
        BY <1>2, <2>1, <2>4, <3>1, ConstantsAssumption DEF TypeOK, scopeVars, Enabled
      <4> QED
        BY <2>1, <2>2, <3>1, <4>1 DEF TypeOK, scopeVars
    <3>3. NoHistory' /\ HistoryOfItsRoute' /\ OwedWhenIdle' /\ StoppedWhilePlanning'
      BY <2>1, <3>1 DEF NoHistory, HistoryOfItsRoute, OwedWhenIdle, StoppedWhilePlanning, scopeVars
    <3> QED
      BY <2>1, <3>2, <3>3 DEF Pending, PendingFollows, PendingInLimits
  <2> QED
    BY <2>3, <2>4
<1> QED
  BY <1>1, <1>2

\* discardCommand() and the steps of a cycle but the selection preserve it.
LEMMA ComputeKeepsInvariant ==
  ASSUME IInv, DiscardCommand \/ BeginCompute \/ Arrive \/ GiveUp \/ FinishCompute
  PROVE  IInv'
<1> USE DEF IInv
<1>1. CASE DiscardCommand
  <2>1. TypeOK'
    BY <1>1, ZeroFits DEF DiscardCommand, Reset, TypeOK, scopeVars
  <2> QED
    BY <1>1, <2>1 DEF DiscardCommand, Reset, NoHistory, Pending, PendingFollows, PendingInLimits,
                      OwedWhenIdle, StoppedWhilePlanning, HistoryOfItsRoute
<1>2. CASE BeginCompute
  <2>1. TypeOK'
    BY <1>2, ZeroFits DEF BeginCompute, TypeOK, scopeVars, historyVars
  <2> QED
    BY <1>2, <2>1 DEF BeginCompute, scopeVars, historyVars, NoHistory, Pending, PendingFollows,
                      PendingInLimits, OwedWhenIdle, StoppedWhilePlanning, HistoryOfItsRoute
<1>3. CASE Arrive \/ GiveUp
  <2>1. UNCHANGED <<scopeVars, historyVars, clock, now, proposed, output, limits, owed>>
        /\ phase' \in {"accepted", "refused"} /\ phase = "planning"
    BY <1>3 DEF Arrive, GiveUp
  <2>2. TypeOK'
    BY <2>1 DEF TypeOK, scopeVars, historyVars
  <2>3. NoHistory' /\ HistoryOfItsRoute' /\ OwedWhenIdle' /\ StoppedWhilePlanning'
    BY <2>1 DEF scopeVars, historyVars, NoHistory, HistoryOfItsRoute, OwedWhenIdle,
                StoppedWhilePlanning
  <2>4. output' = Zero /\ limits' \in [forward : Nat, reverse : Nat, angular : Nat]
    BY <2>1 DEF StoppedWhilePlanning, TypeOK
  <2>5. PendingFollows' /\ PendingInLimits'
    BY <2>4, ZeroFits DEF PendingFollows, PendingInLimits
  <2> QED
    BY <2>2, <2>3, <2>5
<1>4. CASE FinishCompute /\ phase = "accepted" /\ FinishedInTime
  <2>1. TypeOK'
    BY <1>4 DEF FinishCompute, TypeOK, scopeVars, historyVars
  <2> QED
    BY <1>4, <2>1 DEF FinishCompute, scopeVars, historyVars, NoHistory, Pending, PendingFollows,
                      PendingInLimits, OwedWhenIdle, StoppedWhilePlanning, HistoryOfItsRoute,
                      Enabled
<1>5. CASE FinishCompute /\ ~(phase = "accepted" /\ FinishedInTime)
  <2>1. TypeOK'
    BY <1>5, ZeroFits DEF FinishCompute, Reset, TypeOK, scopeVars
  <2> QED
    BY <1>5, <2>1 DEF FinishCompute, Reset, NoHistory, Pending, PendingFollows, PendingInLimits,
                      OwedWhenIdle, StoppedWhilePlanning, HistoryOfItsRoute
<1> QED
  BY <1>1, <1>2, <1>3, <1>4, <1>5

\* The selection of a command preserves the invariant.
LEMMA SelectionKeepsInvariant ==
  ASSUME IInv, NEW c \in Requests, NEW l \in Limits, NEW feasible \in BOOLEAN,
         SelectCommand(c, l, feasible)
  PROVE  IInv'
<1> USE DEF IInv
<1>1. /\ UNCHANGED <<scopeVars, historyVars, clock, owed>> /\ ~owed
      /\ now' = clock /\ proposed' = clock /\ limits' = l
      /\ phase' \in {"accepted", "refused"}
  BY DEF SelectCommand, OwedWhenIdle
<1>2. c \in Commands /\ l \in [forward : Nat, reverse : Nat, angular : Nat]
  BY ConstantsAssumption DEF Commands
<1>3. \/ output' = c
      \/ Enabled /\ Selectable(c, l, clock) /\ output' = Selected(c, l, clock)
  BY DEF SelectCommand
<1>4. output' \in Commands
  BY <1>2, <1>3, SelectedFollows
<1>5. TypeOK'
  BY <1>1, <1>2, <1>4 DEF TypeOK, scopeVars, historyVars
<1>6. NoHistory' /\ HistoryOfItsRoute' /\ OwedWhenIdle' /\ StoppedWhilePlanning'
  BY <1>1 DEF scopeVars, historyVars, NoHistory, HistoryOfItsRoute, OwedWhenIdle,
              StoppedWhilePlanning
<1>7. PendingFollows' /\ PendingInLimits'
  <2>1. SUFFICES ASSUME Pending' PROVE PendingFollows' /\ PendingInLimits'
    BY DEF PendingFollows, PendingInLimits
  <2>2. Selectable(c, l, clock) /\ output' = Selected(c, l, clock)
    BY <1>1, <2>1 DEF SelectCommand, Pending, Enabled, scopeVars
  <2>3. /\ output'.surge \in -l.reverse..l.forward
        /\ output'.yaw \in -l.angular..l.angular
        /\ \/ output' = Zero
           \/ /\ available /\ clock > stamp /\ clock - stamp <= horizon
              /\ Reference!Near(output', previous, clock - stamp)
    BY <2>2, SelectedFollows
  <2>4. /\ available' = available /\ stamp' = stamp /\ previous' = previous
        /\ horizon' = horizon
    BY <1>1 DEF scopeVars, historyVars
  <2>5. Reference!Near(output', previous, clock - stamp) =>
          Reference!Near(output, previous, proposed - stamp)'
    BY <1>1, <2>4 DEF Reference!Near, Reference!Budget
  <2>6. PendingFollows'
    BY <1>1, <2>3, <2>4, <2>5 DEF PendingFollows
  <2>7. PendingInLimits'
    BY <1>1, <2>3 DEF PendingInLimits
  <2> QED
    BY <2>6, <2>7
<1> QED
  BY <1>5, <1>6, <1>7

\* The clock preserves the invariant, wherever it jumps.
LEMMA ClockKeepsInvariant ==
  ASSUME IInv, Tick \/ \E t \in 0..MaxTime : JumpBack(t)
  PROVE  IInv'
<1>1. /\ UNCHANGED <<scopeVars, historyVars, phase, now, proposed, output, limits, owed>>
      /\ clock' \in 0..MaxTime
  BY ConstantsAssumption DEF IInv, TypeOK, Tick, JumpBack
<1> QED
  BY <1>1 DEF IInv, TypeOK, NoHistory, Pending, PendingFollows, PendingInLimits, OwedWhenIdle,
              StoppedWhilePlanning, HistoryOfItsRoute, Enabled, scopeVars, historyVars

\* Every step preserves the invariant.
LEMMA StepKeepsInvariant == IInv /\ [Next]_vars => IInv'
<1> SUFFICES ASSUME IInv, [Next]_vars PROVE IInv'
  OBVIOUS
<1>1. CASE Owner
  BY <1>1, ScopeKeepsInvariant, CommitKeepsInvariant, ComputeKeepsInvariant DEF Owner
<1>2. CASE Compute
  BY <1>2, ComputeKeepsInvariant, SelectionKeepsInvariant DEF Compute
<1>3. CASE Tick \/ \E t \in 0..MaxTime : JumpBack(t)
  BY <1>3, ClockKeepsInvariant
<1>4. CASE UNCHANGED vars
  BY <1>4 DEF vars, IInv, TypeOK, NoHistory, Pending, PendingFollows, PendingInLimits,
              OwedWhenIdle, StoppedWhilePlanning, HistoryOfItsRoute, Enabled, scopeVars, historyVars
<1> QED
  BY <1>1, <1>2, <1>3, <1>4 DEF Next

-----------------------------------------------------------------------------
(* The theorems about the invariant.                                       *)

\* The inductive invariant of the continuity controller holds throughout.
THEOREM InductiveInvariant == Spec => []IInv
<1> QED
  BY InvariantHoldsInitially, StepKeepsInvariant, PTL DEF Spec

\* Every variable keeps its type, and history needs a scope and a time.
THEOREM TypeCorrect == Spec => []TypeOK
<1>1. IInv => TypeOK
  BY DEF IInv
<1> QED
  BY <1>1, InductiveInvariant, PTL

\* select(): a speed limit that has become tighter is never overruled by the
\* history of accepted commands.
THEOREM LimitsAlwaysOverrule == Spec => []LimitsOverruleHistory
<1>1. IInv => LimitsOverruleHistory
  BY DEF IInv, PendingInLimits, Pending, LimitsOverruleHistory
<1> QED
  BY <1>1, InductiveInvariant, PTL

\* configure(): history never outlives the scope it was accepted in.
THEOREM HistoryStaysWithItsRoute == Spec => []HistoryOfItsRoute
<1>1. IInv => HistoryOfItsRoute
  BY DEF IInv
<1> QED
  BY <1>1, InductiveInvariant, PTL

-----------------------------------------------------------------------------
(* The refinement.                                                         *)

\* A step that changes the history is a step of the reference.
LEMMA StepRefines ==
  ASSUME IInv, IInv', [Next]_vars
  PROVE  [Reference!Next]_(Reference!vars)
<1> USE DEF IInv
<1>1. CASE Reset /\ horizon' \in Nat
  BY <1>1 DEF Reset, Reference!Next, Reference!Forget, Reference!Zero, Zero
<1>2. CASE UNCHANGED <<horizon, available, stamp, previous>>
  BY <1>2 DEF Reference!vars
<1>3. ASSUME NEW s \in Routes \cup {None}, NEW h \in Horizons, NEW supported \in BOOLEAN,
             SetCommandScope(s, h, supported)
      PROVE  [Reference!Next]_(Reference!vars)
  <2>1. Reset \/ UNCHANGED <<historyVars, scopeVars>>
    BY <1>3 DEF SetCommandScope, Configure, scopeVars
  <2>2. horizon' \in Nat
    BY DEF TypeOK
  <2> QED
    BY <1>1, <1>2, <2>1, <2>2 DEF historyVars, scopeVars
<1>4. ASSUME NEW c \in {Zero, output}, CommitCommand(c)
      PROVE  [Reference!Next]_(Reference!vars)
  <2>1. CASE ~Enabled
    BY <1>2, <1>4, <2>1 DEF CommitCommand, historyVars, scopeVars
  <2>2. CASE Enabled /\ clock = 0
    <3>1. Reset /\ horizon' \in Nat
      BY <1>4, <2>2 DEF CommitCommand, Accept, TypeOK, scopeVars
    <3> QED
      BY <1>1, <3>1
  <2>3. CASE Enabled /\ clock # 0
    <3> DEFINE a == IF Expired(clock) THEN Zero ELSE c
    <3>1. /\ previous' = a /\ stamp' = clock /\ available' = TRUE /\ horizon' = horizon
      BY <1>4, <2>3 DEF CommitCommand, Accept, scopeVars
    <3>2. a = Zero \/ Reference!Follows(a, clock)
      BY <1>4, <2>3, CommitFollows
    <3>3. clock > 0 /\ a \in Commands
      BY <2>3, <3>1, ConstantsAssumption DEF TypeOK
    <3> HIDE DEF a
    <3>4. Reference!Accept
      BY <3>1, <3>2, <3>3 DEF Reference!Accept, Reference!Commands, Commands, Reference!Zero, Zero
    <3> QED
      BY <3>4 DEF Reference!Next
  <2> QED
    BY <2>1, <2>2, <2>3
<1>5. CASE DiscardCommand \/ FinishCompute
  <2>1. \/ Reset /\ horizon' \in Nat
        \/ UNCHANGED <<horizon, available, stamp, previous>>
    BY <1>5 DEF DiscardCommand, FinishCompute, historyVars, scopeVars, TypeOK
  <2> QED
    BY <1>1, <1>2, <2>1
<1>6. CASE \/ BeginCompute \/ Arrive \/ GiveUp
           \/ \E c \in Requests, l \in Limits, feasible \in BOOLEAN : SelectCommand(c, l, feasible)
           \/ Tick \/ \E t \in 0..MaxTime : JumpBack(t)
           \/ UNCHANGED vars
  <2>1. UNCHANGED <<horizon, available, stamp, previous>>
    BY <1>6 DEF BeginCompute, Arrive, GiveUp, SelectCommand, Tick, JumpBack, vars, historyVars,
                scopeVars
  <2> QED
    BY <1>2, <2>1
<1> QED
  BY <1>3, <1>4, <1>5, <1>6 DEF Next, Owner, Compute

\* commitCommand(), discardCommand(), setCommandScope() and the cycle implement
\* the command reference: what is accepted is zero or follows what was accepted
\* before within the horizon and the acceleration of one period.
THEOREM ContinuityRefinesReference == Spec => FollowsReference
<1>1. Init => Reference!Init
  BY DEF Init, Reference!Init, Reference!Zero, Zero
<1>2. IInv /\ IInv' /\ [Next]_vars => [Reference!Next]_(Reference!vars)
  BY StepRefines
<1> QED
  BY <1>1, <1>2, InductiveInvariant, PTL DEF Spec, FollowsReference, Reference!Spec
=============================================================================
