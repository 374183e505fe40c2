---------------------- MODULE TerminalObservationProofs ----------------------
(***************************************************************************)
(* Proofs about the arrival observation, for any number of plans and of    *)
(* control cycles.                                                         *)
(***************************************************************************)
EXTENDS TerminalObservation, TLAPS

Evaluating == {"reset", "located", "evaluating"}
Holding == {"located", "evaluating", "committed"}

-----------------------------------------------------------------------------
(* The inductive invariant.                                                *)

\* setPlan() has counted every plan but the one it is storing.
PlansCounted ==
  /\ setter = "idle" => slot.epoch.plan = global_plan
  /\ setter = "copying" => slot.epoch.plan = -global_plan - 1
  /\ setter \in {"stored", "cleared"} => slot.epoch.plan = global_plan - 1

CyclesCounted == control = "begun" => slot.epoch.compute < MaxCycles

\* Every reset is one event: an epoch is fixed by its two other counters.
EventsCounted ==
  /\ slot.epoch.event = slot.epoch.plan + slot.epoch.compute
  /\ epoch.event = epoch.plan + epoch.compute

\* No evaluation is in the slot while the running cycle has not committed its own.
NotEvaluatedYet == control \in Evaluating => ~slot.evaluated

VerdictMatches == ReasonExplainsVerdict

\* A cycle that setPlan() has not disturbed holds the goal of the plan in place,
\* and so does the flag.
GoalFollowsPlan ==
  ~overlapped =>
    /\ control \notin {"idle", "done"} => setter = "idle"
    /\ control \in Holding => goal = global_plan
    /\ setter = "cleared" => goal_reached = 0
    /\ setter = "idle" => goal_reached \in {0, global_plan}

IInv ==
  /\ TypeOK
  /\ PlansCounted
  /\ CyclesCounted
  /\ EventsCounted
  /\ NotEvaluatedYet
  /\ VerdictMatches
  /\ GoalFollowsPlan

-----------------------------------------------------------------------------
(* The snapshot.                                                           *)

\* evaluate(): the two chains of conditions agree, and the snapshot is one of
\* the values of the slot.
LEMMA EvaluationAgrees ==
  ASSUME NEW e \in Epochs, NEW c \in Conditions, NEW g \in -MaxPlans..MaxPlans
  PROVE  /\ Evaluate(e, c, g) \in [epoch : Epochs, reason : Reasons, evaluated : BOOLEAN,
                                   reached : BOOLEAN, goal : -MaxPlans..MaxPlans]
         /\ Reached(c) <=> Reason(c) = "arrival_conditions_met"
<1>1. /\ c.position_ok \in BOOLEAN /\ c.yaw_ok \in BOOLEAN /\ c.via_ok \in BOOLEAN
      /\ c.route_phase_ok \in BOOLEAN /\ c.stopped \in BOOLEAN /\ c.free_goal_velocity \in BOOLEAN
  BY DEF Conditions
<1>2. Reached(c) \in BOOLEAN
  BY <1>1 DEF Reached
<1>3. Reason(c) \in Reasons /\ (Reached(c) <=> Reason(c) = "arrival_conditions_met")
  BY <1>1 DEF Reason, Reasons, Reached
<1> QED
  BY <1>2, <1>3 DEF Evaluate

\* resetTerminalObservation() counts one event, and the plan or the cycle.
LEMMA ResetCounts ==
  ASSUME TypeOK, EventsCounted, NEW new_plan \in BOOLEAN,
         new_plan => slot.epoch.plan < MaxPlans,
         ~new_plan => slot.epoch.compute < MaxCycles,
         ResetTerminalObservation(new_plan)
  PROVE  /\ slot' \in [epoch : Epochs, reason : Reasons, evaluated : BOOLEAN, reached : BOOLEAN,
                       goal : -MaxPlans..MaxPlans]
         /\ slot'.epoch.event = slot'.epoch.plan + slot'.epoch.compute
         /\ slot'.epoch.event = slot.epoch.event + 1
         /\ slot'.epoch.plan = IF new_plan THEN slot.epoch.plan + 1 ELSE slot.epoch.plan
         /\ slot'.epoch.compute = IF new_plan THEN slot.epoch.compute ELSE slot.epoch.compute + 1
         /\ ~slot'.evaluated
<1> DEFINE n == NextEpoch(new_plan)
<1>1. /\ slot.epoch \in Epochs
      /\ slot.epoch.event \in Int /\ slot.epoch.plan \in 0..MaxPlans
      /\ slot.epoch.compute \in 0..MaxCycles
      /\ slot.epoch.event = slot.epoch.plan + slot.epoch.compute
  BY BoundsAssumption DEF TypeOK, Epochs, EventsCounted
<1>2. /\ n.event = slot.epoch.event + 1
      /\ n.plan = IF new_plan THEN slot.epoch.plan + 1 ELSE slot.epoch.plan
      /\ n.compute = IF new_plan THEN slot.epoch.compute ELSE slot.epoch.compute + 1
      /\ n = [event |-> n.event, plan |-> n.plan, compute |-> n.compute]
  BY DEF NextEpoch
<1>3. n \in Epochs /\ n.event = n.plan + n.compute
  BY <1>1, <1>2, BoundsAssumption DEF Epochs
<1>4. slot' = Reset(n, IF new_plan THEN "plan_reset" ELSE "compute_reset")
  BY DEF ResetTerminalObservation
<1>5. /\ slot'.epoch = n /\ slot'.evaluated = FALSE
      /\ slot' \in [epoch : Epochs, reason : Reasons, evaluated : BOOLEAN, reached : BOOLEAN,
                    goal : -MaxPlans..MaxPlans]
  <2> HIDE DEF n
  <2> QED BY <1>3, <1>4, BoundsAssumption DEF Reset, Reasons
<1> QED
  BY <1>2, <1>3, <1>5

\* The invariant holds in the initial state.
LEMMA InvariantHoldsInitially == Init => IInv
<1> SUFFICES ASSUME Init PROVE IInv
  OBVIOUS
<1>1. /\ slot = [epoch |-> [event |-> 0, plan |-> 0, compute |-> 0], reason |-> "uninitialized",
                 evaluated |-> FALSE, reached |-> FALSE, goal |-> 0]
      /\ epoch = [event |-> 0, plan |-> 0, compute |-> 0]
  BY DEF Init, Reset
<1>2. TypeOK
  <2>1. epoch \in Epochs /\ 0 \in -MaxPlans..MaxPlans
    BY <1>1, BoundsAssumption DEF Epochs
  <2>2. slot \in [epoch : Epochs, reason : Reasons, evaluated : BOOLEAN, reached : BOOLEAN,
                  goal : -MaxPlans..MaxPlans]
    BY <1>1, <2>1 DEF Reasons
  <2> QED
    BY <2>1, <2>2 DEF Init, TypeOK
<1>3. PlansCounted /\ CyclesCounted /\ EventsCounted /\ NotEvaluatedYet /\ VerdictMatches
  BY <1>1 DEF Init, PlansCounted, CyclesCounted, EventsCounted, NotEvaluatedYet, VerdictMatches,
              ReasonExplainsVerdict, Evaluating
<1>4. GoalFollowsPlan
  BY DEF Init, GoalFollowsPlan, Holding
<1> QED
  BY <1>2, <1>3, <1>4 DEF IInv

-----------------------------------------------------------------------------
(* One lemma per group of actions.                                         *)

\* setPlan() preserves the invariant.
LEMMA SetPlanKeepsInvariant == IInv /\ SetPlan => IInv'
<1> SUFFICES ASSUME IInv, SetPlan PROVE IInv'
  OBVIOUS
<1> USE DEF IInv
<1>0. /\ slot.epoch \in Epochs /\ slot.epoch.plan \in 0..MaxPlans
      /\ global_plan \in -MaxPlans..MaxPlans /\ MaxPlans \in Nat
  BY BoundsAssumption DEF TypeOK, Epochs
<1>1. CASE BeginPlan
  <2>1. TypeOK'
    BY <1>0, <1>1 DEF BeginPlan, cycleVars, TypeOK, PlansCounted
  <2>2. PlansCounted'
    BY <1>0, <1>1 DEF BeginPlan, PlansCounted
  <2>3. GoalFollowsPlan'
    BY <1>1 DEF BeginPlan, cycleVars, GoalFollowsPlan, Holding
  <2> QED
    BY <1>1, <2>1, <2>2, <2>3
    DEF BeginPlan, cycleVars, CyclesCounted, EventsCounted, NotEvaluatedYet, VerdictMatches,
        ReasonExplainsVerdict
<1>2. CASE StorePlan
  <2>1. TypeOK'
    BY <1>0, <1>2 DEF StorePlan, cycleVars, TypeOK
  <2>2. PlansCounted'
    BY <1>0, <1>2 DEF StorePlan, PlansCounted
  <2>3. GoalFollowsPlan'
    BY <1>2 DEF StorePlan, cycleVars, GoalFollowsPlan, Holding
  <2> QED
    BY <1>2, <2>1, <2>2, <2>3
    DEF StorePlan, cycleVars, CyclesCounted, EventsCounted, NotEvaluatedYet, VerdictMatches,
        ReasonExplainsVerdict
<1>3. CASE ClearGoalReached
  <2>1. TypeOK'
    BY <1>0, <1>3 DEF ClearGoalReached, cycleVars, TypeOK
  <2>2. PlansCounted'
    BY <1>3 DEF ClearGoalReached, PlansCounted
  <2>3. GoalFollowsPlan'
    BY <1>3 DEF ClearGoalReached, cycleVars, GoalFollowsPlan, Holding
  <2> QED
    BY <1>3, <2>1, <2>2, <2>3
    DEF ClearGoalReached, cycleVars, CyclesCounted, EventsCounted, NotEvaluatedYet, VerdictMatches,
        ReasonExplainsVerdict
<1>4. CASE ResetForPlan
  <2>1. slot.epoch.plan = global_plan - 1
    BY <1>4 DEF ResetForPlan, PlansCounted
  <2>2. /\ slot' \in [epoch : Epochs, reason : Reasons, evaluated : BOOLEAN, reached : BOOLEAN,
                      goal : -MaxPlans..MaxPlans]
        /\ slot'.epoch.event = slot'.epoch.plan + slot'.epoch.compute
        /\ slot'.epoch.plan = slot.epoch.plan + 1
        /\ slot'.epoch.compute = slot.epoch.compute
        /\ ~slot'.evaluated
    <3>1. slot.epoch.plan < MaxPlans
      BY <1>0, <2>1
    <3> QED
      BY <1>4, <3>1, ResetCounts DEF ResetForPlan
  <2>3. TypeOK'
    BY <1>4, <2>2 DEF ResetForPlan, cycleVars, TypeOK
  <2>4. PlansCounted'
    BY <1>0, <1>4, <2>1, <2>2 DEF ResetForPlan, PlansCounted
  <2>5. CyclesCounted' /\ EventsCounted' /\ NotEvaluatedYet' /\ VerdictMatches'
    BY <1>4, <2>2
    DEF ResetForPlan, cycleVars, CyclesCounted, EventsCounted, NotEvaluatedYet, VerdictMatches,
        ReasonExplainsVerdict, Evaluating
  <2>6. GoalFollowsPlan'
    BY <1>4 DEF ResetForPlan, cycleVars, GoalFollowsPlan, Holding
  <2> QED
    BY <2>3, <2>4, <2>5, <2>6
<1> QED
  BY <1>1, <1>2, <1>3, <1>4 DEF SetPlan

\* The steps of a cycle that leave the slot alone preserve the invariant.
LEMMA QuietStepsKeepInvariant ==
  ASSUME IInv,
         \/ BeginCycle \/ ReadGoal \/ ReadEpoch \/ SetGoalReached \/ FinishCycle
         \/ IsGoalReached \/ \E enabled \in BOOLEAN : SetPersistentGoal(enabled)
  PROVE  IInv'
<1> USE DEF IInv
<1>0. slot' = slot /\ global_plan' = global_plan /\ setter' = setter
  BY DEF BeginCycle, ReadGoal, ReadEpoch, SetGoalReached, FinishCycle, IsGoalReached,
         SetPersistentGoal
<1>1. PlansCounted' /\ VerdictMatches'
  BY <1>0 DEF PlansCounted, VerdictMatches, ReasonExplainsVerdict
<1>2. CASE BeginCycle
  <2>1. TypeOK'
    BY <1>0, <1>2, BoundsAssumption DEF BeginCycle, TypeOK
  <2>2. CyclesCounted' /\ EventsCounted' /\ NotEvaluatedYet'
    BY <1>2 DEF BeginCycle, CyclesCounted, EventsCounted, NotEvaluatedYet, Evaluating
  <2>3. GoalFollowsPlan'
    BY <1>2 DEF BeginCycle, GoalFollowsPlan, Holding
  <2> QED
    BY <1>1, <2>1, <2>2, <2>3
<1>3. CASE ReadGoal
  <2>1. TypeOK'
    BY <1>0, <1>3 DEF ReadGoal, TypeOK
  <2>2. CyclesCounted' /\ EventsCounted' /\ NotEvaluatedYet'
    BY <1>3 DEF ReadGoal, CyclesCounted, EventsCounted, NotEvaluatedYet, Evaluating
  <2>3. GoalFollowsPlan'
    BY <1>3 DEF ReadGoal, GoalFollowsPlan, Holding
  <2> QED
    BY <1>1, <2>1, <2>2, <2>3
<1>4. CASE ReadEpoch
  <2>1. TypeOK'
    BY <1>0, <1>4 DEF ReadEpoch, TypeOK
  <2>2. CyclesCounted' /\ EventsCounted' /\ NotEvaluatedYet'
    BY <1>4 DEF ReadEpoch, CyclesCounted, EventsCounted, NotEvaluatedYet, Evaluating
  <2>3. GoalFollowsPlan'
    BY <1>4 DEF ReadEpoch, GoalFollowsPlan, Holding
  <2> QED
    BY <1>1, <2>1, <2>2, <2>3
<1>5. CASE SetGoalReached
  <2>1. TypeOK'
    BY <1>0, <1>5 DEF SetGoalReached, cycleVars, TypeOK
  <2>2. CyclesCounted' /\ EventsCounted' /\ NotEvaluatedYet'
    BY <1>5 DEF SetGoalReached, cycleVars, CyclesCounted, EventsCounted, NotEvaluatedYet, Evaluating
  <2>3. GoalFollowsPlan'
    BY <1>5 DEF SetGoalReached, cycleVars, GoalFollowsPlan, Holding
  <2> QED
    BY <1>1, <2>1, <2>2, <2>3
<1>6. CASE FinishCycle \/ IsGoalReached
  <2>1. TypeOK'
    BY <1>0, <1>6 DEF FinishCycle, IsGoalReached, cycleVars, TypeOK
  <2>2. CyclesCounted' /\ EventsCounted' /\ NotEvaluatedYet'
    BY <1>6 DEF FinishCycle, IsGoalReached, cycleVars, CyclesCounted, EventsCounted,
                NotEvaluatedYet, Evaluating
  <2>3. GoalFollowsPlan'
    BY <1>6 DEF FinishCycle, IsGoalReached, cycleVars, GoalFollowsPlan, Holding
  <2> QED
    BY <1>1, <2>1, <2>2, <2>3
<1>7. CASE \E enabled \in BOOLEAN : SetPersistentGoal(enabled)
  <2>1. TypeOK'
    BY <1>7 DEF SetPersistentGoal, cycleVars, TypeOK
  <2>2. CyclesCounted' /\ EventsCounted' /\ NotEvaluatedYet' /\ GoalFollowsPlan'
    BY <1>7 DEF SetPersistentGoal, cycleVars, CyclesCounted, EventsCounted, NotEvaluatedYet,
                GoalFollowsPlan
  <2> QED
    BY <1>1, <2>1, <2>2
<1> QED
  BY <1>2, <1>3, <1>4, <1>5, <1>6, <1>7

\* The steps of a cycle that write the slot preserve the invariant.
LEMMA SlotStepsKeepInvariant ==
  ASSUME IInv,
         \/ ResetForCycle
         \/ \E why \in Reasons : FailCycle(why)
         \/ \E c \in Conditions : CommitObservation(c)
  PROVE  IInv'
<1> USE DEF IInv
<1>1. CASE ResetForCycle
  <2>1. /\ slot' \in [epoch : Epochs, reason : Reasons, evaluated : BOOLEAN, reached : BOOLEAN,
                      goal : -MaxPlans..MaxPlans]
        /\ slot'.epoch.event = slot'.epoch.plan + slot'.epoch.compute
        /\ slot'.epoch.plan = slot.epoch.plan
        /\ ~slot'.evaluated
    <3>1. slot.epoch.compute < MaxCycles
      BY <1>1 DEF ResetForCycle, CyclesCounted
    <3> QED
      BY <1>1, <3>1, ResetCounts DEF ResetForCycle
  <2>2. TypeOK'
    BY <1>1, <2>1 DEF ResetForCycle, cycleVars, TypeOK
  <2>3. PlansCounted' /\ CyclesCounted'
    BY <1>1, <2>1 DEF ResetForCycle, PlansCounted, CyclesCounted
  <2>4. EventsCounted' /\ NotEvaluatedYet' /\ VerdictMatches'
    BY <1>1, <2>1 DEF ResetForCycle, cycleVars, EventsCounted, NotEvaluatedYet, VerdictMatches,
                      ReasonExplainsVerdict
  <2>5. GoalFollowsPlan'
    BY <1>1 DEF ResetForCycle, cycleVars, GoalFollowsPlan, Holding
  <2> QED
    BY <2>2, <2>3, <2>4, <2>5
<1>2. CASE \E why \in Reasons : FailCycle(why)
  <2> PICK why \in Reasons : FailCycle(why)
    BY <1>2
  <2>1. /\ slot \in [epoch : Epochs, reason : Reasons, evaluated : BOOLEAN, reached : BOOLEAN,
                     goal : -MaxPlans..MaxPlans]
        /\ slot' = [slot EXCEPT !.reason = why]
        /\ ~slot.evaluated
    BY DEF TypeOK, FailCycle, NotEvaluatedYet, Evaluating
  <2>2. /\ slot' \in [epoch : Epochs, reason : Reasons, evaluated : BOOLEAN, reached : BOOLEAN,
                      goal : -MaxPlans..MaxPlans]
        /\ slot'.epoch = slot.epoch /\ ~slot'.evaluated
    BY <2>1
  <2>3. TypeOK'
    BY <2>2 DEF FailCycle, cycleVars, TypeOK
  <2>4. PlansCounted' /\ CyclesCounted' /\ EventsCounted' /\ NotEvaluatedYet' /\ VerdictMatches'
    BY <2>2 DEF FailCycle, cycleVars, PlansCounted, CyclesCounted, EventsCounted, NotEvaluatedYet,
                VerdictMatches, ReasonExplainsVerdict
  <2>5. GoalFollowsPlan'
    BY DEF FailCycle, cycleVars, GoalFollowsPlan, Holding
  <2> QED
    BY <2>3, <2>4, <2>5
<1>3. CASE \E c \in Conditions : CommitObservation(c)
  <2> PICK c \in Conditions : CommitObservation(c)
    BY <1>3
  <2>1. GoalFollowsPlan'
    BY DEF CommitObservation, cycleVars, GoalFollowsPlan, Holding
  <2>2. CyclesCounted' /\ NotEvaluatedYet'
    BY DEF CommitObservation, CyclesCounted, NotEvaluatedYet, Evaluating
  <2>3. CASE OwnsSlot
    <3>1. slot' = Evaluate(epoch, c, goal)
      BY <2>3 DEF CommitObservation
    <3>2. epoch \in Epochs /\ goal \in -MaxPlans..MaxPlans
      BY DEF TypeOK
    <3>3. /\ slot'.epoch = epoch /\ slot'.reason = Reason(c) /\ slot'.reached = Reached(c)
      BY <3>1 DEF Evaluate
    <3>4. TypeOK'
      BY <3>1, <3>2, EvaluationAgrees DEF CommitObservation, cycleVars, TypeOK
    <3>5. PlansCounted' /\ EventsCounted'
      BY <2>3, <3>3 DEF OwnsSlot, CommitObservation, cycleVars, PlansCounted, EventsCounted
    <3>6. VerdictMatches'
      BY <3>2, <3>3, EvaluationAgrees DEF VerdictMatches, ReasonExplainsVerdict
    <3> QED
      BY <2>1, <2>2, <3>4, <3>5, <3>6
  <2>4. CASE ~OwnsSlot
    <3>1. slot' = slot
      BY <2>4 DEF CommitObservation
    <3>2. TypeOK'
      BY <3>1, <2>4 DEF CommitObservation, cycleVars, TypeOK
    <3>3. PlansCounted' /\ EventsCounted' /\ VerdictMatches'
      BY <3>1 DEF CommitObservation, cycleVars, PlansCounted, EventsCounted, VerdictMatches,
                  ReasonExplainsVerdict
    <3> QED
      BY <2>1, <2>2, <3>2, <3>3
  <2> QED
    BY <2>3, <2>4
<1> QED
  BY <1>1, <1>2, <1>3

\* Every step preserves the invariant.
LEMMA StepKeepsInvariant == IInv /\ [Next]_vars => IInv'
<1> SUFFICES ASSUME IInv, [Next]_vars PROVE IInv'
  OBVIOUS
<1>1. CASE SetPlan
  BY <1>1, SetPlanKeepsInvariant
<1>2. CASE \E enabled \in BOOLEAN : SetPersistentGoal(enabled)
  BY <1>2, QuietStepsKeepInvariant
<1>3. CASE Cycle
  BY <1>3, QuietStepsKeepInvariant, SlotStepsKeepInvariant DEF Cycle
<1>4. CASE IsGoalReached
  BY <1>4, QuietStepsKeepInvariant
<1>5. CASE UNCHANGED vars
  BY <1>5 DEF vars, cycleVars, IInv, TypeOK, PlansCounted, CyclesCounted, EventsCounted,
              NotEvaluatedYet, VerdictMatches, ReasonExplainsVerdict, GoalFollowsPlan
<1> QED
  BY <1>1, <1>2, <1>3, <1>4, <1>5 DEF Next

-----------------------------------------------------------------------------
(* The theorems.                                                           *)

\* The inductive invariant holds in every reachable state of setPlan(), the
\* control cycle and the readers of the slot.
THEOREM InductiveInvariant == Spec => []IInv
<1> QED
  BY InvariantHoldsInitially, StepKeepsInvariant, PTL DEF Spec

\* Every variable keeps its type; the epoch counts no more than the calls made.
THEOREM TypeCorrect == Spec => []TypeOK
<1>1. IInv => TypeOK
  BY DEF IInv
<1> QED
  BY <1>1, InductiveInvariant, PTL

\* TerminalObservation::evaluate(): the published reason never contradicts the
\* published verdict.
THEOREM ReasonAlwaysExplains == Spec => []ReasonExplainsVerdict
<1>1. IInv => ReasonExplainsVerdict
  BY DEF IInv, VerdictMatches
<1> QED
  BY <1>1, InductiveInvariant, PTL

\* goal_reached_ is never left over from an older plan, unless setPlan() ran
\* during the cycle that set it.
THEOREM ReachedGoalStaysCurrent == Spec => []ReachedGoalIsCurrent
<1>1. IInv => ReachedGoalIsCurrent
  BY DEF IInv, GoalFollowsPlan, ReachedGoalIsCurrent
<1> QED
  BY <1>1, InductiveInvariant, PTL

\* The epoch after a step, whichever of the three writers of the slot takes it.
LEMMA StepNeverGoesBack ==
  ASSUME IInv, [Next]_vars
  PROVE  /\ slot'.epoch.event >= slot.epoch.event
         /\ slot'.epoch.plan >= slot.epoch.plan
         /\ slot'.epoch.compute >= slot.epoch.compute
         /\ slot.evaluated /\ slot' # slot => slot'.epoch.event > slot.epoch.event
<1> USE DEF IInv
<1>0. /\ slot \in [epoch : Epochs, reason : Reasons, evaluated : BOOLEAN, reached : BOOLEAN,
                   goal : -MaxPlans..MaxPlans]
      /\ slot.epoch.event \in Int /\ slot.epoch.plan \in 0..MaxPlans
      /\ slot.epoch.compute \in 0..MaxCycles /\ MaxPlans \in Nat /\ MaxCycles \in Nat
      /\ epoch.event \in Int /\ epoch.plan \in Int /\ epoch.compute \in Int
  BY BoundsAssumption DEF TypeOK, Epochs
<1>1. CASE slot' = slot
  BY <1>0, <1>1
<1>2. CASE ResetForPlan
  <2>1. slot.epoch.plan < MaxPlans
    BY <1>0, <1>2 DEF ResetForPlan, PlansCounted, TypeOK
  <2>2. /\ slot'.epoch.event = slot.epoch.event + 1
        /\ slot'.epoch.plan = slot.epoch.plan + 1
        /\ slot'.epoch.compute = slot.epoch.compute
    BY <1>2, <2>1, ResetCounts DEF ResetForPlan
  <2> QED
    BY <1>0, <2>2
<1>3. CASE ResetForCycle
  <2>1. slot.epoch.compute < MaxCycles
    BY <1>3 DEF ResetForCycle, CyclesCounted
  <2>2. /\ slot'.epoch.event = slot.epoch.event + 1
        /\ slot'.epoch.plan = slot.epoch.plan
        /\ slot'.epoch.compute = slot.epoch.compute + 1
    BY <1>3, <2>1, ResetCounts DEF ResetForCycle
  <2> QED
    BY <1>0, <2>2
<1>4. CASE \E why \in Reasons : FailCycle(why)
  <2>1. slot'.epoch = slot.epoch /\ ~slot.evaluated
    BY <1>0, <1>4 DEF FailCycle, NotEvaluatedYet, Evaluating
  <2> QED
    BY <1>0, <2>1
<1>5. CASE (\E c \in Conditions : CommitObservation(c)) /\ slot' # slot
  <2> PICK c \in Conditions : CommitObservation(c)
    BY <1>5
  <2>1. OwnsSlot /\ slot' = Evaluate(epoch, c, goal) /\ ~slot.evaluated
    BY <1>5 DEF CommitObservation, NotEvaluatedYet, Evaluating
  <2>2. slot'.epoch = epoch
    BY <2>1 DEF Evaluate
  <2>3. epoch.event = slot.epoch.event
    BY <1>0, <2>1 DEF OwnsSlot, EventsCounted
  <2> QED
    BY <1>0, <2>1, <2>2, <2>3 DEF OwnsSlot
<1>6. CASE Next /\ slot' # slot
  <2>1. \/ ResetForPlan \/ ResetForCycle \/ \E why \in Reasons : FailCycle(why)
        \/ \E c \in Conditions : CommitObservation(c)
    BY <1>6 DEF Next, SetPlan, Cycle, BeginPlan, StorePlan, ClearGoalReached, SetPersistentGoal,
                BeginCycle, ReadGoal, ReadEpoch, SetGoalReached, FinishCycle, IsGoalReached
  <2> QED
    BY <1>2, <1>3, <1>4, <1>5, <1>6, <2>1
<1> QED
  BY <1>1, <1>6 DEF vars

\* resetTerminalObservation() and the comparison before the commit keep the
\* epochs of the slot in order, however setPlan() and the cycle interleave.
THEOREM EpochsStayInOrder == Spec => EpochNeverGoesBack
<1>1. IInv /\ [Next]_vars =>
        [/\ slot'.epoch.event >= slot.epoch.event
         /\ slot'.epoch.plan >= slot.epoch.plan
         /\ slot'.epoch.compute >= slot.epoch.compute
         /\ slot.evaluated /\ slot' # slot => slot'.epoch.event > slot.epoch.event]_vars
  BY StepNeverGoesBack
<1> QED
  BY <1>1, InductiveInvariant, PTL DEF Spec, EpochNeverGoesBack
=============================================================================
