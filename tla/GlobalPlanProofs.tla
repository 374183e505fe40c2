---------------------------- MODULE GlobalPlanProofs ----------------------------
(***************************************************************************)
(* Proofs about the global plan, for any route, any distances and any      *)
(* motion of the robot.                                                    *)
(***************************************************************************)
EXTENDS GlobalPlan, TLAPS, SequenceTheorems, WellFoundedInduction

-----------------------------------------------------------------------------
(* Least and greatest elements.                                            *)

\* A set of naturals has a least element.
LEMMA LeastNatural ==
  ASSUME NEW S \in SUBSET Nat, S # {}
  PROVE  \E m \in S : \A k \in S : m <= k
<1>1. PICK m \in S : \A k \in S : ~(<<k, m>> \in OpToRel(<, Nat))
  BY NatLessThanWellFounded, WFMin
<1>2. ASSUME NEW k \in S  PROVE m <= k
  <2>1. ~(k < m)
    BY <1>1 DEF OpToRel
  <2>. QED  BY <2>1
<1>. QED  BY <1>2

\* A set of naturals below a bound has a greatest element.
LEMMA GreatestNatural ==
  ASSUME NEW b \in Nat, NEW S \in SUBSET (0..b), S # {}
  PROVE  Max(S) \in S /\ \A k \in S : k <= Max(S)
<1>. DEFINE T == {b - k : k \in S}
<1>1. T \in SUBSET Nat /\ T # {}
  <2>1. \A k \in S : b - k \in Nat
    OBVIOUS
  <2>2. PICK s \in S : TRUE
    OBVIOUS
  <2>3. b - s \in T
    BY <2>2
  <2>. QED  BY <2>1, <2>3
<1>2. PICK m \in T : \A k \in T : m <= k
  BY <1>1, LeastNatural
<1>3. PICK x \in S : m = b - x
  BY <1>2
<1>4. \A k \in S : k <= x
  <2>. SUFFICES ASSUME NEW k \in S  PROVE k <= x
    OBVIOUS
  <2>1. b - k \in T
    OBVIOUS
  <2>2. b - x <= b - k
    BY <1>2, <1>3, <2>1
  <2>. QED  BY <2>2
<1>. QED  BY <1>3, <1>4 DEF Max

\* firstIntermediateRotationEnd() finds the first rotation, if there is one.
LEMMA FirstTurn ==
  ASSUME NEW p \in Seq(Poses)
  PROVE  /\ FirstTurnEnd(p) \in Nat
         /\ FirstTurnEnd(p) = 0 <=> TurnEnds(p) = {}
         /\ FirstTurnEnd(p) # 0 =>
              /\ FirstTurnEnd(p) \in TurnEnds(p)
              /\ FirstTurnEnd(p) \in 2..(Len(p) - 1)
              /\ \A i \in TurnEnds(p) : FirstTurnEnd(p) <= i
<1>1. Len(p) \in Nat /\ TurnEnds(p) \in SUBSET Nat /\ TurnEnds(p) \subseteq 2..(Len(p) - 1)
  BY LenProperties DEF TurnEnds
<1>2. CASE TurnEnds(p) = {}
  BY <1>2 DEF FirstTurnEnd
<1>3. CASE TurnEnds(p) # {}
  <2>1. \E m \in TurnEnds(p) : \A i \in TurnEnds(p) : m <= i
    BY <1>1, <1>3, LeastNatural
  <2>2. FirstTurnEnd(p) \in TurnEnds(p) /\ \A i \in TurnEnds(p) : FirstTurnEnd(p) <= i
    BY <2>1, <1>3 DEF FirstTurnEnd
  <2>. QED  BY <2>2, <1>1, <1>3
<1>. QED  BY <1>2, <1>3

-----------------------------------------------------------------------------
(* setPlan().                                                              *)

\* A selection of positions of p is a sequence of them.
LEMMA SelectionIsSequence ==
  ASSUME NEW p \in Seq(Poses), NEW keep, NEW may \in SUBSET DOMAIN p,
         NEW f \in Selections(p, keep, may)
  PROVE  \E m \in Nat : f \in [1..m -> 1..Len(p)]
<1>1. Len(p) \in Nat /\ DOMAIN p = 1..Len(p)
  BY LenProperties
<1>2. PICK m \in 0..Len(p) : f \in [1..m -> may]
  BY DEF Selections
<1>3. f \in [1..m -> 1..Len(p)] /\ m \in Nat
  BY <1>1, <1>2
<1>. QED  BY <1>3

\* Of two positions that are kept and have none between them that may be, one
\* is selected right after the other.
LEMMA NeighboursStayNeighbours ==
  ASSUME NEW p \in Seq(Poses), NEW keep, NEW may \in SUBSET DOMAIN p,
         NEW f \in Selections(p, keep, may),
         NEW a \in keep, NEW b \in keep, a < b, \A k \in may : ~(a < k /\ k < b)
  PROVE  \E m \in Nat : /\ f \in [1..m -> 1..Len(p)]
                        /\ \E j \in 2..m : f[j - 1] = a /\ f[j] = b
<1>1. Len(p) \in Nat /\ DOMAIN p = 1..Len(p)
  BY LenProperties
<1>2. PICK m \in 0..Len(p) : f \in [1..m -> may]
  BY DEF Selections
<1>3. DOMAIN f = 1..m /\ m \in Nat /\ f \in [1..m -> 1..Len(p)]
  BY <1>1, <1>2
<1>4. /\ \A i, j \in 1..m : i < j => f[i] < f[j]
      /\ \E i \in 1..m : a = f[i]
      /\ \E i \in 1..m : b = f[i]
  BY <1>3 DEF Selections
<1>5. PICK u \in 1..m, v \in 1..m : a = f[u] /\ b = f[v]
  BY <1>4
<1>6. \A i \in 1..m : f[i] \in Int /\ f[i] \in may
  BY <1>2, <1>3
<1>7. u < v
  <2>1. CASE v < u
    <3>1. f[v] < f[u]
      BY <1>4, <2>1
    <3>. QED  BY <1>5, <1>6, <3>1
  <2>2. u # v
    BY <1>5, <1>6
  <2>. QED  BY <2>1, <2>2
<1>8. v = u + 1
  <2>1. SUFFICES ASSUME u + 1 # v  PROVE FALSE
    OBVIOUS
  <2>2. u + 1 \in 1..m /\ u < u + 1 /\ u + 1 < v
    BY <1>7, <2>1
  <2>3. f[u] < f[u + 1] /\ f[u + 1] < f[v] /\ f[u + 1] \in may
    BY <1>4, <1>6, <2>2
  <2>. QED  BY <1>5, <2>3
<1>9. v \in 2..m /\ v - 1 = u
  BY <1>7, <1>8
<1>. QED  BY <1>3, <1>5, <1>9

\* Dropping equal consecutive samples makes a sequence of poses.
LEMMA DistinctPlan ==
  ASSUME NEW given \in Seq(Poses), NEW p \in Distinct(given)
  PROVE  p \in Seq(Poses)
<1>. DEFINE lasts == {i \in DOMAIN given : i = Len(given) \/ given[i] # given[i + 1]}
<1>1. PICK f \in Selections(given, lasts, lasts) : p = [i \in DOMAIN f |-> given[f[i]]]
  BY DEF Distinct
<1>2. PICK m \in Nat : f \in [1..m -> 1..Len(given)]
  BY <1>1, SelectionIsSequence
<1>3. \A i \in 1..m : given[f[i]] \in Poses
  BY <1>2
<1>4. p \in [1..m -> Poses]
  BY <1>1, <1>2, <1>3
<1>. QED  BY <1>2, <1>4, SeqDef

\* So does dropping close ones.
LEMMA SimplifiedPlan ==
  ASSUME NEW p \in Seq(Poses), NEW r \in Simplified(p)
  PROVE  r \in Seq(Poses)
<1>1. CASE ~(SurgeYaw /\ Len(p) > 2)
  BY <1>1 DEF Simplified
<1>2. CASE SurgeYaw /\ Len(p) > 2
  <2>0. PICK f \in Selections(p, Kept(p), DOMAIN p) :
          \E tangent \in [DOMAIN f -> Yaws] : r = Reduced(p, f, tangent)
    BY <1>2 DEF Simplified
  <2>1. PICK tangent \in [DOMAIN f -> Yaws] : r = Reduced(p, f, tangent)
    BY <2>0
  <2>2. PICK m \in Nat : f \in [1..m -> 1..Len(p)]
    BY <2>0, SelectionIsSequence
  <2>3. \A i \in 1..m : p[f[i]] \in Poses /\ tangent[i] \in Yaws
    BY <2>1, <2>2
  <2>4. \A i \in 1..m : [at |-> p[f[i]].at, yaw |-> tangent[i]] \in Poses
    BY <2>3 DEF Poses
  <2>5. r \in [1..m -> Poses]
    BY <2>1, <2>2, <2>3, <2>4 DEF Reduced
  <2>. QED  BY <2>2, <2>5, SeqDef
<1>. QED  BY <1>1, <1>2

\* setPlan() stores a sequence of poses.
LEMMA StoredPlan ==
  ASSUME NEW given \in Plans, NEW r \in StoredPlans[given]
  PROVE  r \in Seq(Poses)
<1>1. given \in Seq(Poses)
  BY ConstantsAssumption DEF ConstantsAssumption
<1>2. PICK p \in Distinct(given) : r \in Simplified(p)
  BY DEF StoredPlans
<1>. QED  BY <1>1, <1>2, DistinctPlan, SimplifiedPlan

-----------------------------------------------------------------------------
(* The inductive invariant.                                                *)

\* The plan is what is left of the stored one after erasing from its front.
SuffixOfStored ==
  /\ Len(global_plan) <= Len(stored)
  /\ stored # <<>> => global_plan # <<>>
  /\ \A i \in 1..Len(global_plan) : global_plan[i] = stored[ErasedSoFar + i]

GuardedInScope == guarded => scoped

\* The local plan is a piece of the plan that ends at goal_idx, no later than
\* a pending rotation.
LocalPlanOnPlan ==
  pc \in {"located", "planning"} =>
    /\ Len(local_plan) <= goal_idx + 1
    /\ Last(local_plan) = global_plan[goal_idx + 1]
    /\ Phase # 0 => goal_idx < Phase
    /\ endpoint = PhaseEndpointSelected(goal_idx)

IInv ==
  /\ TypeOK
  /\ SuffixOfStored
  /\ GuardedInScope
  /\ TurnsAreTaken
  /\ ArrivalAfterTurns
  /\ LocalPlanOnPlan

\* Before the first plan there is nothing to prune or to turn.
LEMMA InitIInv == Init => IInv
<1>. SUFFICES ASSUME Init PROVE IInv
  OBVIOUS
<1>1. Len(<<>>) = 0 /\ <<>> \in Seq(Poses)
  BY EmptySeq
<1>2. TypeOK
  <2>1. 0 \in Nat /\ 0 \in 0..MaxInfeasible /\ 0 \in 0..MaxPlans /\ 0 \in 0..MaxDrifts
    BY ConstantsAssumption DEF ConstantsAssumption
  <2>. QED  BY <1>1, <2>1, Zenon DEF Init, TypeOK
<1>3. SuffixOfStored /\ GuardedInScope /\ TurnsAreTaken /\ ArrivalAfterTurns /\ LocalPlanOnPlan
  BY <1>1 DEF Init, SuffixOfStored, GuardedInScope, TurnsAreTaken, ArrivalAfterTurns, LocalPlanOnPlan
<1>. QED  BY <1>2, <1>3 DEF IInv

\* Rotations of the plan are those of the stored plan that are still in it.
LEMMA TurnsOfSuffix ==
  ASSUME TypeOK, SuffixOfStored
  PROVE  /\ ErasedSoFar \in Nat
         /\ \A i \in TurnEnds(global_plan) : ErasedSoFar + i \in TurnEnds(stored)
         /\ \A i \in TurnEnds(stored) :
              i >= ErasedSoFar + 2 => i - ErasedSoFar \in TurnEnds(global_plan)
<1>. DEFINE k == ErasedSoFar
<1>1. Len(global_plan) \in Nat /\ Len(stored) \in Nat /\ k \in Nat
      /\ k + Len(global_plan) = Len(stored)
  BY LenProperties DEF TypeOK, SuffixOfStored, ErasedSoFar
<1>2. \A i \in 2..Len(global_plan) : TurnsAt(global_plan, i) <=> TurnsAt(stored, k + i)
  <2>. SUFFICES ASSUME NEW i \in 2..Len(global_plan)
                PROVE  TurnsAt(global_plan, i) <=> TurnsAt(stored, k + i)
    OBVIOUS
  <2>0. i \in 1..Len(global_plan) /\ i - 1 \in 1..Len(global_plan)
    BY <1>1
  <2>1. global_plan[i] = stored[k + i] /\ global_plan[i - 1] = stored[k + (i - 1)]
    BY <2>0, Zenon DEF SuffixOfStored
  <2>2. k + (i - 1) = (k + i) - 1
    BY <1>1
  <2>. QED  BY <2>1, <2>2 DEF TurnsAt
<1>3. \A i \in TurnEnds(global_plan) : k + i \in TurnEnds(stored)
  BY <1>1, <1>2 DEF TurnEnds
<1>4. ASSUME NEW i \in TurnEnds(stored), i >= k + 2
      PROVE  i - k \in TurnEnds(global_plan)
  <2>1. i - k \in 2..(Len(global_plan) - 1) /\ k + (i - k) = i
    BY <1>1, <1>4 DEF TurnEnds
  <2>. QED  BY <2>1, <1>1, <1>2, <1>4 DEF TurnEnds
<1>. QED  BY <1>1, <1>3, <1>4

\* The pending phase is the first rotation left, if a scope is in force.
LEMMA PendingPhase ==
  ASSUME TypeOK
  PROVE  /\ Len(global_plan) \in Nat
         /\ Phase \in Nat
         /\ scoped /\ Phase = 0 => TurnEnds(global_plan) = {}
         /\ Phase # 0 => /\ scoped
                         /\ Phase \in TurnEnds(global_plan)
                         /\ Phase \in 2..(Len(global_plan) - 1)
                         /\ \A i \in TurnEnds(global_plan) : Phase <= i
<1>1. global_plan \in Seq(Poses) /\ scoped \in BOOLEAN /\ Len(global_plan) \in Nat
  BY LenProperties DEF TypeOK
<1>. QED  BY <1>1, FirstTurn DEF Phase

\* Pruning leaves the last pose, and a pending rotation with its begin.
LEMMA ErasedInRange ==
  ASSUME TypeOK, global_plan # <<>>
  PROVE  /\ Erased(global_plan) \in 0..(Len(global_plan) - 1)
         /\ Phase # 0 /\ Completed(global_plan[Phase]) => Erased(global_plan) = Phase - 1
         /\ Phase # 0 /\ ~Completed(global_plan[Phase]) => Erased(global_plan) <= Phase - 2
<1>1. Len(global_plan) \in Nat \ {0} /\ DOMAIN global_plan = 1..Len(global_plan)
  BY LenProperties, EmptySeq DEF TypeOK
<1>2. Passed(global_plan) \in 0..(Len(global_plan) - 1)
  <2>. DEFINE near == InPruneDistance(global_plan)
  <2>1. CASE near = {}
    BY <1>1, <2>1 DEF Passed
  <2>2. CASE near # {}
    <3>1. near \in SUBSET Nat /\ near \subseteq 1..Len(global_plan)
      BY <1>1 DEF InPruneDistance
    <3>2. \E i \in near : \A j \in near : i <= j
      BY <2>2, <3>1, LeastNatural
    <3>3. Passed(global_plan) + 1 \in near
      <4>. DEFINE first == CHOOSE i \in near : \A j \in near : i <= j
      <4>1. first \in near
        BY <3>2
      <4>2. Passed(global_plan) = first - 1
        BY <2>2 DEF Passed
      <4>. QED  BY <4>1, <4>2, <3>1
    <3>4. Passed(global_plan) \in Int
      <4>. DEFINE first == CHOOSE i \in near : \A j \in near : i <= j
      <4>1. first \in near
        BY <3>2
      <4>2. Passed(global_plan) = first - 1
        BY <2>2 DEF Passed
      <4>. QED  BY <4>1, <4>2, <3>1
    <3>. QED  BY <1>1, <3>1, <3>3, <3>4
  <2>. QED  BY <2>1, <2>2
<1>. QED  BY <1>1, <1>2, PendingPhase DEF Erased, Lower

-----------------------------------------------------------------------------
(* The local plan.                                                         *)

\* The search for the closest pose finds one.
LEMMA ClosestPose ==
  ASSUME TypeOK, global_plan # <<>>
  PROVE  Closest \in 1..Len(global_plan)
<1>. DEFINE all == IF ReachedPoses = {} THEN DOMAIN global_plan
                   ELSE SearchedFrom(Min(ReachedPoses))
<1>1. Len(global_plan) \in Nat \ {0} /\ DOMAIN global_plan = 1..Len(global_plan)
  BY LenProperties, EmptySeq DEF TypeOK
<1>2. all \subseteq 1..Len(global_plan)
  BY <1>1 DEF SearchedFrom
<1>3. all # {}
  <2>1. CASE ReachedPoses = {}
    BY <2>1, <1>1
  <2>2. CASE ReachedPoses # {}
    <3>1. ReachedPoses \in SUBSET Nat /\ ReachedPoses \subseteq 1..Len(global_plan)
      BY <1>1 DEF ReachedPoses
    <3>2. \E m \in ReachedPoses : \A k \in ReachedPoses : m <= k
      BY <2>2, <3>1, LeastNatural
    <3>3. Min(ReachedPoses) \in ReachedPoses
      BY <3>2 DEF Min
    <3>4. Min(ReachedPoses) \in SearchedFrom(Min(ReachedPoses))
      <4>. DEFINE m == Min(ReachedPoses)
      <4>0. m \in 1..Len(global_plan)
        BY <3>1, <3>3
      <4>. HIDE DEF m
      <4>1. m \in DOMAIN global_plan /\ m >= m /\ (m + 1)..m = {}
        BY <1>1, <4>0
      <4>2. m \in SearchedFrom(m)
        BY <4>1 DEF SearchedFrom
      <4>. QED  BY <4>2 DEF m
    <3>. QED  BY <2>2, <3>4
  <2>. QED  BY <2>1, <2>2
<1>4. \A i \in all : DistanceTo(i) \in Nat
  <2>. SUFFICES ASSUME NEW i \in all  PROVE DistanceTo(i) \in Nat
    OBVIOUS
  <2>1. global_plan[i] \in Poses /\ robot \in Poses
    BY <1>2, <1>1 DEF TypeOK
  <2>2. <<robot.at, global_plan[i].at>> \in Points \X Points
    BY <2>1 DEF Poses
  <2>. QED  BY <2>2, ConstantsAssumption DEF ConstantsAssumption, DistanceTo
<1>. HIDE DEF all
<1>5. PICK d \in {DistanceTo(i) : i \in all} : \A x \in {DistanceTo(i) : i \in all} : d <= x
  <2>. DEFINE D == {DistanceTo(i) : i \in all}
  <2>1. D \in SUBSET Nat /\ D # {}
    BY <1>3, <1>4
  <2>. HIDE DEF D
  <2>2. \E m \in D : \A x \in D : m <= x
    BY <2>1, LeastNatural
  <2>. QED  BY <2>2 DEF D
<1>6. PICK i \in {j \in all : DistanceTo(j) = d} : \A j \in {j \in all : DistanceTo(j) = d} : i <= j
  <2>. DEFINE S == {j \in all : DistanceTo(j) = d}
  <2>1. S \in SUBSET Nat /\ S # {}
    BY <1>2, <1>5
  <2>. HIDE DEF S
  <2>2. \E m \in S : \A x \in S : m <= x
    BY <2>1, LeastNatural
  <2>. QED  BY <2>2 DEF S
<1>7. i \in all /\ \A j \in all : DistanceTo(i) <= DistanceTo(j)
  BY <1>5, <1>6
<1>8. \A j \in all : j < i => DistanceTo(i) < DistanceTo(j)
  <2>. SUFFICES ASSUME NEW j \in all, j < i  PROVE DistanceTo(i) < DistanceTo(j)
    OBVIOUS
  <2>1. DistanceTo(j) # d
    BY <1>2, <1>6
  <2>. QED  BY <2>1, <1>4, <1>6, <1>7
<1>9. Closest \in all
  <2>1. \E x \in all : /\ \A j \in all : DistanceTo(x) <= DistanceTo(j)
                       /\ \A j \in all : j < x => DistanceTo(x) < DistanceTo(j)
    BY <1>7, <1>8
  <2>2. Closest = CHOOSE x \in all : /\ \A j \in all : DistanceTo(x) <= DistanceTo(j)
                                     /\ \A j \in all : j < x => DistanceTo(x) < DistanceTo(j)
    BY DEF Closest, all
  <2>. QED  BY <2>1, <2>2
<1>. QED  BY <1>2, <1>9

\* The local plan starts on the plan and before its end.
LEMMA StartBeforeEnd ==
  ASSUME TypeOK, global_plan # <<>>
  PROVE  /\ Start \in 1..Len(global_plan) /\ HorizonEnd \in 1..Len(global_plan)
         /\ Start <= HorizonEnd
         /\ Phase # 0 => HorizonEnd = Phase
<1>1. Len(global_plan) \in Nat \ {0}
  BY LenProperties, EmptySeq DEF TypeOK
<1>2. Closest \in 1..Len(global_plan)
  BY ClosestPose
<1>. QED  BY <1>1, <1>2, PendingPhase DEF Start, HorizonEnd, Lower

\* The poses taken end between the start and the end of the horizon.
LEMMA TransformedInRange ==
  ASSUME TypeOK, global_plan # <<>>, Transformed # {}
  PROVE  Max(Transformed) \in Start..HorizonEnd
<1>1. Transformed \subseteq Start..HorizonEnd
  BY DEF Transformed
<1>2. Start \in Nat /\ HorizonEnd \in Nat
  BY StartBeforeEnd
<1>3. Transformed \in SUBSET (0..HorizonEnd)
  BY <1>1, <1>2
<1>4. Max(Transformed) \in Transformed
  BY <1>2, <1>3, GreatestNatural
<1>. QED  BY <1>1, <1>4

-----------------------------------------------------------------------------
(* The steps.                                                              *)

\* A cycle that ends leaves no local plan.
LEMMA EndOfCycle ==
  ASSUME IInv, EndCycle, pc' \in {"idle", "arrived"},
         UNCHANGED <<global_plan, scoped, stored, taken, guarded, plans, drifts>>,
         robot' \in Poses, infeasible' \in 0..MaxInfeasible, recent' \in BOOLEAN,
         ArrivalAfterTurns'
  PROVE  IInv'
<1>1. <<>> \in Seq(Poses) /\ 0 \in Nat
  BY EmptySeq
<1>2. TypeOK'
  BY <1>1, Zenon DEF IInv, TypeOK, EndCycle
<1>3. SuffixOfStored' /\ GuardedInScope'
  BY DEF IInv, SuffixOfStored, GuardedInScope, ErasedSoFar
<1>4. TurnsAreTaken'
  BY DEF IInv, TurnsAreTaken, ErasedSoFar, TurnEnds, TurnsAt
<1>5. LocalPlanOnPlan'
  BY DEF LocalPlanOnPlan
<1>. QED  BY <1>2, <1>3, <1>4, <1>5 DEF IInv

LEMMA SetPlanStep ==
  ASSUME IInv, NEW given \in Plans, SetPlan(given)
  PROVE  IInv'
<1>1. global_plan' \in Seq(Poses) /\ stored' = global_plan'
  BY StoredPlan DEF SetPlan
<1>2. Len(global_plan') \in Nat /\ ErasedSoFar' = 0
  BY <1>1, LenProperties DEF ErasedSoFar
<1>3. plans' \in 0..MaxPlans
  BY ConstantsAssumption DEF IInv, TypeOK, SetPlan, ConstantsAssumption
<1>4. TypeOK'
  BY <1>1, <1>3, Zenon DEF IInv, TypeOK, SetPlan, localVars, failureVars
<1>5. SuffixOfStored'
  <2>1. \A i \in 1..Len(global_plan') : 0 + i = i
    BY <1>2
  <2>. QED  BY <1>1, <1>2, <2>1 DEF SuffixOfStored
<1>6. GuardedInScope'
  BY DEF GuardedInScope, SetPlan
<1>7. TurnsAreTaken'
  BY <1>2 DEF TurnsAreTaken, SetPlan, TurnEnds
<1>8. ArrivalAfterTurns' /\ LocalPlanOnPlan'
  BY DEF ArrivalAfterTurns, LocalPlanOnPlan, SetPlan
<1>. QED  BY <1>4, <1>5, <1>6, <1>7, <1>8 DEF IInv

LEMMA SetScopeStep ==
  ASSUME IInv, NEW s \in BOOLEAN, SetScope(s)
  PROVE  IInv'
<1>1. scoped' \in BOOLEAN /\ guarded' \in BOOLEAN
  BY ConstantsAssumption, Zenon DEF IInv, TypeOK, SetScope, ConstantsAssumption
<1>2. TypeOK'
  BY <1>1, Zenon DEF IInv, TypeOK, SetScope, localVars, failureVars
<1>3. SuffixOfStored' /\ GuardedInScope'
  BY DEF IInv, SuffixOfStored, GuardedInScope, ErasedSoFar, SetScope
<1>4. guarded' => guarded
  BY DEF SetScope
<1>5. TurnsAreTaken' /\ ArrivalAfterTurns'
  BY <1>4 DEF IInv, TurnsAreTaken, ArrivalAfterTurns, ErasedSoFar, TurnEnds, TurnsAt, SetScope
<1>6. LocalPlanOnPlan'
  BY DEF LocalPlanOnPlan, SetScope
<1>. QED  BY <1>2, <1>3, <1>5, <1>6 DEF IInv

LEMMA PruneStep ==
  ASSUME IInv, NEW transform \in BOOLEAN, PruneGlobalPlan(transform)
  PROVE  IInv'
<1>. DEFINE e == Erased(global_plan)  k == ErasedSoFar
<1>0. TypeOK /\ SuffixOfStored /\ TurnsAreTaken
  BY DEF IInv
<1>1. GuardedInScope' /\ ArrivalAfterTurns' /\ LocalPlanOnPlan'
  BY DEF IInv, GuardedInScope, ArrivalAfterTurns, LocalPlanOnPlan, PruneGlobalPlan
<1>2. CASE ~(transform /\ global_plan # <<>>)
  <2>1. UNCHANGED <<global_plan, taken, stored, guarded>>
    BY <1>2 DEF PruneGlobalPlan
  <2>2. TypeOK'
    BY <1>0, <2>1, Zenon DEF TypeOK, PruneGlobalPlan, localVars, failureVars
  <2>3. SuffixOfStored' /\ TurnsAreTaken'
    BY <1>0, <2>1 DEF SuffixOfStored, TurnsAreTaken, ErasedSoFar, TurnEnds, TurnsAt
  <2>. QED  BY <1>1, <2>2, <2>3 DEF IInv
<1>3. CASE transform /\ global_plan # <<>>
  <2>1. /\ Len(global_plan) \in Nat \ {0} /\ Len(stored) \in Nat
        /\ \A i \in 1..Len(global_plan) : global_plan[i] \in Poses
    BY <1>0, <1>3, LenProperties, EmptySeq, ElementOfSeq DEF TypeOK
  <2>2. e \in 0..(Len(global_plan) - 1)
    BY <1>0, <1>3, ErasedInRange
  <2>3. k \in Nat /\ k = Len(stored) - Len(global_plan)
    BY <1>0, TurnsOfSuffix DEF ErasedSoFar
  <2>. HIDE DEF e, k
  <2>4. global_plan' = SubSeq(global_plan, e + 1, Len(global_plan)) /\ stored' = stored
    BY <1>3 DEF PruneGlobalPlan, e
  <2>5. /\ global_plan' \in Seq(Poses)
        /\ Len(global_plan') = Len(global_plan) - e
        /\ \A i \in 1..(Len(global_plan) - e) : global_plan'[i] = global_plan[e + i]
    <3>1. \A i \in (e + 1)..Len(global_plan) : global_plan[i] \in Poses
      BY <2>1, <2>2
    <3>2. e + 1 \in Int /\ Len(global_plan) \in Int
      BY <2>1, <2>2
    <3>3. /\ global_plan' \in Seq(Poses)
          /\ Len(global_plan') = IF e + 1 <= Len(global_plan) THEN Len(global_plan) - (e + 1) + 1 ELSE 0
          /\ \A i \in 1..(Len(global_plan) - (e + 1) + 1) : global_plan'[i] = global_plan[(e + 1) + i - 1]
      BY <2>4, <3>1, <3>2, SubSeqProperties
    <3>. QED  BY <2>1, <2>2, <3>3
  <2>6. ErasedSoFar' = k + e
    BY <2>1, <2>2, <2>3, <2>4, <2>5 DEF ErasedSoFar
  <2>7. SuffixOfStored'
    <3>1. Len(global_plan') <= Len(stored') /\ Len(global_plan') # 0
      <4>1. Len(global_plan') <= Len(stored) /\ Len(global_plan') # 0
        BY <2>1, <2>2, <2>3, <2>5
      <4>. QED  BY <2>4, <4>1
    <3>3. global_plan' # <<>>
      BY <3>1, EmptySeq
    <3>2. ASSUME NEW i \in 1..Len(global_plan')
          PROVE  global_plan'[i] = stored'[ErasedSoFar' + i]
      <4>1. e + i \in 1..Len(global_plan) /\ k + (e + i) = (k + e) + i
        BY <2>1, <2>2, <2>3, <2>5
      <4>2. global_plan[e + i] = stored[k + (e + i)]
        BY <1>0, <4>1 DEF SuffixOfStored, k
      <4>. QED  BY <2>4, <2>5, <2>6, <4>1, <4>2
    <3>. QED  BY <3>1, <3>2, <3>3 DEF SuffixOfStored
  <2>8. /\ taken \subseteq taken' /\ taken' \subseteq Nat
        /\ Phase # 0 /\ Completed(global_plan[Phase]) => taken' = taken \cup {k + Phase}
        /\ ~(Phase # 0 /\ Completed(global_plan[Phase])) => taken' = taken
    <3>1. taken' = IF Phase # 0 /\ Completed(global_plan[Phase])
                   THEN taken \cup {k + Phase} ELSE taken
      BY <1>3 DEF PruneGlobalPlan, k
    <3>2. k + Phase \in Nat /\ taken \subseteq Nat
      <4>1. Phase \in Nat /\ taken \subseteq Nat
        BY <1>0, PendingPhase DEF TypeOK
      <4>. QED  BY <2>3, <4>1
    <3>. QED  BY <3>1, <3>2, Zenon
  <2>9. TypeOK'
    BY <1>0, <2>4, <2>5, <2>8, Zenon DEF TypeOK, PruneGlobalPlan, localVars, failureVars
  <2>10. TurnsAreTaken'
    <3>. SUFFICES ASSUME guarded
                  PROVE  \A i \in TurnEnds(stored) :
                           /\ i <= k + e + 1 => i \in taken'
                           /\ i \in taken' => \A j \in TurnEnds(stored) : j < i => j \in taken'
      BY <2>4, <2>6 DEF TurnsAreTaken, PruneGlobalPlan
    <3>1. scoped
      BY DEF IInv, GuardedInScope
    <3>2. TurnEnds(stored) \subseteq Nat
      BY <2>1 DEF TurnEnds
    <3>3. \A i \in TurnEnds(stored) : i <= k + 1 => i \in taken
      BY <1>0 DEF TurnsAreTaken, k
    <3>4. \A i \in TurnEnds(stored) :
            i \in taken => \A j \in TurnEnds(stored) : j < i => j \in taken
      BY <1>0 DEF TurnsAreTaken
    <3>5. \A i \in TurnEnds(stored) : i >= k + 2 => i - k \in TurnEnds(global_plan)
      BY <1>0, TurnsOfSuffix DEF k
    <3>6. CASE Phase = 0
      <4>1. \A i \in TurnEnds(stored) : i <= k + 1
        BY <1>0, <2>3, <3>1, <3>2, <3>5, <3>6, PendingPhase
      <4>. QED  BY <2>8, <3>3, <3>4, <3>6, <4>1
    <3>7. CASE Phase # 0
      <4>1. Phase \in Nat /\ \A i \in TurnEnds(stored) : i >= k + 2 => Phase <= i - k
        BY <1>0, <3>5, <3>7, PendingPhase
      <4>2. \A i \in TurnEnds(stored) : i < k + Phase => i \in taken
        BY <2>3, <3>2, <3>3, <4>1
      <4>3. CASE Completed(global_plan[Phase])
        <5>1. e = Phase - 1 /\ taken' = taken \cup {k + Phase}
          BY <1>0, <1>3, <2>8, <3>7, <4>3, ErasedInRange DEF e
        <5>2. \A i \in TurnEnds(stored) : i <= k + e + 1 => i \in taken'
          BY <2>3, <3>2, <4>1, <4>2, <5>1
        <5>3. \A i \in TurnEnds(stored) :
                i \in taken' => \A j \in TurnEnds(stored) : j < i => j \in taken'
          BY <3>4, <4>2, <5>1
        <5>. QED  BY <5>2, <5>3
      <4>4. CASE ~Completed(global_plan[Phase])
        <5>1. e <= Phase - 2 /\ taken' = taken
          BY <1>0, <1>3, <2>8, <3>7, <4>4, ErasedInRange DEF e
        <5>2. \A i \in TurnEnds(stored) : i <= k + e + 1 => i \in taken'
          BY <2>2, <2>3, <3>2, <4>1, <4>2, <5>1
        <5>. QED  BY <3>4, <5>1, <5>2
      <4>. QED  BY <4>3, <4>4
    <3>. QED  BY <3>6, <3>7
  <2>. QED  BY <1>1, <2>7, <2>9, <2>10 DEF IInv
<1>. QED  BY <1>2, <1>3

\* The local plan ends on the plan, not beyond a pending rotation.
LEMMA TransformStep ==
  ASSUME IInv, TransformGlobalPlan
  PROVE  IInv'
<1>0. TypeOK /\ global_plan # <<>> /\ global_plan \in Seq(Poses)
  BY DEF IInv, TypeOK, TransformGlobalPlan
<1>. DEFINE last == GoalIdx + 1
<1>1. Len(global_plan) \in Nat \ {0} /\ \A i \in 1..Len(global_plan) : global_plan[i] \in Poses
  BY <1>0, LenProperties, EmptySeq, ElementOfSeq
<1>2. /\ Start \in 1..Len(global_plan) /\ HorizonEnd \in 1..Len(global_plan)
      /\ Start <= HorizonEnd
      /\ Phase # 0 => HorizonEnd = Phase
  BY <1>0, StartBeforeEnd
<1>3. GoalIdx \in Nat /\ last \in Start..HorizonEnd
      /\ (Transformed = {} => last = HorizonEnd) /\ (Transformed # {} => last = Max(Transformed))
  <2>1. CASE Transformed = {}
    BY <1>1, <1>2, <2>1 DEF GoalIdx
  <2>2. CASE Transformed # {}
    <3>1. Max(Transformed) \in Start..HorizonEnd
      BY <1>0, <2>2, TransformedInRange
    <3>2. GoalIdx = Max(Transformed) - 1
      BY <2>2 DEF GoalIdx
    <3>. HIDE DEF GoalIdx
    <3>. QED  BY <1>1, <1>2, <2>2, <3>1, <3>2
  <2>. QED  BY <2>1, <2>2
<1>4. last \in 1..Len(global_plan)
  BY <1>1, <1>2, <1>3
<1>5. /\ local_plan' \in Seq(Poses) /\ Len(local_plan') \in Nat \ {0}
      /\ Len(local_plan') <= last
      /\ local_plan'[Len(local_plan')] = global_plan[last]
  <2>1. CASE Transformed = {}
    <3>1. local_plan' = <<global_plan[last]>>
      BY <1>3, <2>1 DEF TransformGlobalPlan
    <3>. QED  BY <1>1, <1>4, <3>1
  <2>2. CASE Transformed # {}
    <3>1. local_plan' = SubSeq(global_plan, Start, last)
      BY <1>3, <2>2 DEF TransformGlobalPlan
    <3>. HIDE DEF last
    <3>2. \A i \in Start..last : global_plan[i] \in Poses
      BY <1>1, <1>2, <1>4
    <3>3. Start \in Int /\ last \in Int /\ Start <= last
      BY <1>2, <1>3, <1>4
    <3>4. /\ local_plan' \in Seq(Poses)
          /\ Len(local_plan') = last - Start + 1
          /\ \A i \in 1..(last - Start + 1) : local_plan'[i] = global_plan[Start + i - 1]
      BY <3>1, <3>2, <3>3, SubSeqProperties
    <3>5. last - Start + 1 \in 1..(last - Start + 1) /\ Start + (last - Start + 1) - 1 = last
      BY <3>3
    <3>. QED  BY <1>2, <3>3, <3>4, <3>5
  <2>. QED  BY <2>1, <2>2
<1>6. UNCHANGED <<global_plan, scoped, robot, infeasible, recent, stored, taken, guarded, plans, drifts>>
  BY DEF TransformGlobalPlan, failureVars, historyVars
<1>7. goal_idx' = GoalIdx /\ pc' = "located" /\ endpoint' = PhaseEndpointSelected(goal_idx')
  BY DEF TransformGlobalPlan
<1>8. local_plan' # <<>>
  BY <1>5, EmptySeq
<1>9. goal_idx' \in Nat /\ goal_idx' < Len(global_plan)
  <2>. HIDE DEF GoalIdx
  <2>. QED  BY <1>1, <1>3, <1>4, <1>7
<1>10. TypeOK'
  <2>1. endpoint' \in BOOLEAN
    BY <1>7 DEF PhaseEndpointSelected
  <2>. QED  BY <1>0, <1>5, <1>6, <1>7, <1>8, <1>9, <2>1, Zenon DEF TypeOK
<1>11. SuffixOfStored' /\ GuardedInScope' /\ TurnsAreTaken' /\ ArrivalAfterTurns'
  BY <1>6, <1>7 DEF IInv, SuffixOfStored, GuardedInScope, TurnsAreTaken, ArrivalAfterTurns,
                    ErasedSoFar, TurnEnds, TurnsAt
<1>12. LocalPlanOnPlan'
  <2>1. Phase' = Phase
    BY <1>6 DEF Phase
  <2>2. endpoint' = PhaseEndpointSelected(goal_idx)'
    BY <1>7, <2>1 DEF PhaseEndpointSelected
  <2>3. Last(local_plan') = global_plan'[goal_idx' + 1]
    BY <1>5, <1>6, <1>7 DEF Last
  <2>4. Len(local_plan') <= goal_idx' + 1
    BY <1>5, <1>7
  <2>5. Phase # 0 => goal_idx' < Phase
    <3>. HIDE DEF GoalIdx
    <3>. QED  BY <1>2, <1>3, <1>7
  <2>. QED  BY <2>1, <2>2, <2>3, <2>4, <2>5, Zenon DEF LocalPlanOnPlan
<1>. QED  BY <1>10, <1>11, <1>12 DEF IInv

\* The guard of the reduced horizon compares an index into the plan with the
\* length of a piece of it that ends there: it never holds.
LEMMA NothingToShrink ==
  ASSUME IInv, pc \in {"located", "planning"}
  PROVE  ~ShrinksHorizon
<1>1. Len(local_plan) <= goal_idx + 1 /\ goal_idx \in Nat /\ local_plan \in Seq(Poses)
  BY DEF IInv, TypeOK, LocalPlanOnPlan
<1>2. Len(local_plan) \in Nat
  BY <1>1, LenProperties
<1>3. ~(goal_idx < Len(local_plan) - 1)
  BY <1>1, <1>2
<1>. QED  BY <1>3 DEF ShrinksHorizon

\* So configureBackupModes() leaves the local plan alone.
LEMMA ConfigureBackupModesStep ==
  ASSUME IInv, ConfigureBackupModes
  PROVE  IInv'
<1>1. ~ShrinksHorizon
  BY NothingToShrink DEF ConfigureBackupModes
<1>2. UNCHANGED <<local_plan, goal_idx>>
  BY <1>1 DEF ConfigureBackupModes
<1>3. /\ UNCHANGED <<global_plan, scoped, robot, endpoint, infeasible, recent, stored, taken, guarded,
                     plans, drifts>>
      /\ pc = "located" /\ pc' = "planning"
  BY DEF ConfigureBackupModes, failureVars, historyVars
<1>4. TypeOK'
  BY <1>2, <1>3, Zenon DEF IInv, TypeOK
<1>5. SuffixOfStored' /\ GuardedInScope' /\ TurnsAreTaken' /\ ArrivalAfterTurns'
  BY <1>3 DEF IInv, SuffixOfStored, GuardedInScope, TurnsAreTaken, ArrivalAfterTurns,
              ErasedSoFar, TurnEnds, TurnsAt
<1>6. LocalPlanOnPlan'
  BY <1>2, <1>3 DEF IInv, LocalPlanOnPlan, PhaseEndpointSelected, Phase
<1>. QED  BY <1>4, <1>5, <1>6 DEF IInv

\* In a scope no rotation is left at the goal, so all of them are taken.
LEMMA ArriveStep ==
  ASSUME IInv, Arrive
  PROVE  IInv'
<1>1. UNCHANGED <<global_plan, scoped, robot, infeasible, recent, stored, taken, guarded, plans, drifts>>
  BY DEF Arrive, failureVars, historyVars
<1>2. ArrivalAfterTurns'
  <2>. SUFFICES ASSUME guarded  PROVE TurnEnds(stored) \subseteq taken
    BY <1>1 DEF ArrivalAfterTurns
  <2>1. TypeOK /\ SuffixOfStored /\ scoped /\ Phase = 0
    BY DEF IInv, GuardedInScope, Arrive, ArrivalConditions
  <2>2. TurnEnds(global_plan) = {}
    BY <2>1, PendingPhase
  <2>3. ErasedSoFar \in Nat /\ TurnEnds(stored) \subseteq Nat
    <3>1. Len(stored) \in Nat
      BY <2>1, LenProperties DEF TypeOK
    <3>. QED  BY <2>1, <3>1, TurnsOfSuffix DEF TurnEnds
  <2>4. ASSUME NEW i \in TurnEnds(stored)  PROVE i \in taken
    <3>1. ~(i >= ErasedSoFar + 2)
      BY <2>1, <2>2, <2>4, TurnsOfSuffix
    <3>2. i <= ErasedSoFar + 1
      <4>. DEFINE k == ErasedSoFar
      <4>1. k \in Nat /\ i \in Nat /\ ~(i >= k + 2)
        BY <2>3, <2>4, <3>1
      <4>. HIDE DEF k
      <4>2. i <= k + 1
        BY <4>1
      <4>. QED  BY <4>2 DEF k
    <3>. QED  BY <2>4, <3>2, Zenon DEF IInv, TurnsAreTaken
  <2>. QED  BY <2>4
<1>3. robot' \in Poses /\ infeasible' \in 0..MaxInfeasible /\ recent' \in BOOLEAN
  BY <1>1, Zenon DEF IInv, TypeOK
<1>4. EndCycle /\ pc' \in {"idle", "arrived"}
  BY DEF Arrive
<1>. QED  BY <1>1, <1>2, <1>3, <1>4, EndOfCycle

\* The other ends of a cycle.
LEMMA CycleEndsStep ==
  ASSUME IInv, TransformFails \/ PlanFails \/ CommandRefused
  PROVE  IInv'
<1>1. /\ UNCHANGED <<global_plan, scoped, robot, stored, taken, guarded, plans, drifts>>
      /\ EndCycle /\ pc' = "idle"
  BY DEF TransformFails, PlanFails, CommandRefused, historyVars
<1>2. robot' \in Poses
  BY <1>1 DEF IInv, TypeOK
<1>3. infeasible' \in 0..MaxInfeasible /\ recent' \in BOOLEAN
  <2>1. infeasible \in 0..MaxInfeasible /\ recent \in BOOLEAN
    BY DEF IInv, TypeOK
  <2>2. CASE PlanFails
    <3>1. Lower(infeasible + 1, MaxInfeasible) \in 0..MaxInfeasible
      BY <2>1, ConstantsAssumption DEF ConstantsAssumption, Lower
    <3>. QED  BY <2>2, <3>1, Zenon DEF PlanFails
  <2>3. CASE TransformFails \/ CommandRefused
    BY <2>1, <2>3, Zenon DEF TransformFails, CommandRefused, failureVars
  <2>. QED  BY <2>2, <2>3
<1>4. ArrivalAfterTurns'
  BY <1>1 DEF ArrivalAfterTurns
<1>. QED  BY <1>1, <1>2, <1>3, <1>4, EndOfCycle

\* The robot moves.
LEMMA FollowStep ==
  ASSUME IInv, NEW pose \in AlongLocalPlan, FollowLocalPlan(pose)
  PROVE  IInv'
<1>1. /\ UNCHANGED <<global_plan, scoped, stored, taken, guarded, plans, drifts>>
      /\ EndCycle /\ pc' = "idle" /\ robot' = pose /\ infeasible' = 0 /\ recent' = recent
  BY DEF FollowLocalPlan, historyVars
<1>2. pose \in Poses
  <2>1. robot \in Poses /\ local_plan \in Seq(Poses)
    BY DEF IInv, TypeOK
  <2>2. Len(local_plan) \in Nat /\ \A i \in 1..Len(local_plan) : local_plan[i] \in Poses
    BY <2>1, LenProperties, ElementOfSeq
  <2>3. \A i \in 1..(Len(local_plan) - 1) : local_plan[i] \in Poses
    BY <2>2
  <2>. QED  BY <2>1, <2>3 DEF AlongLocalPlan, LocalGoals
<1>3. infeasible' \in 0..MaxInfeasible /\ recent' \in BOOLEAN
  BY <1>1, ConstantsAssumption DEF ConstantsAssumption, IInv, TypeOK
<1>4. ArrivalAfterTurns'
  BY <1>1 DEF ArrivalAfterTurns
<1>. QED  BY <1>1, <1>2, <1>3, <1>4, EndOfCycle

\* Only the robot, or only the memory of a failure, changes.
LEMMA UndisturbedPlan ==
  ASSUME IInv, TypeOK',
         UNCHANGED <<global_plan, scoped, local_plan, goal_idx, endpoint, pc, stored, taken, guarded>>
  PROVE  IInv'
<1>1. SuffixOfStored' /\ GuardedInScope' /\ TurnsAreTaken' /\ ArrivalAfterTurns'
  BY DEF IInv, SuffixOfStored, GuardedInScope, TurnsAreTaken, ArrivalAfterTurns,
         ErasedSoFar, TurnEnds, TurnsAt
<1>2. LocalPlanOnPlan'
  BY DEF IInv, LocalPlanOnPlan, PhaseEndpointSelected, Phase
<1>. QED  BY <1>1, <1>2 DEF IInv

LEMMA DriftStep ==
  ASSUME IInv, NEW pose \in Poses, Drift(pose)
  PROVE  IInv'
<1>1. drifts' \in 0..MaxDrifts
  BY ConstantsAssumption DEF ConstantsAssumption, IInv, TypeOK, Drift
<1>2. TypeOK'
  BY <1>1, Zenon DEF IInv, TypeOK, Drift, localVars, failureVars, historyVars
<1>. QED  BY <1>2, UndisturbedPlan DEF Drift, localVars, historyVars

LEMMA CalmStep ==
  ASSUME IInv, Calm
  PROVE  IInv'
<1>1. TypeOK'
  BY Zenon DEF IInv, TypeOK, Calm, localVars, historyVars
<1>. QED  BY <1>1, UndisturbedPlan DEF Calm, localVars, historyVars

\* Every step of the planner, of its caller or of the robot.
LEMMA NextIInv == IInv /\ [Next]_vars => IInv'
<1>. SUFFICES ASSUME IInv, [Next]_vars  PROVE IInv'
  OBVIOUS
<1>1. ASSUME NEW given \in Plans, SetPlan(given)  PROVE IInv'
  BY <1>1, SetPlanStep
<1>2. ASSUME NEW s \in BOOLEAN, SetScope(s)  PROVE IInv'
  BY <1>2, SetScopeStep
<1>3. CASE Calm
  BY <1>3, CalmStep
<1>4. ASSUME NEW transform \in BOOLEAN, PruneGlobalPlan(transform)  PROVE IInv'
  BY <1>4, PruneStep
<1>5. CASE TransformGlobalPlan
  BY <1>5, TransformStep
<1>6. CASE TransformFails \/ PlanFails \/ CommandRefused
  BY <1>6, CycleEndsStep
<1>7. CASE Arrive
  BY <1>7, ArriveStep
<1>8. CASE ConfigureBackupModes
  BY <1>8, ConfigureBackupModesStep
<1>9. ASSUME NEW pose \in AlongLocalPlan, FollowLocalPlan(pose)  PROVE IInv'
  BY <1>9, FollowStep
<1>10. ASSUME NEW pose \in Poses, Drift(pose)  PROVE IInv'
  BY <1>10, DriftStep
<1>11. CASE UNCHANGED vars
  <2>1. TypeOK'
    BY <1>11, Zenon DEF IInv, TypeOK, vars, localVars, failureVars, historyVars
  <2>. QED  BY <1>11, <2>1, UndisturbedPlan DEF vars, localVars, historyVars
<1>. QED  BY <1>1, <1>2, <1>3, <1>4, <1>5, <1>6, <1>7, <1>8, <1>9, <1>10, <1>11
             DEF Next, Caller, Cycle

-----------------------------------------------------------------------------
(* The theorems.                                                           *)

\* The conjunction above holds in every reachable state.
THEOREM InductiveInvariant == Spec => []IInv
<1>. QED  BY InitIInv, NextIInv, PTL DEF Spec

\* Every variable keeps its type; goal_idx is a position of global_plan_ when
\* estimateLocalGoalOrientation() reads it, whatever setPlan() stored.
THEOREM TypeCorrect == Spec => []TypeOK
<1>1. IInv => TypeOK
  BY DEF IInv
<1>. QED  BY <1>1, InductiveInvariant, PTL

\* pruneGlobalPlan() never erases the last pose, on any route.
THEOREM GoalIsKept == Spec => []PlanKeepsItsGoal
<1>1. IInv => PlanKeepsItsGoal
  <2>. SUFFICES ASSUME IInv PROVE PlanKeepsItsGoal
    OBVIOUS
  <2>1. global_plan \in Seq(Poses) /\ ErasedSoFar \in Nat /\ SuffixOfStored
    BY TurnsOfSuffix DEF IInv, TypeOK
  <2>2. DOMAIN global_plan = 1..Len(global_plan) /\ ErasedSoFar >= 0
    BY <2>1, LenProperties
  <2>. QED  BY <2>1, <2>2 DEF SuffixOfStored, PlanKeepsItsGoal
<1>. QED  BY <1>1, InductiveInvariant, PTL

\* No rotation leaves the plan uncompleted or out of order in a scope, for any
\* route, any distances and tolerances, and any motion of the robot.
THEOREM NoTurnIsSkipped == Spec => []TurnsAreTaken
<1>1. IInv => TurnsAreTaken
  BY DEF IInv
<1>. QED  BY <1>1, InductiveInvariant, PTL

\* In a scope the goal is never reached with a rotation of the route left out.
THEOREM ArrivalIsLast == Spec => []ArrivalAfterTurns
<1>1. IInv => ArrivalAfterTurns
  BY DEF IInv
<1>. QED  BY <1>1, InductiveInvariant, PTL

\* The local goal lies on the plan, before a pending rotation or on its end,
\* and then keeps its yaw.
THEOREM LocalGoalOnRoute == Spec => []LocalGoalBeforeTurn
<1>1. IInv => LocalGoalBeforeTurn
  <2>. SUFFICES ASSUME IInv, pc \in {"located", "planning"}
                PROVE  /\ Last(local_plan) = global_plan[goal_idx + 1]
                       /\ Phase # 0 => goal_idx < Phase /\ (goal_idx = Phase - 1 => KeepsGoalYaw)
    BY DEF LocalGoalBeforeTurn
  <2>. QED  BY DEF IInv, LocalPlanOnPlan, PhaseEndpointSelected, KeepsGoalYaw
<1>. QED  BY <1>1, InductiveInvariant, PTL

\* The reduced horizon of configureBackupModes() is never applied: its guard
\* fails in every reachable state that calls it.
THEOREM HorizonNeverShrinks == Spec => [](pc = "located" => ~ShrinksHorizon)
<1>1. IInv => (pc = "located" => ~ShrinksHorizon)
  BY NothingToShrink
<1>. QED  BY <1>1, InductiveInvariant, PTL

-----------------------------------------------------------------------------
(* What the simplification keeps.                                          *)

\* The last of the equal samples that a rotation ends in.
LEMMA LastOfEqual ==
  ASSUME NEW p \in Seq(Poses), NEW i \in 1..Len(p)
  PROVE  \E m \in i..Len(p) : /\ \A k \in i..m : p[k] = p[i]
                              /\ m = Len(p) \/ p[m] # p[m + 1]
<1>. DEFINE S == {m \in i..Len(p) : \A k \in i..m : p[k] = p[i]}
<1>1. Len(p) \in Nat /\ i \in Nat
  BY LenProperties
<1>2. i \in S /\ S \in SUBSET (0..Len(p))
  BY <1>1
<1>. DEFINE m == Max(S)
<1>3. m \in S /\ \A k \in S : k <= m
  <2>. HIDE DEF S
  <2>. QED  BY <1>1, <1>2, GreatestNatural
<1>. HIDE DEF m
<1>4. m \in i..Len(p) /\ \A k \in i..m : p[k] = p[i]
  BY <1>3
<1>5. ASSUME m # Len(p), p[m] = p[m + 1]  PROVE FALSE
  <2>1. m + 1 \in i..Len(p) /\ m \in i..m
    BY <1>1, <1>4, <1>5
  <2>2. \A k \in i..(m + 1) : p[k] = p[i]
    BY <1>1, <1>4, <1>5, <2>1
  <2>3. m + 1 <= m
    BY <1>3, <2>1, <2>2
  <2>. QED  BY <1>1, <1>4, <2>3
<1>. QED  BY <1>4, <1>5

\* Both ends of a rotation are there when equal samples are dropped.
LEMMA DistinctKeepsTurns ==
  ASSUME NEW p \in Seq(Poses), NEW i \in 2..Len(p), TurnsAt(p, i), NEW d \in Distinct(p)
  PROVE  \E j \in 2..Len(d) : d[j] = p[i] /\ d[j - 1] = p[i - 1]
<1>. DEFINE lasts == {k \in DOMAIN p : k = Len(p) \/ p[k] # p[k + 1]}
<1>1. PICK l \in Nat : l = Len(p) /\ DOMAIN p = 1..l
  BY LenProperties
<1>2. PICK h \in 1..l : h = i - 1 /\ h + 1 = i /\ i \in 1..l /\ i \in Int
  <2>1. i \in 2..l
    BY <1>1
  <2>2. i - 1 \in 1..l /\ (i - 1) + 1 = i /\ i \in 1..l /\ i \in Int
    BY <2>1
  <2>. QED  BY <2>2
<1>3. p[h] # p[i]
  BY <1>2 DEF TurnsAt
<1>4. PICK f \in Selections(p, lasts, lasts) : d = [k \in DOMAIN f |-> p[f[k]]]
  BY DEF Distinct
<1>5. PICK m \in i..l : (\A k \in i..m : p[k] = p[i]) /\ (m = l \/ p[m] # p[m + 1])
  <2>1. i \in 1..Len(p)
    BY <1>1, <1>2
  <2>2. \E m \in i..Len(p) : (\A k \in i..m : p[k] = p[i]) /\ (m = Len(p) \/ p[m] # p[m + 1])
    BY <2>1, LastOfEqual
  <2>. QED  BY <1>1, <2>2
<1>6. m \in lasts /\ p[m] = p[i] /\ h \in lasts /\ h < m
  BY <1>1, <1>2, <1>3, <1>5
<1>7. \A k \in lasts : ~(h < k /\ k < m)
  <2>1. SUFFICES ASSUME NEW k \in 1..l, h < k, k < m  PROVE p[k] = p[k + 1] /\ k # l
    BY <1>1
  <2>2. k \in i..m /\ k + 1 \in i..m /\ k # l
    BY <1>2, <1>5, <2>1
  <2>. QED  BY <1>5, <2>2
<1>8. lasts \in SUBSET DOMAIN p
  OBVIOUS
<1>. HIDE DEF lasts
<1>9. PICK n \in Nat : f \in [1..n -> 1..Len(p)] /\ \E j \in 2..n : f[j - 1] = h /\ f[j] = m
  <2>1. \E n \in Nat : f \in [1..n -> 1..Len(p)] /\ \E j \in 2..n : f[j - 1] = h /\ f[j] = m
    <3>1. f \in Selections(p, lasts, lasts)
      BY <1>4
    <3>2. h \in lasts /\ m \in lasts /\ h < m
      BY <1>6
    <3>3. \A k \in lasts : ~(h < k /\ k < m)
      BY <1>7
    <3>4. \A a \in lasts : \A b \in lasts : a < b /\ (\A k \in lasts : ~(a < k /\ k < b)) =>
            \E n \in Nat : f \in [1..n -> 1..Len(p)] /\ \E j \in 2..n : f[j - 1] = a /\ f[j] = b
      BY <3>1, <1>8, NeighboursStayNeighbours
    <3>. QED  BY <3>2, <3>3, <3>4
  <2>. QED  BY <2>1
<1>10. PICK j \in 2..n : f[j - 1] = h /\ f[j] = m
  BY <1>9
<1>11. DOMAIN d = 1..n /\ j \in 1..n /\ j - 1 \in 1..n
  BY <1>4, <1>9
<1>12. Len(d) = n
  BY <1>9, <1>11, DistinctPlan, LenProperties
<1>13. d[j] = p[m] /\ d[j - 1] = p[h]
  BY <1>4, <1>10, <1>11
<1>. QED  BY <1>2, <1>6, <1>12, <1>13

\* Both ends of a rotation are there when close samples are dropped, with
\* their yaws.
LEMMA SimplifiedKeepsTurns ==
  ASSUME NEW p \in Seq(Poses), NEW i \in 2..Len(p), TurnsAt(p, i), NEW r \in Simplified(p)
  PROVE  \E j \in 2..Len(r) : r[j] = p[i] /\ r[j - 1] = p[i - 1]
<1>1. PICK l \in Nat : l = Len(p) /\ DOMAIN p = 1..l
  BY LenProperties
<1>2. PICK h \in 1..l : h = i - 1 /\ h + 1 = i /\ h < i /\ i \in 2..l /\ i \in 1..l
  <2>1. i \in 2..l
    BY <1>1
  <2>2. i - 1 \in 1..l /\ (i - 1) + 1 = i /\ i - 1 < i /\ i \in 1..l
    BY <2>1
  <2>. QED  BY <2>1, <2>2
<1>3. CASE SurgeYaw /\ Len(p) > 2
  <2>1. PICK f \in Selections(p, Kept(p), DOMAIN p) :
          \E tangent \in [DOMAIN f -> Yaws] : r = Reduced(p, f, tangent)
    BY <1>3 DEF Simplified
  <2>2. PICK tangent \in [DOMAIN f -> Yaws] : r = Reduced(p, f, tangent)
    BY <2>1
  <2>3. i \in Kept(p) /\ h \in Kept(p)
    <3>1. p[h].at = p[i].at /\ i > 1 /\ h < Len(p)
      BY <1>1, <1>2 DEF TurnsAt
    <3>. QED  BY <1>1, <1>2, <3>1 DEF Kept
  <2>4. \A k \in DOMAIN p : ~(h < k /\ k < i)
    BY <1>1, <1>2
  <2>5. PICK n \in Nat : f \in [1..n -> 1..Len(p)] /\ \E j \in 2..n : f[j - 1] = h /\ f[j] = i
    BY <1>2, <2>1, <2>3, <2>4, NeighboursStayNeighbours
  <2>6. PICK j \in 2..n : f[j - 1] = h /\ f[j] = i
    BY <2>5
  <2>7. DOMAIN f = 1..n /\ j \in 1..n /\ j - 1 \in 1..n
    BY <2>5
  <2>8. r[j] = p[i] /\ r[j - 1] = p[h] /\ DOMAIN r = 1..n
    BY <2>2, <2>3, <2>6, <2>7 DEF Reduced
  <2>9. r \in Seq(Poses)
    BY SimplifiedPlan
  <2>10. Len(r) = n
    BY <2>5, <2>8, <2>9, LenProperties
  <2>. QED  BY <1>2, <2>8, <2>10
<1>4. CASE ~(SurgeYaw /\ Len(p) > 2)
  <2>1. r = p
    BY <1>4 DEF Simplified
  <2>. QED  BY <2>1
<1>. QED  BY <1>3, <1>4

\* Every rotation of the plan given to setPlan() is in the plan it stores,
\* whatever samples are equal, whatever samples the simplification drops and
\* whatever tangents it gives to those it keeps.
THEOREM RotationsStay == Spec => RotationsRetained
<1>. DEFINE Retained ==
       \A given \in Plans : SetPlan(given) =>
         \A i \in 2..Len(given) :
           TurnsAt(given, i) =>
             \E j \in 2..Len(global_plan') :
               global_plan'[j] = given[i] /\ global_plan'[j - 1] = given[i - 1]
<1>1. Retained
  <2>1. SUFFICES ASSUME NEW given \in Plans, SetPlan(given),
                        NEW i \in 2..Len(given), TurnsAt(given, i)
                 PROVE  \E j \in 2..Len(global_plan') :
                          global_plan'[j] = given[i] /\ global_plan'[j - 1] = given[i - 1]
    OBVIOUS
  <2>2. given \in Seq(Poses)
    BY ConstantsAssumption DEF ConstantsAssumption
  <2>3. PICK d \in Distinct(given) : global_plan' \in Simplified(d)
    BY <2>1 DEF SetPlan, StoredPlans
  <2>4. d \in Seq(Poses)
    BY <2>2, <2>3, DistinctPlan
  <2>5. PICK k \in 2..Len(d) : d[k] = given[i] /\ d[k - 1] = given[i - 1]
    BY <2>1, <2>2, <2>3, DistinctKeepsTurns
  <2>6. TurnsAt(d, k)
    BY <2>1, <2>5 DEF TurnsAt
  <2>7. \E j \in 2..Len(global_plan') : global_plan'[j] = d[k] /\ global_plan'[j - 1] = d[k - 1]
    BY <2>3, <2>4, <2>6, SimplifiedKeepsTurns
  <2>. QED  BY <2>5, <2>7
<1>. QED  BY <1>1, PTL DEF RotationsRetained
=============================================================================
