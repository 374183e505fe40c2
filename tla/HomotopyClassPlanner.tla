------------------------ MODULE HomotopyClassPlanner ------------------------
(***************************************************************************)
(* The planner that keeps one timed elastic band (TEB) per homotopy class  *)
(* (src/src/homotopy_class_planner.cpp): the container tebs_ and, next to  *)
(* it and meant to be indexed in parallel, the container                   *)
(* equivalence_classes_; the pointers best_teb_, last_best_teb_ and        *)
(* initial_plan_teb_ into tebs_; and the cached classes best_teb_eq_class_ *)
(* and initial_plan_eq_class_.                                             *)
(*                                                                         *)
(* A call of plan() is the sequence of its methods, in the order of the    *)
(* code; a loop over a container takes one step per element, and the       *)
(* optimizer threads finish in any order.  What geometry decides (the      *)
(* H-signature a trajectory has, whether it detours, its cost, whether the *)
(* robot's footprint clears it) is a nondeterministic choice.              *)
(***************************************************************************)
EXTENDS Integers, FiniteSets, SequencesExt

CONSTANTS
  Tebs,                     \* the TEB objects (addresses) there may be
  Sigs,                     \* the H-signatures trajectories may have
  ValidSigs,                \* those with finite parts (HSignature::isValid)
  Similar,                  \* the pairs HSignature::isEqual accepts
  InitialSigs,              \* signature of the initial plan of a call, None: no plan given
  None,                     \* a null pointer
  Costs,                    \* finite costs
  NoCost,                   \* HUGE_VAL: the cost of a TEB never evaluated
  MaxClasses,               \* hcp.max_number_classes
  MaxPlansInCurrentClass,   \* hcp.max_number_plans_in_current_class
  Weight,                   \* cost factors: [plain, last, initial |-> Nat]
  BlockingPeriod,           \* hcp.switching_blocking_period, in ticks
  DeleteDetours,            \* hcp.delete_detours_backwards
  DropRandomly,             \* hcp.selection_dropping_probability # 0
  ViaPointsAllCandidates    \* hcp.viapoints_all_candidates

ASSUME ConstantsAssumption ==
  /\ Tebs \subseteq Nat /\ None \notin Tebs
  /\ Cardinality(Tebs) >= MaxClasses + 3   \* there is always a free address
  /\ ValidSigs \subseteq Sigs /\ None \notin Sigs
  /\ Similar \subseteq Sigs \X Sigs
  /\ \A s, t \in Sigs : <<s, t>> \in Similar => <<t, s>> \in Similar   \* isEqual is symmetric
  /\ InitialSigs \subseteq Sigs \cup {None}
  /\ Costs \subseteq Nat /\ NoCost \notin Costs
  /\ MaxClasses \in Nat \ {0}
  /\ MaxPlansInCurrentClass \in Nat
  /\ Weight \in [{"plain", "last", "initial"} -> Nat]
  /\ BlockingPeriod \in Nat
  /\ DeleteDetours \in BOOLEAN /\ DropRandomly \in BOOLEAN
  /\ ViaPointsAllCandidates \in BOOLEAN

VARIABLES
  tebs,             \* tebs_: sequence of TEB objects, see Teb below
  classes,          \* equivalence_classes_: sequence of [sig, lock]
  best,             \* best_teb_
  last_best,        \* last_best_teb_
  best_class,       \* best_teb_eq_class_
  initial_plan,     \* initial_plan_: the signature that plan has, None if there is no plan
  initial_teb,      \* initial_plan_teb_
  initial_class,    \* initial_plan_eq_class_
  since_switch,     \* ticks since last_eq_class_switching_time_, saturated
  infeasible,       \* TEBs the swept footprint rejects in this cycle
  pending,          \* TEBs whose optimizer has not finished
  it,               \* iterator of the running loop
  pc                \* the method plan(), or its caller, executes next

pointerVars == <<best, last_best, best_class, initial_teb, initial_class>>
vars == <<tebs, classes, pointerVars, initial_plan,
          since_switch, infeasible, pending, it, pc>>

Phases == {"idle", "renew", "reanalyze", "detours", "drop", "inject", "explore",
           "via", "optimize", "select", "planned", "checking", "accepted", "rejected"}

-----------------------------------------------------------------------------
(* Containers and pointers.                                                *)

\* A TEB object: its address, its signature when that was last computed, its
\* cost_, whether its last optimization succeeded, and whether it is connected
\* with the via-points.  An object outside the container is only an address:
\* nothing else of it is read.
Teb == [id : Tebs, sig : Sigs, cost : Costs \cup {NoCost},
        optimized : BOOLEAN, guided : BOOLEAN]

Ids == {tebs[i].id : i \in DOMAIN tebs}

InContainer(t) == t \in Ids

\* A pointer the planner holds keeps its object alive; the lowest free
\* address stands for every other one.
FreeTebs == Tebs \ (Ids \cup {best, last_best, initial_teb})

LowestFree == {t \in FreeTebs : \A u \in FreeTebs : t <= u}

\* Mutant: the front of the container, whatever its size.
BestTebMutFront == IF tebs = <<>> THEN None ELSE tebs[1].id

\* bestTeb(): what getVelocityCommand() and visualize() use.
BestTeb == IF tebs = <<>> THEN None ELSE IF Len(tebs) = 1 THEN tebs[1].id ELSE best

-----------------------------------------------------------------------------
(* Equivalence classes.                                                    *)

HasEquivalenceClass(s) == \E i \in DOMAIN classes : <<s, classes[i].sig>> \in Similar

IsInBestTebClass(s) == best_class # None /\ <<best_class, s>> \in Similar

NumTebsInBestTebClass ==
  IF best_class = None THEN 0
  ELSE Cardinality({i \in DOMAIN classes : <<best_class, classes[i].sig>> \in Similar})

\* Mutant: one TEB too many in the current class.
IsNewClassMutOneMore(s) ==
  /\ s \in ValidSigs
  /\ HasEquivalenceClass(s) =>
       IsInBestTebClass(s) /\ NumTebsInBestTebClass <= MaxPlansInCurrentClass

\* What addEquivalenceClassIfNew(s) returns; it appends s when TRUE.
IsNewClass(s) ==
  /\ s \in ValidSigs
  /\ HasEquivalenceClass(s) =>
       IsInBestTebClass(s) /\ NumTebsInBestTebClass < MaxPlansInCurrentClass

EqRels == [sig : Sigs, lock : BOOLEAN]

EqRel(s, lock) == [sig |-> s, lock |-> lock]

\* A new candidate is built, found to be in a new class and pushed to both
\* containers.  Its TebOptimalPlanner has no cost and no via-points yet.
PushTeb(t, s, lock) ==
  /\ tebs' = Append(tebs, [id |-> t, sig |-> s, cost |-> NoCost,
                           optimized |-> FALSE, guided |-> FALSE])
  /\ classes' = Append(classes, EqRel(s, lock))

EraseBoth(i) == tebs' = RemoveAt(tebs, i) /\ classes' = RemoveAt(classes, i)

-----------------------------------------------------------------------------
(* The TEB of the initial plan.                                            *)

InitialPlanMatches ==
  IF initial_class \in ValidSigs /\ Len(classes) = Len(tebs)
  THEN {i \in DOMAIN classes : <<classes[i].sig, initial_class>> \in Similar}
  ELSE {}

FirstMatch == CHOOSE i \in InitialPlanMatches : \A j \in InitialPlanMatches : i <= j

\* The search part of getInitialPlanTEB(): by the cached class.
MatchedTeb == IF InitialPlanMatches = {} THEN None ELSE tebs[FirstMatch].id

RelockedClasses ==
  [i \in DOMAIN classes |->
     EqRel(classes[i].sig, InitialPlanMatches # {} /\ i = FirstMatch)]

InitialTebStored == initial_teb # None /\ InContainer(initial_teb)

\* What getInitialPlanTEB() returns.
InitialPlanTeb == IF InitialTebStored THEN initial_teb ELSE MatchedTeb

-----------------------------------------------------------------------------
(* plan(): old trajectories.                                               *)

\* plan() stores the initial plan and calls updateAllTEBs(), which drops all
\* trajectories when the goal has moved too far.
UpdateAllTebs(goal_moved, plan_sig) ==
  /\ pc = "idle"
  /\ initial_plan' = plan_sig
  /\ IF goal_moved THEN tebs' = <<>> /\ classes' = <<>>
                   ELSE UNCHANGED <<tebs, classes>>
  /\ pc' = "renew"
  /\ UNCHANGED <<pointerVars, since_switch, infeasible, pending, it>>

\* Mutant: the best TEB stays where it is in the container.
RenewBestMutNoSwap(i, s) ==
  /\ pc = "renew"
  /\ i \in DOMAIN tebs /\ tebs[i].id = best
  /\ tebs' = [tebs EXCEPT ![i].sig = s]
  /\ classes' = IF s \in ValidSigs THEN <<EqRel(s, FALSE)>> ELSE <<>>
  /\ best_class' = s
  /\ it' = 2
  /\ pc' = "reanalyze"
  /\ UNCHANGED <<best, last_best, initial_teb, initial_class, initial_plan,
                 since_switch, infeasible, pending>>

\* renewAndAnalyzeOldTebs(), lines before the loop: the last best TEB is put in
\* front and its class is added first.  The result of the addition is ignored.
RenewBest(i, s) ==
  /\ pc = "renew"
  /\ i \in DOMAIN tebs /\ tebs[i].id = best
  /\ tebs' = [[tebs EXCEPT ![i] = tebs[1]] EXCEPT ![1] = [tebs[i] EXCEPT !.sig = s]]
  /\ classes' = IF s \in ValidSigs THEN <<EqRel(s, FALSE)>> ELSE <<>>
  /\ best_class' = s
  /\ it' = 2
  /\ pc' = "reanalyze"
  /\ UNCHANGED <<best, last_best, initial_teb, initial_class, initial_plan,
                 since_switch, infeasible, pending>>

RenewWithoutBest ==
  /\ pc = "renew"
  /\ ~InContainer(best)
  /\ classes' = <<>>
  /\ it' = 1
  /\ pc' = "reanalyze"
  /\ UNCHANGED <<tebs, pointerVars, initial_plan, since_switch, infeasible, pending>>

\* The loop of renewAndAnalyzeOldTebs(): a TEB whose class is already there is erased.
ReanalyzeTeb(s) ==
  /\ pc = "reanalyze"
  /\ it <= Len(tebs)
  /\ \/ /\ IsNewClass(s)
        /\ classes' = Append(classes, EqRel(s, FALSE))
        /\ tebs' = [tebs EXCEPT ![it].sig = s]
        /\ it' = it + 1
     \/ /\ ~IsNewClass(s)
        /\ tebs' = RemoveAt(tebs, it)
        /\ UNCHANGED <<classes, it>>
  /\ UNCHANGED <<pointerVars, initial_plan, since_switch, infeasible, pending, pc>>

\* deletePlansDetouringBackwards() is called last; it returns at once without
\* a second TEB or a best one, or when that one is too short to have a direction.
ReanalyzeDone ==
  /\ pc = "reanalyze"
  /\ it > Len(tebs)
  /\ it' = 1
  /\ pc' = "drop" \/ (DeleteDetours /\ Len(tebs) >= 2 /\ InContainer(best) /\ pc' = "detours")
  /\ UNCHANGED <<tebs, classes, pointerVars, initial_plan,
                 since_switch, infeasible, pending>>

\* One iteration of deletePlansDetouringBackwards().  A TEB whose last
\* optimization failed is never kept; removeTeb() refuses when the two
\* containers differ in size and its end iterator ends the loop.
KeepPlan ==
  /\ pc = "detours"
  /\ it <= Len(tebs)
  /\ tebs[it].id = best \/ tebs[it].optimized
  /\ it' = it + 1
  /\ UNCHANGED <<tebs, classes, pc>>
  /\ UNCHANGED <<pointerVars, initial_plan, since_switch, infeasible, pending>>

DeleteDetour ==
  /\ pc = "detours"
  /\ it <= Len(tebs)
  /\ tebs[it].id # best
  /\ IF Len(classes) = Len(tebs) THEN EraseBoth(it) /\ UNCHANGED <<it, pc>>
     ELSE it' = 1 /\ pc' = "drop" /\ UNCHANGED <<tebs, classes>>
  /\ UNCHANGED <<pointerVars, initial_plan, since_switch, infeasible, pending>>

DetoursDone ==
  /\ pc = "detours"
  /\ it > Len(tebs)
  /\ it' = 1
  /\ pc' = "drop"
  /\ UNCHANGED <<tebs, classes, pointerVars, initial_plan,
                 since_switch, infeasible, pending>>

\* randomlyDropTebs(), one iteration over both containers.
DropInRange == it <= Len(tebs) /\ it <= Len(classes)

\* Mutants: the class of a dropped TEB is kept; the best TEB may be dropped.
RandomlyDropTebMutKeepClass ==
  /\ pc = "drop"
  /\ DropRandomly
  /\ DropInRange
  /\ \/ tebs[it].id # best /\ tebs' = RemoveAt(tebs, it) /\ UNCHANGED <<it, classes>>
     \/ it' = it + 1 /\ UNCHANGED <<tebs, classes>>
  /\ UNCHANGED <<pointerVars, initial_plan, since_switch, infeasible, pending, pc>>

RandomlyDropTebMutBestToo ==
  /\ pc = "drop"
  /\ DropRandomly
  /\ DropInRange
  /\ \/ EraseBoth(it) /\ UNCHANGED it
     \/ it' = it + 1 /\ UNCHANGED <<tebs, classes>>
  /\ UNCHANGED <<pointerVars, initial_plan, since_switch, infeasible, pending, pc>>

RandomlyDropTeb ==
  /\ pc = "drop"
  /\ DropRandomly
  /\ DropInRange
  /\ \/ tebs[it].id # best /\ EraseBoth(it) /\ UNCHANGED it
     \/ it' = it + 1 /\ UNCHANGED <<tebs, classes>>
  /\ UNCHANGED <<pointerVars, initial_plan, since_switch, infeasible, pending, pc>>

RandomlyDropDone ==
  /\ pc = "drop"
  /\ ~(DropRandomly /\ DropInRange)
  /\ it' = 0
  /\ pc' = "inject"
  /\ UNCHANGED <<tebs, classes, pointerVars, initial_plan,
                 since_switch, infeasible, pending>>

-----------------------------------------------------------------------------
(* plan(): new trajectories.                                               *)

\* addAndInitNewTeb(initial_plan): its class is remembered unless the
\* container is full, and the TEB is added when that class is new.
InjectInitialPlan ==
  /\ pc = "inject"
  /\ initial_plan # None
  /\ \/ /\ Len(tebs) >= MaxClasses
        /\ initial_teb' = None
        /\ UNCHANGED <<tebs, classes, initial_class>>
     \/ /\ Len(tebs) < MaxClasses
        /\ initial_class' = initial_plan
        /\ ~IsNewClass(initial_plan)
        /\ initial_teb' = None
        /\ UNCHANGED <<tebs, classes>>
     \/ /\ Len(tebs) < MaxClasses
        /\ initial_class' = initial_plan
        /\ IsNewClass(initial_plan)
        /\ \E t \in LowestFree : PushTeb(t, initial_plan, TRUE) /\ initial_teb' = t
  /\ pc' = "explore"
  /\ UNCHANGED <<best, last_best, best_class, initial_plan, since_switch, infeasible, pending, it>>

\* Without an initial plan: initial_plan_teb_ is reset, then searched for.
FindInitialPlanTeb ==
  /\ pc = "inject"
  /\ initial_plan = None
  /\ classes' = RelockedClasses
  /\ initial_teb' = MatchedTeb
  /\ pc' = "explore"
  /\ UNCHANGED <<tebs, best, last_best, best_class, initial_class, initial_plan,
                 since_switch, infeasible, pending, it>>

\* Mutant: the depth-first search does not look at the size of the container.
ExploreCandidateMutNoLimit(s) ==
  /\ pc = "explore"
  /\ IsNewClass(s)
  /\ \E t \in LowestFree : PushTeb(t, s, FALSE)
  /\ UNCHANGED <<pointerVars, initial_plan, since_switch, infeasible, pending, it, pc>>

\* createGraph() and DepthFirst(): each path found to the goal is a candidate
\* of some class while the container is not full.  A candidate of a known class
\* changes nothing.  Near the goal only a straight line is tried, and only when
\* the container is empty: one such step.
ExploreCandidate(s) ==
  /\ pc = "explore"
  /\ Len(tebs) < MaxClasses
  /\ IsNewClass(s)
  /\ \E t \in LowestFree : PushTeb(t, s, FALSE)
  /\ UNCHANGED <<pointerVars, initial_plan, since_switch, infeasible, pending, it, pc>>

ExploreDone ==
  /\ pc = "explore"
  /\ pc' = "via"
  /\ UNCHANGED <<tebs, classes, pointerVars, initial_plan,
                 since_switch, infeasible, pending, it>>

\* updateReferenceTrajectoryViaPoints(), then optimizeAllTEBs() starts.  The
\* code dereferences initial_plan_eq_class_ (homotopy_class_planner.cpp:328),
\* which is null when no plan was given before the container was full; no class
\* is similar to None here.
UpdateReferenceTrajectoryViaPoints(no_via_points) ==
  /\ pc = "via"
  /\ tebs' = IF \/ ~ViaPointsAllCandidates /\ initial_plan = None
                \/ no_via_points
                \/ Len(classes) < Len(tebs)
             THEN tebs
             ELSE [i \in DOMAIN tebs |-> [tebs[i] EXCEPT !.guided =
                     ViaPointsAllCandidates \/ <<initial_class, classes[i].sig>> \in Similar]]
  /\ pending' = Ids
  /\ pc' = "optimize"
  /\ UNCHANGED <<classes, pointerVars, initial_plan, since_switch, infeasible, it>>

-----------------------------------------------------------------------------
(* plan(): optimization and selection.                                     *)

\* The thread of the i-th TEB ends optimizeTEB(): a failure leaves the old cost;
\* a success may still leave the TEB without a finite cost.
OptimizeTeb(i, c, success) ==
  /\ pc = "optimize"
  /\ i \in DOMAIN tebs /\ tebs[i].id \in pending
  /\ pending' = pending \ {tebs[i].id}
  /\ tebs' = [tebs EXCEPT ![i].optimized = success, ![i].cost = IF success THEN c ELSE @]
  /\ UNCHANGED <<classes, pointerVars, initial_plan, since_switch, infeasible, it, pc>>

JoinAll ==
  /\ pc = "optimize"
  /\ pending = {}
  /\ pc' = "select"
  /\ UNCHANGED <<tebs, classes, pointerVars, initial_plan,
                 since_switch, infeasible, pending, it>>

\* The cost selectBestTeb() compares: the last best TEB has its hysteresis,
\* else the TEB of the initial plan has its preference.
Rank(teb) ==
  teb.cost * (IF teb.id = best THEN Weight.last
              ELSE IF teb.id = InitialPlanTeb THEN Weight.initial ELSE Weight.plain)

Candidates == {i \in DOMAIN tebs : tebs[i].cost \in Costs}

\* The first candidate of least rank (strict < starting from DBL_MAX).
Cheapest ==
  IF Candidates = {} THEN None
  ELSE tebs[CHOOSE i \in Candidates :
              /\ \A j \in Candidates : Rank(tebs[i]) <= Rank(tebs[j])
              /\ \A j \in Candidates : j < i => Rank(tebs[i]) < Rank(tebs[j])].id

\* Mutant: the last best TEB is not looked up in the container.
WantsSwitchMutNotLookedUp == best # None /\ Cheapest # best

\* A switch away from a last best TEB that is still there, and may be blocked.
WantsSwitch == InContainer(best) /\ Cheapest # best

\* Mutant: switches are never blocked.
SelectBestTebMutUnblocked ==
  /\ last_best' = IF InContainer(best) THEN best ELSE None
  /\ best' = Cheapest
  /\ since_switch' = IF WantsSwitch THEN 0 ELSE since_switch
  /\ IF InitialTebStored
     THEN UNCHANGED <<classes, initial_teb>>
     ELSE classes' = RelockedClasses /\ initial_teb' = None

SelectBestTeb ==
  /\ last_best' = IF InContainer(best) THEN best ELSE None
  /\ IF WantsSwitch /\ since_switch <= BlockingPeriod
     THEN best' = best
     ELSE best' = Cheapest
  /\ since_switch' = IF WantsSwitch /\ since_switch > BlockingPeriod THEN 0 ELSE since_switch
  /\ IF InitialTebStored
     THEN UNCHANGED <<classes, initial_teb>>
     ELSE classes' = RelockedClasses /\ initial_teb' = None

\* plan() selects, forgets the initial plan and returns true.
FinishPlan ==
  /\ pc = "select"
  /\ SelectBestTeb
  /\ initial_plan' = None
  /\ pc' = "planned"
  /\ UNCHANGED <<tebs, best_class, initial_class, infeasible, pending, it>>

-----------------------------------------------------------------------------
(* The caller: feasibility, velocity command, reset.                       *)

\* isTrajectoryFeasible() is called with one snapshot of the costmap: which
\* TEBs collide is fixed for the whole loop.
StartFeasibilityCheck(bad) ==
  /\ pc = "planned"
  /\ infeasible' = bad
  /\ pc' = "checking"
  /\ UNCHANGED <<tebs, classes, pointerVars, initial_plan, since_switch, pending, it>>

\* findBestTeb() selects again when the best TEB has been removed.
FindBestTeb ==
  /\ pc = "checking"
  /\ tebs # <<>>
  /\ ~InContainer(best)
  /\ SelectBestTeb
  /\ pc' = IF best' = None THEN "rejected" ELSE "checking"
  /\ UNCHANGED <<tebs, best_class, initial_class, initial_plan, infeasible, pending, it>>

BestIsFeasible ==
  /\ pc = "checking"
  /\ InContainer(best)
  /\ best \notin infeasible
  /\ pc' = "accepted"
  /\ UNCHANGED <<tebs, classes, pointerVars, initial_plan,
                 since_switch, infeasible, pending, it>>

\* Mutant: an infeasible TEB is not removed.
BestIsInfeasibleMutNotRemoved ==
  /\ pc = "checking"
  /\ best \in infeasible
  /\ InContainer(best)
  /\ pc' = IF last_best = best THEN "rejected" ELSE "checking"
  /\ UNCHANGED <<tebs, classes, pointerVars, initial_plan, since_switch, infeasible, pending, it>>

\* An infeasible best TEB goes through removeTeb(), which does nothing when
\* the containers differ in size; the loop gives up only if that TEB was also
\* the last best one.
BestIsInfeasible ==
  /\ pc = "checking"
  /\ best \in infeasible
  /\ \E i \in DOMAIN tebs :
       /\ tebs[i].id = best
       /\ IF Len(classes) = Len(tebs) THEN EraseBoth(i) ELSE UNCHANGED <<tebs, classes>>
  /\ pc' = IF last_best = best THEN "rejected" ELSE "checking"
  /\ UNCHANGED <<pointerVars, initial_plan, since_switch, infeasible, pending, it>>

NothingFeasible ==
  /\ pc = "checking"
  /\ tebs = <<>>
  /\ pc' = "rejected"
  /\ UNCHANGED <<tebs, classes, pointerVars, initial_plan,
                 since_switch, infeasible, pending, it>>

\* computeVelocityCommands() takes a velocity from bestTeb(): after a feasible
\* check, or to leave a contact after an infeasible one.
GetVelocityCommand ==
  /\ pc \in {"accepted", "rejected"}
  /\ BestTeb # None
  /\ infeasible' = {}
  /\ pc' = "idle"
  /\ UNCHANGED <<tebs, classes, pointerVars, initial_plan, since_switch, pending, it>>

\* clearPlanner(): on divergence, an infeasible trajectory, an invalid command,
\* or when the goal is reached.  The pointers and cached classes stay.
ClearPlanner ==
  /\ pc \in {"idle", "planned", "accepted", "rejected"}
  /\ tebs' = <<>>
  /\ classes' = <<>>
  /\ initial_plan' = None
  /\ infeasible' = {}
  /\ pc' = "idle"
  /\ UNCHANGED <<pointerVars, since_switch, pending, it>>

\* Time passes between two calls; beyond the period it makes no difference.
Tick ==
  /\ pc = "idle"
  /\ since_switch <= BlockingPeriod
  /\ since_switch' = since_switch + 1
  /\ UNCHANGED <<tebs, classes, pointerVars, initial_plan, infeasible, pending, it, pc>>

-----------------------------------------------------------------------------
(* The specification.                                                      *)

Init ==
  /\ tebs = <<>> /\ classes = <<>>
  /\ best = None /\ last_best = None /\ best_class = None
  /\ initial_plan = None /\ initial_teb = None /\ initial_class = None
  /\ since_switch = BlockingPeriod + 1
  /\ infeasible = {} /\ pending = {} /\ it = 0
  /\ pc = "idle"

ReanalyzeOldTebs ==
  \/ \E i \in DOMAIN tebs, s \in Sigs : RenewBest(i, s)
  \/ RenewWithoutBest
  \/ \E s \in Sigs : ReanalyzeTeb(s)
  \/ ReanalyzeDone
  \/ KeepPlan \/ DeleteDetour \/ DetoursDone

ExploreNewTebs ==
  \/ RandomlyDropTeb \/ RandomlyDropDone
  \/ InjectInitialPlan \/ FindInitialPlanTeb
  \/ \E s \in Sigs : ExploreCandidate(s)
  \/ ExploreDone
  \/ \E none \in BOOLEAN : UpdateReferenceTrajectoryViaPoints(none)

OptimizeAndSelect ==
  \/ \E i \in DOMAIN tebs, c \in Costs \cup {NoCost}, success \in BOOLEAN : OptimizeTeb(i, c, success)
  \/ JoinAll
  \/ FinishPlan

IsTrajectoryFeasible ==
  FindBestTeb \/ BestIsFeasible \/ BestIsInfeasible \/ NothingFeasible

Caller ==
  \/ \E moved \in BOOLEAN, s \in InitialSigs : UpdateAllTebs(moved, s)
  \/ \E bad \in SUBSET Ids : StartFeasibilityCheck(bad)
  \/ GetVelocityCommand \/ ClearPlanner \/ Tick

Next == ReanalyzeOldTebs \/ ExploreNewTebs \/ OptimizeAndSelect \/ IsTrajectoryFeasible \/ Caller

Spec == Init /\ [][Next]_vars

\* plan() and isTrajectoryFeasible() run to their end once they are called:
\* their loops hold no lock and wait for nothing but their own threads.
FairSpec ==
  /\ Spec
  /\ WF_vars(ReanalyzeOldTebs)
  /\ WF_vars(RandomlyDropTeb \/ RandomlyDropDone \/ InjectInitialPlan \/ FindInitialPlanTeb)
  /\ WF_vars(ExploreDone)
  /\ WF_vars(\E none \in BOOLEAN : UpdateReferenceTrajectoryViaPoints(none))
  /\ WF_vars(OptimizeAndSelect)
  /\ WF_vars(IsTrajectoryFeasible)

-----------------------------------------------------------------------------
(* Properties.                                                             *)

\* The containers hold TEBs and classes, every pointer is a TEB or null, and
\* the per-TEB attributes are what TebOptimalPlanner can hold.
TypeOK ==
  /\ tebs \in Seq(Teb)
  /\ classes \in Seq(EqRels)
  /\ {best, last_best, initial_teb} \subseteq Tebs \cup {None}
  /\ {best_class, initial_class, initial_plan} \subseteq Sigs \cup {None}
  /\ since_switch \in 0..(BlockingPeriod + 1)
  /\ infeasible \subseteq Tebs /\ pending \subseteq Tebs
  /\ it \in 0..(MaxClasses + 1)
  /\ pc \in Phases

\* The planner never holds more candidates than max_number_classes, whichever
\* way they came in: kept from the last cycle, from the initial plan, or found
\* on a path of the graph.
AtMostMaxClasses == Len(tebs) <= MaxClasses

\* A TEB is held at most once; removing one by pointer removes all of it.
NoTebTwice == \A i, j \in DOMAIN tebs : tebs[i].id = tebs[j].id => i = j

\* The two containers never get out of step by more than one, and there are
\* never more classes than TEBs: loops over equivalence_classes_ that index
\* tebs_ (updateReferenceTrajectoryViaPoints) stay inside tebs_.  They differ
\* only when the best TEB, which is kept whatever its class, has an invalid
\* H-signature.
Reanalyzed == pc \notin {"renew", "reanalyze"}
ContainersInStep ==
  Reanalyzed =>
    /\ Len(classes) \in {Len(tebs) - 1, Len(tebs)}
    /\ Len(classes) # Len(tebs) => best_class \notin ValidSigs /\ best_class # None

\* Whenever the containers have the same size, the i-th class is the class of
\* the i-th TEB: through the swap of the best TEB, the erasures of three loops
\* and the removals of the feasibility check.
ClassesMatchTebs ==
  Reanalyzed /\ Len(classes) = Len(tebs) =>
    \A i \in DOMAIN tebs : classes[i].sig = tebs[i].sig

\* While the best TEB is in the container and its class is a valid one, there
\* are no more TEBs in its class than max_number_plans_in_current_class, and
\* always room for itself.  A best TEB of an invalid class is kept without its
\* class being stored, so several TEBs of classes similar to that one, but not
\* to each other, may come in beyond the number (HSignature3d::isEqual accepts
\* signatures that are not valid).
ClassesStored == pc \in {"detours", "drop", "inject", "explore", "via", "optimize", "select"}
CurrentClassBounded ==
  ClassesStored /\ InContainer(best) /\ best_class \in ValidSigs =>
    NumTebsInBestTebClass <= IF MaxPlansInCurrentClass = 0 THEN 1 ELSE MaxPlansInCurrentClass

\* Once plan() returns, the selected TEB is one of the container, and there is
\* none only if no candidate has a finite cost.
SelectionIsACandidate ==
  pc = "planned" => IF best = None THEN Candidates = {} ELSE InContainer(best)

\* When isTrajectoryFeasible() returns true, the TEB that getVelocityCommand()
\* will use is the one that was checked, although removals may have left a
\* single TEB, which bestTeb() returns without looking at best_teb_.
CheckedTebIsCommanded ==
  pc = "accepted" => BestTeb = best /\ best \notin infeasible /\ InContainer(best)

\* The TEB that was best survives exploration: neither the duplicate check, the
\* detour check, the random drops nor a full container removes it, so its
\* hysteresis always counts in the selection.
BestSurvivesExploration ==
  [][pc \notin {"idle", "checking"} /\ InContainer(best) /\ pc' # "idle"
       => \E i \in DOMAIN tebs' : tebs'[i].id = best]_vars

\* As long as the last best TEB is there, plan() leaves it only after the
\* blocking period, and only for a TEB that beats its hysteresis.
SwitchIsEarned ==
  [][pc = "select" /\ InContainer(best) /\ best' # best =>
       /\ since_switch > BlockingPeriod
       /\ since_switch' = 0
       /\ \A i, j \in Candidates :
            tebs[i].id = best /\ tebs[j].id = best' => Rank(tebs[j]) < Rank(tebs[i])]_vars

\* Every planning call ends in a selection, and every feasibility check in a
\* verdict, whichever TEBs the detour check erases and the footprint rejects.
\* A check of containers that differ in size is left out: removeTeb() refuses
\* there, and the loop need not end.
CallsReturn ==
  /\ pc = "renew" ~> pc = "planned"
  /\ pc = "checking" /\ Len(classes) = Len(tebs) ~> pc \in {"accepted", "rejected"}
=============================================================================
