---------------------------- MODULE ControlCycle ----------------------------
(***************************************************************************)
(* One call of TebLocalPlannerROS::computeVelocityCommands() after the     *)
(* other, and what runs between and beside them: the owner of the route    *)
(* (scope, station envelope, commit, discard, goal check), the dynamic     *)
(* reconfiguration, and the callback of the custom via-points.             *)
(*                                                                         *)
(* A call holds the config mutex from its first step to its last, so the   *)
(* owner and the reconfiguration run between two calls.  The callback of   *)
(* the via-points holds only via_point_mutex_, which a call does not take  *)
(* when it writes the container: the two interleave.                       *)
(*                                                                         *)
(* The planner is what PlannerInterface lets a caller see: an answer, its  *)
(* divergence, its feasibility, and a request for a velocity.  The         *)
(* costmap is, for one cycle, the set of commands whose swept arc is free. *)
(* Speeds are whole units; the lateral speed is 0 (surge and yaw, or a     *)
(* car).  TerminalObservation, GlobalPlan and CommandContinuity hold the   *)
(* detail of the arrival, the local plan and the times of the continuity:  *)
(* here a cycle finds its clock set or not, and the accepted reference     *)
(* some time old, of which at most one period counts.                      *)
(***************************************************************************)
EXTENDS CommandSelection, Sequences, FiniteSets, FiniteSetsExt

CONSTANTS
  Scenes,         \* bound: the configurations, requests, scopes, envelopes,
                  \* messages, answers of the costmap and first readings of the
                  \* clock that meet in one behaviour
  Period,         \* command_period_sec_
  Capacity, Epsilon,  \* of the failure detector
  MinDuration,    \* oscillation_recovery_min_duration, in ticks
  MaxBack,        \* bound: how far the clock jumps back
  MaxFailures     \* bound: no_infeasible_plans_ stays there

Detector == INSTANCE FailureDetector

ASSUME CycleAssumption ==
  {Period, Capacity, Epsilon, MinDuration, MaxBack, MaxFailures} \subseteq Nat

Commands == [surge : Int, yaw : Int]
Robots == [forward : Nat, backward : Nat, trans : Nat, angular : Nat,
           acc : Nat, angular_acc : Nat, proportional : BOOLEAN, car : BOOLEAN,
           radius : Nat]
Scopes == [enabled : BOOLEAN, reverse : Nat]
Envelopes == [enabled : BOOLEAN, limit : Nat]

ASSUME SceneAssumption ==
  \A s \in Scenes :
    /\ \A c \in s.configs : c.robot \in Robots
    /\ s.requests \subseteq Commands
    /\ s.scopes \subseteq Scopes /\ s.envelopes \subseteq Envelopes
    /\ s.messages \subseteq {"custom", "none"} /\ s.ages \subseteq Int

VARIABLES
  scene,        \* the scene of this behaviour
  cfg,          \* the configuration last written by initialize() or reconfigure()
  robot,        \* cfg_.robot, which a cycle narrows and restores
  saved,        \* local: RestoreRobot::saved
  scope,        \* the command scope: enabled, and command_reverse_limit_
  envelope,     \* station_envelope_: enabled, and surge_limit
  available,    \* available_ of command_continuity_
  previous,     \* previous_ of command_continuity_
  pc,           \* where computeVelocityCommands() is
  goal_reached, \* goal_reached_
  accepted,     \* local: command_accepted
  output,       \* cmd_vel, and between two cycles what the owner may still commit
  world,        \* local: what this cycle's SweptFootprint answers
  last_cmd,     \* last_cmd_
  failures,     \* no_infeasible_plans_
  preferences,  \* prefer_rotdir_ of the trajectories the planner holds
  buffer,       \* buffer_ of failure_detector_
  oscillating,  \* oscillating_ of failure_detector_
  since,        \* time since time_last_oscillation_, at most MinDuration
  rotdir,       \* last_preferred_rotdir_
  via,          \* the points via_points_ holds
  active,       \* custom_via_points_active_
  callback,     \* where customViaPointsCB() is
  settled,      \* history: a recovery had been over for its minimum duration
  overlapped    \* history: the callback ran between the check and the refill

ownerVars == <<scope, envelope>>
historyVars == <<available, previous>>
commandVars == <<goal_reached, accepted, output, world>>
recoveryVars == <<buffer, oscillating, since, rotdir, settled>>
viaVars == <<via, active, callback, overlapped>>
vars == <<scene, cfg, robot, saved, ownerVars, historyVars, pc, commandVars, last_cmd, failures,
          preferences, recoveryVars, viaVars>>

Zero == [surge |-> 0, yaw |-> 0]
NoWorld == [feasible |-> FALSE, valid |-> FALSE, padded |-> FALSE,
            overlap |-> FALSE, free |-> {}]
NoScope == [enabled |-> FALSE, reverse |-> 0]
NoEnvelope == [enabled |-> FALSE, limit |-> 0]
Routes == [behind : BOOLEAN, side : {-1, 1}]

Abs(x) == IF x < 0 THEN -x ELSE x
Sign(x) == IF x < 0 THEN -1 ELSE 1

\* The model of the robot that the arc check of a command covers.
Supported(r) == ~r.car

-----------------------------------------------------------------------------
(* The speed limits of a cycle, and the commands they allow.               *)

\* What the scope and the envelope leave of the configured robot.
Narrowed(r, s, e) ==
  LET scoped == IF s.enabled
                THEN [r EXCEPT !.backward = Lower(@, s.reverse)] ELSE r
  IN  IF e.enabled
      THEN [scoped EXCEPT !.forward = Lower(@, e.limit),
                          !.backward = Lower(@, e.limit),
                          !.proportional = TRUE]
      ELSE scoped

\* x * num / den, rounded towards zero.
Scale(x, num, den) == (IF x < 0 THEN -1 ELSE 1) * ((Abs(x) * num) \div den)

\* The limit one component exceeds, as a ratio <<limit, speed>>.
SurgeRatio(c, r) ==
  IF c.surge > r.forward THEN <<r.forward, c.surge>>
  ELSE IF -c.surge > r.backward THEN <<r.backward, -c.surge>> ELSE <<1, 1>>
YawRatio(c, r) ==
  IF Abs(c.yaw) > r.angular THEN <<r.angular, Abs(c.yaw)>> ELSE <<1, 1>>

SaturateVelocity(c, r, e) ==
  LET x == SurgeRatio(c, r)
      w == YawRatio(c, r)
      least == IF x[1] * w[2] < w[1] * x[2] THEN x ELSE w
      scaled == IF r.proportional
                THEN [surge |-> Scale(c.surge, least[1], least[2]),
                      yaw |-> Scale(c.yaw, least[1], least[2])]
                ELSE [surge |-> Scale(c.surge, x[1], x[2]),
                      yaw |-> Scale(c.yaw, w[1], w[2])]
      speed == Abs(scaled.surge)
  IN IF speed > r.trans
     THEN [surge |-> Scale(scaled.surge, r.trans, speed),
           yaw |-> IF e.enabled THEN Scale(scaled.yaw, r.trans, speed) ELSE scaled.yaw]
     ELSE scaled

ForwardLimit(r) == Lower(r.forward, r.trans)
ReverseLimit(r) == Lower(r.backward, r.trans)

\* Mutant: the continuity is given the configured limits, not those of the cycle.
SelectionLimitsMutNominal(r) ==
  [forward |-> ForwardLimit(saved), reverse |-> ReverseLimit(saved), angular |-> r.angular]

SelectionLimits(r) ==
  [forward |-> ForwardLimit(r), reverse |-> ReverseLimit(r), angular |-> r.angular]

\* shape_command: in a scope, a request becomes what CommandContinuity selects
\* around the accepted reference.  budget is the time that counts since the
\* reference was accepted: 0 when that was not before now, or too long ago.
Restarts(c, budget) == c = Zero \/ ~available \/ budget = 0

Shapable(c, clock_set, budget) ==
  scope.enabled =>
    /\ robot.acc > 0 /\ robot.angular_acc > 0 /\ clock_set
    /\ \/ Restarts(c, budget)
       \/ Fits(previous, robot.acc * budget, robot.angular_acc * budget,
               SelectionLimits(robot))

Shaped(c, budget) ==
  IF ~scope.enabled THEN c
  ELSE IF Restarts(c, budget) THEN Zero
  ELSE Clamp(c, previous, robot.acc * budget, robot.angular_acc * budget,
             SelectionLimits(robot))

\* Mutant: the recovery tries the configured speeds, not those of the cycle.
CandidatesMutNominal(r, route, u) ==
  LET ahead == IF route.behind THEN -cfg.robot.backward ELSE cfg.robot.forward
      turn == (IF u.yaw # 0 THEN Sign(u.yaw) ELSE route.side) * r.angular
  IN <<u, [surge |-> ahead, yaw |-> u.yaw], [surge |-> ahead, yaw |-> 0],
       [surge |-> ahead, yaw |-> turn], [surge |-> 0, yaw |-> turn]>>

\* The candidates of the contact recovery, in the order they are tried.
Candidates(r, route, u) ==
  LET ahead == IF route.behind THEN -ReverseLimit(r) ELSE ForwardLimit(r)
      other == IF route.behind THEN ForwardLimit(r) ELSE -ReverseLimit(r)
      turn == (IF u.yaw # 0 THEN Sign(u.yaw) ELSE route.side) * r.angular
      Turns(x) == <<[surge |-> x, yaw |-> u.yaw], [surge |-> x, yaw |-> 0],
                    [surge |-> x, yaw |-> turn], [surge |-> x, yaw |-> -turn]>>
  IN <<u>> \o Turns(ahead) \o Turns(Scale(ahead, 1, 2))
     \o Turns(other) \o Turns(Scale(other, 1, 2))
     \o <<[surge |-> 0, yaw |-> turn], [surge |-> 0, yaw |-> -turn]>>

\* convertTransRotVelToSteeringAngle(): 0 when the car stands or drives
\* straight, otherwise to the side of the turn, and not beyond the angle of
\* the smallest radius.
SteeringAngle(c, r) ==
  IF c.surge = 0 \/ c.yaw = 0 THEN 0
  ELSE Sign(c.surge) * Sign(c.yaw)
       * (IF Abs(c.surge) < r.radius * Abs(c.yaw) THEN 2 ELSE 1)

-----------------------------------------------------------------------------
(* Leaving a cycle.                                                        *)

\* A return without a command that leaves the planner as it is.
Return == pc' = "returning" /\ UNCHANGED <<accepted, output, failures, preferences>>

\* clearPlanner(): the class planner drops its trajectories, and with them
\* their preferences; the single planner empties its band and keeps its own.
Cleared == IF cfg.classes THEN {} ELSE preferences

\* An infeasible trajectory: it is forgotten and counted.
Reject ==
  /\ pc' = "returning"
  /\ failures' = Lower(failures + 1, MaxFailures)
  /\ preferences' = Cleared
  /\ UNCHANGED <<accepted, output>>

Accept(c) ==
  /\ pc' = "returning"
  /\ accepted' = TRUE /\ output' = c /\ failures' = 0
  /\ UNCHANGED preferences

-----------------------------------------------------------------------------
(* computeVelocityCommands().                                              *)

\* Up to goal_reached_ = false: the limits are narrowed, or the cycle refused.
\* The reverse cap of the scope precedes the check of the envelope.
BeginCycle ==
  LET refused == \/ scope.enabled /\ ~Supported(robot)
                 \/ envelope.enabled /\ (cfg.classes \/ ~Supported(robot))
  IN
  /\ pc = "idle"
  /\ saved' = robot
  /\ output' = Zero /\ accepted' = FALSE
  /\ pc' = IF refused THEN "returning" ELSE "locate"
  /\ robot' = IF ~refused THEN Narrowed(robot, scope, envelope)
              ELSE IF Supported(robot) THEN Narrowed(robot, scope, NoEnvelope)
              ELSE robot
  /\ goal_reached' = (refused /\ goal_reached)
  /\ UNCHANGED <<scene, cfg, ownerVars, historyVars, world, last_cmd, failures,
                 preferences, recoveryVars, viaVars>>

\* The pose of the robot and the local plan, which is not empty; GlobalPlan
\* has the detail.
Locate(found) ==
  /\ pc = "locate"
  /\ IF found
     THEN pc' = "via" /\ UNCHANGED <<accepted, output, failures, preferences>>
     ELSE Return
  /\ UNCHANGED <<scene, cfg, robot, saved, ownerVars, historyVars, goal_reached, world,
                 last_cmd, recoveryVars, viaVars>>

\* Mutant: the cycle takes the via-points of the plan, custom ones or not.
CheckViaPointsMutAlways ==
  /\ pc = "via"
  /\ pc' = "refill"
  /\ overlapped' = (overlapped \/ (~active /\ callback # "idle"))
  /\ UNCHANGED <<scene, cfg, robot, saved, ownerVars, historyVars, commandVars,
                 last_cmd, failures, preferences, recoveryVars, via, active, callback>>

CheckViaPoints ==
  /\ pc = "via"
  /\ pc' = IF active THEN "goal" ELSE "refill"
  /\ overlapped' = (overlapped \/ (~active /\ callback # "idle"))
  /\ UNCHANGED <<scene, cfg, robot, saved, ownerVars, historyVars, commandVars,
                 last_cmd, failures, preferences, recoveryVars, via, active, callback>>

\* updateViaPointsContainer(): the flag is not read again.
UpdateViaPointsContainer ==
  /\ pc = "refill"
  /\ pc' = "goal"
  /\ via' = IF cfg.plan_via THEN "plan" ELSE "none"
  /\ UNCHANGED <<scene, cfg, robot, saved, ownerVars, historyVars, commandVars,
                 last_cmd, failures, preferences, recoveryVars, active, callback,
                 overlapped>>

\* The goal check; TerminalObservation has the detail.
CheckGoal(reached, persistent) ==
  /\ pc = "goal"
  /\ goal_reached' = reached
  /\ IF reached /\ ~persistent
     THEN pc' = "returning" /\ accepted' = TRUE
     ELSE pc' = "modes" /\ UNCHANGED accepted
  /\ UNCHANGED <<scene, cfg, robot, saved, ownerVars, historyVars, output, world,
                 last_cmd, failures, preferences, recoveryVars, viaVars>>

\* Mutant: a recovery that expires is not reported to the planner.
ToldMutNotExpired(dir) ==
  IF preferences = {} THEN {} ELSE IF dir = "none" THEN preferences ELSE {dir}

\* setPreferredTurningDir(): the class planner tells the trajectories it has.
Told(dir) == IF preferences = {} THEN {} ELSE {dir}

\* The last command, against the limits of this cycle.
LastMeasurement ==
  LET reach == IF last_cmd.surge >= 0 THEN robot.forward ELSE robot.backward
      radius == IF robot.car /\ reach > 0
                THEN Max({reach \div robot.radius, robot.angular}) ELSE robot.angular
  IN Detector!Measurement(last_cmd, robot.forward, robot.backward, radius)

\* Mutant: a direction is withdrawn as soon as the robot stops oscillating.
NextDirectionMutAtOnce(found, left) ==
  IF found
  THEN IF since < MinDuration THEN rotdir ELSE IF left THEN "left" ELSE "right"
  ELSE "none"

\* The direction to prefer, once the detector has decided.
NextDirection(found, left) ==
  IF since < MinDuration THEN rotdir
  ELSE IF found THEN IF left THEN "left" ELSE "right"
  ELSE "none"

\* Mutant: an activated recovery renews itself.
NextSinceMutRenewed(found) == IF found \/ rotdir # "none" THEN 0 ELSE since

NextSince(found) == IF found THEN 0 ELSE since

\* configureBackupModes(), the oscillation recovery.  The branch of the
\* reduced horizon is dead code (HorizonNeverShrinks in GlobalPlanProofs).
ConfigureBackupModes(left) ==
  LET longer == Detector!Update(buffer, LastMeasurement)
      found == Detector!Oscillates(longer)
      dir == NextDirection(found, left)
  IN
  /\ pc = "modes"
  /\ pc' = "plan"
  /\ IF cfg.recovery
     THEN /\ buffer' = longer /\ oscillating' = found
          /\ rotdir' = dir
          /\ since' = NextSince(found)
          /\ preferences' = IF found \/ dir # rotdir THEN Told(dir) ELSE preferences
          /\ settled' = (settled \/ since >= MinDuration)
     ELSE UNCHANGED <<recoveryVars, preferences>>
  /\ UNCHANGED <<scene, cfg, robot, saved, ownerVars, historyVars, commandVars,
                 last_cmd, failures, viaVars>>

\* plan() and hasDiverged().  The class planner explores: it may lose
\* trajectories and find new ones, which prefer nothing.
Plan(found, kept, fresh) ==
  /\ pc = "plan"
  /\ IF found
     THEN /\ pc' = "check"
          /\ preferences' = IF cfg.classes
                            THEN kept \cup (IF fresh THEN {"none"} ELSE {})
                            ELSE preferences
          /\ UNCHANGED <<accepted, output, failures>>
     ELSE Reject
  /\ UNCHANGED <<scene, cfg, robot, saved, ownerVars, historyVars, goal_reached, world,
                 last_cmd, recoveryVars, viaVars>>

\* contact_recovery: a trajectory that fails later may start with a command
\* that leaves the contact.
ContactRecovery(w) ==
  ~w.feasible /\ w.valid /\ Supported(robot) /\ (w.overlap \/ w.padded)

CheckFeasibility(w) ==
  /\ pc = "check"
  /\ preferences = {} => ~w.feasible
  /\ IF w.feasible \/ ContactRecovery(w)
     THEN /\ pc' = "select" /\ world' = w
          /\ UNCHANGED <<accepted, output, failures, preferences>>
     ELSE Reject /\ UNCHANGED world
  /\ UNCHANGED <<scene, cfg, robot, saved, ownerVars, historyVars, goal_reached,
                 last_cmd, recoveryVars, viaVars>>

\* Mutant: the candidate is commanded as it was before it was shaped.
RecoveredMutUnshaped(c, budget) == c

\* The command a candidate of the recovery becomes.
Recovered(c, budget) == Shaped(c, budget)

\* Contact recovery: the first candidate whose shaped arc is free.
Recover(u, route, clock_set, budget) ==
  LET tried == Candidates(robot, route, u)
      free == {i \in DOMAIN tried :
                 /\ tried[i] # Zero
                 /\ Shapable(tried[i], clock_set, budget)
                 /\ Shaped(tried[i], budget) \in world.free}
  IN IF free = {} THEN Return
     ELSE \E i \in free : /\ \A j \in free : i <= j
                         /\ Accept(Recovered(tried[i], budget))

\* From the velocity of the planner to the command.  The continuity reads its
\* clock once, for the request and for every candidate.
SelectCommand(request, route, clock_set, budget) ==
  LET u == SaturateVelocity(request, robot, envelope)
      c == Shaped(u, budget)
  IN
  /\ pc = "select"
  /\ IF ~Shapable(u, clock_set, budget) THEN Return
     ELSE IF ~Supported(robot) THEN Accept([c EXCEPT !.yaw = SteeringAngle(c, robot)])
     ELSE IF c \in world.free THEN Accept(c)
     ELSE IF ~world.feasible \/ world.overlap THEN Recover(u, route, clock_set, budget)
     ELSE Return
  /\ UNCHANGED <<scene, cfg, robot, saved, ownerVars, historyVars, goal_reached, world,
                 last_cmd, recoveryVars, viaVars>>

\* getVelocityCommand() fails, or the steering angle is not finite.
RejectCommand ==
  /\ pc = "select"
  /\ Reject
  /\ UNCHANGED <<scene, cfg, robot, saved, ownerVars, historyVars, goal_reached, world,
                 last_cmd, recoveryVars, viaVars>>

\* Mutant: only a cycle with a command restores the limits.
RestoredMutAccepted == IF accepted THEN saved ELSE robot

\* ~RestoreRobot().
Restored == saved

\* command_continuity_.reset().
Reset == available' = FALSE /\ previous' = Zero

\* ~RestoreRobot() and ~FinishCommand(), on every return; a clock that went
\* back withdraws the command.  A cycle without a command ends the history.
FinishCycle(in_time) ==
  /\ pc = "returning"
  /\ pc' = "idle"
  /\ robot' = Restored
  /\ IF accepted /\ in_time
     THEN UNCHANGED <<output, historyVars>>
     ELSE output' = Zero /\ Reset
  /\ last_cmd' = output'
  /\ accepted' = FALSE /\ world' = NoWorld
  /\ UNCHANGED <<scene, cfg, saved, ownerVars, goal_reached, failures, preferences,
                 recoveryVars, viaVars>>

-----------------------------------------------------------------------------
(* Between two cycles: the owner of the route and the configuration.       *)

\* The same request keeps its history, with whatever reverse cap; any other
\* scope, or none, ends it, and its owner drops the proposal.
SetCommandScope(s, same_request) ==
  LET granted == s.enabled /\ Supported(robot)
  IN
  /\ pc = "idle"
  /\ same_request => scope.enabled
  /\ scope' = IF granted THEN s ELSE NoScope
  /\ IF granted /\ same_request
     THEN UNCHANGED <<output, historyVars>>
     ELSE output' = Zero /\ Reset
  /\ UNCHANGED <<scene, cfg, robot, saved, envelope, pc, goal_reached, accepted, world,
                 last_cmd, failures, preferences, recoveryVars, viaVars>>

SetStationEnvelope(e) ==
  /\ pc = "idle"
  /\ e.enabled => ~cfg.classes /\ Supported(robot)
  /\ envelope' = e
  /\ UNCHANGED <<scene, cfg, robot, saved, scope, historyVars, pc, commandVars,
                 last_cmd, failures, preferences, recoveryVars, viaVars>>

\* commitCommand(): of the proposal, once, or of a stop; in time or expired,
\* and with a clock that may stand at 0.  Without a scope it returns at once.
CommitCommand(c, in_time, clock_set) ==
  /\ pc = "idle" /\ scope.enabled
  /\ available' = clock_set
  /\ previous' = IF in_time /\ clock_set THEN c ELSE Zero
  /\ last_cmd' = previous'
  /\ output' = Zero
  /\ UNCHANGED <<scene, cfg, robot, saved, ownerVars, pc, goal_reached, accepted,
                 world, failures, preferences, recoveryVars, viaVars>>

DiscardCommand ==
  /\ pc = "idle"
  /\ Reset
  /\ last_cmd' = Zero /\ output' = Zero
  /\ UNCHANGED <<scene, cfg, robot, saved, ownerVars, pc, goal_reached, accepted,
                 world, failures, preferences, recoveryVars, viaVars>>

\* isGoalReached() of a goal that is not persistent.
IsGoalReached ==
  /\ pc = "idle" /\ goal_reached
  /\ Reset
  /\ last_cmd' = Zero /\ output' = Zero
  /\ preferences' = Cleared
  /\ UNCHANGED <<scene, cfg, robot, saved, ownerVars, pc, goal_reached, accepted,
                 world, failures, recoveryVars, viaVars>>

\* reconfigureCB(): another configuration of the same planner and robot.
Reconfigure(c) ==
  /\ pc = "idle"
  /\ cfg' = c /\ robot' = c.robot
  /\ UNCHANGED <<scene, saved, ownerVars, historyVars, pc, commandVars, last_cmd,
                 failures, preferences, recoveryVars, viaVars>>

-----------------------------------------------------------------------------
(* Beside the cycles: custom via-points, and the clock.                    *)

\* customViaPointsCB(), up to the points.
ReceiveViaPoints(points) ==
  /\ callback = "idle"
  /\ IF cfg.plan_via
     THEN active' = FALSE /\ UNCHANGED <<via, callback, overlapped>>
     ELSE /\ via' = points /\ callback' = points
          /\ overlapped' = (pc = "refill")
          /\ UNCHANGED active
  /\ UNCHANGED <<scene, cfg, robot, saved, ownerVars, historyVars, pc, commandVars,
                 last_cmd, failures, preferences, recoveryVars>>

\* customViaPointsCB(), the flag.
ActivateViaPoints ==
  /\ callback # "idle"
  /\ callback' = "idle"
  /\ active' = (via # "none")
  /\ overlapped' = (overlapped \/ pc = "refill")
  /\ UNCHANGED <<scene, cfg, robot, saved, ownerVars, historyVars, pc, commandVars,
                 last_cmd, failures, preferences, recoveryVars, via>>

Tick ==
  /\ since < MinDuration
  /\ since' = since + 1
  /\ UNCHANGED <<scene, cfg, robot, saved, ownerVars, historyVars, pc, commandVars,
                 last_cmd, failures, preferences, buffer, oscillating, rotdir, settled,
                 viaVars>>

\* A simulated clock starts again.
JumpBack(t) ==
  /\ t < since
  /\ since' = t /\ settled' = FALSE
  /\ UNCHANGED <<scene, cfg, robot, saved, ownerVars, historyVars, pc, commandVars,
                 last_cmd, failures, preferences, buffer, oscillating, rotdir,
                 viaVars>>

-----------------------------------------------------------------------------
(* The specification.                                                      *)

\* time_last_oscillation_ is 0 at first: long ago for a clock of the day, just
\* now for a simulated one.
Init ==
  /\ scene \in Scenes /\ cfg \in scene.configs /\ robot = cfg.robot /\ saved = cfg.robot
  /\ scope = NoScope /\ envelope = NoEnvelope /\ available = FALSE /\ previous = Zero
  /\ pc = "idle" /\ goal_reached = FALSE /\ accepted = FALSE
  /\ output = Zero /\ world = NoWorld /\ last_cmd = Zero /\ failures = 0
  /\ preferences = IF cfg.classes THEN {} ELSE {"none"}
  /\ buffer = <<>> /\ oscillating = FALSE
  /\ since \in scene.ages /\ rotdir = "none" /\ settled = FALSE
  /\ via = "none" /\ active = FALSE /\ callback = "idle" /\ overlapped = FALSE

Cycle ==
  \/ BeginCycle
  \/ \E found \in BOOLEAN : Locate(found)
  \/ CheckViaPoints \/ UpdateViaPointsContainer
  \/ \E reached, persistent \in BOOLEAN : CheckGoal(reached, persistent)
  \/ \E left \in BOOLEAN : ConfigureBackupModes(left)
  \/ \E found, fresh \in BOOLEAN, kept \in SUBSET preferences : Plan(found, kept, fresh)
  \/ \E w \in scene.worlds : CheckFeasibility(w)
  \/ \E request \in scene.requests, route \in Routes, clock_set \in BOOLEAN,
        budget \in 0 .. Period :
       SelectCommand(request, route, clock_set, budget)
  \/ RejectCommand
  \/ \E in_time \in BOOLEAN : FinishCycle(in_time)

Owner ==
  \/ \E s \in scene.scopes, same_request \in BOOLEAN : SetCommandScope(s, same_request)
  \/ \E e \in scene.envelopes : SetStationEnvelope(e)
  \/ \E c \in {Zero, output}, in_time, clock_set \in BOOLEAN :
       CommitCommand(c, in_time, clock_set)
  \/ DiscardCommand \/ IsGoalReached
  \/ \E c \in scene.configs : Reconfigure(c)

Callback ==
  \/ \E points \in scene.messages : ReceiveViaPoints(points)
  \/ ActivateViaPoints

\* Only the recovery reads this time: without it, the clock is not looked at.
Clock == cfg.recovery /\ (Tick \/ \E t \in -MaxBack .. 0 : JumpBack(t))

Next == Cycle \/ Owner \/ Callback \/ Clock

\* Time passes.  That cycles come to their backup modes is not for this code to
\* promise: RecoveryEnds assumes it.
Spec == Init /\ [][Next]_vars /\ WF_vars(Tick)

-----------------------------------------------------------------------------
(* Properties.                                                             *)

\* A robot that the arc check covers is given no velocity but one whose swept
\* arc was found free in the same cycle, from the pose of that cycle: not the
\* request, not an unshaped candidate, and not a command saturated afterwards.
CommandIsChecked ==
  pc = "returning" /\ accepted /\ output # Zero /\ Supported(robot) =>
    output \in world.free

\* Whatever selected the command (the optimizer, the contact recovery, or the
\* continuity, which keeps close to a reference that may have been accepted
\* under wider limits), it obeys the configured limits and every cap in force,
\* the reverse cap of the scope and the surge cap of the station envelope.
CapsAreObeyed ==
  pc = "returning" /\ accepted =>
    /\ output.surge \in -cfg.robot.backward .. cfg.robot.forward
    /\ Supported(robot) => output.yaw \in -cfg.robot.angular .. cfg.robot.angular
    /\ scope.enabled => output.surge >= -scope.reverse
    /\ envelope.enabled => output.surge \in -envelope.limit .. envelope.limit

\* A cap lasts no longer than its cycle: when no call runs, cfg_.robot is what
\* the last reconfiguration wrote, whichever way the calls before returned.
CapsAreLifted == pc = "idle" => robot = cfg.robot

\* Custom via-points that were activated stay in the container until the next
\* message, unless their callback ran between the check of a cycle and its
\* refill (there they are lost while the flag says that they are active).
CustomViaPointsKept ==
  active /\ callback = "idle" /\ ~overlapped => via = "custom"

\* While the detector reports an oscillation the planner is asked to prefer a
\* direction, except before the clock has run for the minimum duration once
\* since it started or was set back.
RecoveryHasDirection == oscillating /\ settled => rotdir # "none"

\* No trajectory keeps the preference of an earlier recovery: those that
\* prefer a direction prefer the current one.
PreferencesExpire == preferences \subseteq {"none", rotdir}

\* A robot that has stopped oscillating for good gets rid of the preference,
\* as long as cycles come as far as the backup modes and the clock is not set
\* back for ever.
RecoveryEnds ==
  /\ <>[](cfg.recovery /\ ~oscillating)
  /\ []<>(pc = "modes") /\ []<>(pc = "plan")
  /\ <>[][\A t \in -MaxBack .. 0 : ~JumpBack(t)]_vars
  => <>[](rotdir = "none")
=============================================================================
