-------------------------- MODULE CommandContinuity --------------------------
(***************************************************************************)
(* The accepted command reference (command_continuity.h) and the calls of  *)
(* TebLocalPlannerROS that propose, commit and discard commands            *)
(* (teb_local_planner_ros.cpp).                                            *)
(*                                                                         *)
(* computeVelocityCommands() proposes a command; the owner of the route    *)
(* then commits it, once, or discards it.  Every call holds the config     *)
(* mutex: only the clock moves between its steps, and the clock of ROS may *)
(* stand at 0 and may jump back.  Times are whole units of ros::Time, and  *)
(* speeds whole units, so that acceleration times elapsed time is exact.   *)
(***************************************************************************)
EXTENDS CommandSelection

CONSTANTS
  Routes,      \* request identifiers together with their route frame
  Horizons,    \* values of nominal_horizon
  Period,      \* command_period_sec_
  Acc,         \* acc_lim_x
  AngularAcc,  \* acc_lim_theta
  Requests,    \* bound: commands the optimizer or the contact recovery asks for
  Limits,      \* bound: speed limits in force in a cycle
  MaxTime      \* bound: the clock

None == "none"  \* the empty scope

ASSUME ConstantsAssumption ==
  /\ None \notin Routes
  /\ Horizons \subseteq Nat
  /\ Period \in Nat \ {0} /\ Acc \in Nat \ {0} /\ AngularAcc \in Nat \ {0}
  /\ Requests \subseteq [surge : Int, yaw : Int]
  /\ Limits \subseteq [forward : Nat, reverse : Nat, angular : Nat]
  /\ MaxTime \in Nat

VARIABLES
  scope,        \* scope_ of the continuity; None: disabled
  horizon,      \* horizon_
  available,    \* available_
  stamp,        \* stamp_
  previous,     \* previous_
  clock,        \* ros::Time::now()
  phase,        \* where computeVelocityCommands() is
  now,          \* command_time_ns_
  proposed,     \* command_proposal_ns_
  output,       \* cmd_vel, and last_cmd_ after the call
  limits,       \* the speed limits of the cycle that selected output
  owed,         \* the owner of the route: output awaits its one commit
  history_of    \* history: the scope in which previous was accepted

historyVars == <<available, stamp, previous, history_of>>
scopeVars == <<scope, horizon>>
vars == <<scopeVars, historyVars, clock, phase, now, proposed, output, limits, owed>>

Zero == [surge |-> 0, yaw |-> 0]
NoLimits == [forward |-> 0, reverse |-> 0, angular |-> 0]

Enabled == scope # None

-----------------------------------------------------------------------------
(* CommandContinuity.                                                      *)

Reset == available' = FALSE /\ stamp' = 0 /\ previous' = Zero /\ history_of' = None

\* Mutant: a new route takes over the history of the old one.
ConfigureMutKeepHistory(s, h) ==
  IF s = None \/ h < Period
  THEN scope' = None /\ UNCHANGED horizon /\ Reset
  ELSE scope' = s /\ horizon' = h /\ UNCHANGED historyVars

\* configure(): the horizon of a rejected or empty scope stays behind.
Configure(s, h) ==
  IF s = None \/ h < Period
  THEN scope' = None /\ UNCHANGED horizon /\ Reset
  ELSE /\ scope' = s /\ horizon' = h
       /\ IF s # scope \/ h # horizon THEN Reset ELSE UNCHANGED historyVars

\* Mutant: the elapsed-time budget accumulates over pauses.
BudgetMutAccumulates(elapsed) == elapsed

Budget(elapsed) == Lower(elapsed, Period)

\* select(), when it returns true: zero starts or restarts the history, and
\* history that is missing, too young or too old yields zero.
Restarts(c, t) ==
  \/ c = Zero
  \/ ~available \/ t <= stamp
  \/ t - stamp > horizon

\* Mutant: continuity history overrules a tighter speed limit.
FitsLimitsMutAlways(l, t) == TRUE

FitsLimits(l, t) ==
  Fits(previous, Acc * Budget(t - stamp), AngularAcc * Budget(t - stamp), l)

Clamped(c, l, t) ==
  Clamp(c, previous, Acc * Budget(t - stamp), AngularAcc * Budget(t - stamp), l)

Selectable(c, l, t) == t # 0 /\ (Restarts(c, t) \/ FitsLimits(l, t))

Selected(c, l, t) == IF Restarts(c, t) THEN Zero ELSE Clamped(c, l, t)

\* accept().
Accept(c, t) ==
  IF ~Enabled \/ t = 0 THEN Reset
  ELSE previous' = c /\ stamp' = t /\ available' = TRUE /\ history_of' = scope

\* commit(): what turns the command to zero.
Expired(t) ==
  \/ t = 0 \/ proposed = 0 \/ t < proposed \/ t - proposed > horizon
  \/ available /\ (t <= stamp \/ t - stamp > horizon)

-----------------------------------------------------------------------------
(* The calls of the owner of the route.                                    *)

\* setCommandScope(); an unsupported robot or invalid arguments disable it.
\* The owner drops a proposal of another scope: its final identity check.
SetCommandScope(s, h, supported) ==
  /\ phase = "idle"
  /\ Configure(IF supported THEN s ELSE None, h)
  /\ owed' = (owed /\ scopeVars' = scopeVars)
  /\ UNCHANGED <<clock, phase, now, proposed, output, limits>>

\* discardCommand().
DiscardCommand ==
  /\ phase = "idle"
  /\ Reset
  /\ output' = Zero /\ owed' = FALSE
  /\ UNCHANGED <<scopeVars, clock, phase, now, proposed, limits>>

\* commitCommand(): of the proposal, once, or of a stop at any time.
CommitCommand(c) ==
  /\ phase = "idle"
  /\ c = Zero \/ (owed /\ c = output)
  /\ owed' = FALSE
  /\ IF Enabled
     THEN LET accepted == IF Expired(clock) THEN Zero ELSE c
          IN  /\ now' = clock
              /\ Accept(accepted, clock)
              /\ output' = accepted
     ELSE UNCHANGED <<historyVars, now, output>>
  /\ UNCHANGED <<scopeVars, clock, phase, proposed, limits>>

-----------------------------------------------------------------------------
(* computeVelocityCommands().                                              *)

BeginCompute ==
  /\ phase = "idle"
  /\ phase' = "planning"
  /\ output' = Zero /\ limits' = NoLimits /\ owed' = FALSE
  /\ now' = clock /\ proposed' = clock
  /\ UNCHANGED <<scopeVars, historyVars, clock>>

\* The goal is reached: success, with a zero command.
Arrive ==
  /\ phase = "planning"
  /\ phase' = "accepted"
  /\ UNCHANGED <<scopeVars, historyVars, clock, now, proposed, output, limits, owed>>

\* Any return without a command before the selection.
GiveUp ==
  /\ phase = "planning"
  /\ phase' = "refused"
  /\ UNCHANGED <<scopeVars, historyVars, clock, now, proposed, output, limits, owed>>

\* The selection and its arc check; contact recovery selects from other
\* requests on the same history and at the same time.
SelectCommand(c, l, feasible) ==
  /\ phase = "planning"
  /\ now' = clock /\ proposed' = clock
  /\ limits' = l
  /\ IF feasible /\ (~Enabled \/ Selectable(c, l, clock))
     THEN phase' = "accepted" /\ output' = IF Enabled THEN Selected(c, l, clock) ELSE c
     ELSE phase' = "refused" /\ output' = c
  /\ UNCHANGED <<scopeVars, historyVars, clock, owed>>

FinishedInTime == clock >= now

\* ~FinishCommand(), on every return.
FinishCompute ==
  /\ phase \in {"accepted", "refused"}
  /\ phase' = "idle"
  /\ now' = clock
  /\ IF phase = "accepted" /\ FinishedInTime
     THEN owed' = TRUE /\ UNCHANGED <<historyVars, output>>
     ELSE owed' = FALSE /\ output' = Zero /\ Reset
  /\ UNCHANGED <<scopeVars, clock, proposed, limits>>

-----------------------------------------------------------------------------
(* The clock, and the specification.                                       *)

Tick ==
  /\ clock < MaxTime
  /\ clock' = clock + 1
  /\ UNCHANGED <<scopeVars, historyVars, phase, now, proposed, output, limits, owed>>

JumpBack(t) ==
  /\ t < clock
  /\ clock' = t
  /\ UNCHANGED <<scopeVars, historyVars, phase, now, proposed, output, limits, owed>>

Init ==
  /\ scope = None /\ horizon = 0
  /\ available = FALSE /\ stamp = 0 /\ previous = Zero /\ history_of = None
  /\ clock = 0 /\ phase = "idle"
  /\ now = 0 /\ proposed = 0
  /\ output = Zero /\ limits = NoLimits /\ owed = FALSE

Owner ==
  \/ \E s \in Routes \cup {None}, h \in Horizons, supported \in BOOLEAN :
       SetCommandScope(s, h, supported)
  \/ DiscardCommand
  \/ \E c \in {Zero, output} : CommitCommand(c)

Compute ==
  \/ BeginCompute \/ Arrive \/ GiveUp
  \/ \E c \in Requests, l \in Limits, feasible \in BOOLEAN : SelectCommand(c, l, feasible)
  \/ FinishCompute

Next == Owner \/ Compute \/ Tick \/ \E t \in 0..MaxTime : JumpBack(t)

Spec == Init /\ [][Next]_vars

-----------------------------------------------------------------------------
(* Properties.                                                             *)

Commands == [surge : Int, yaw : Int]

\* The values every variable takes; no history without a scope and a time.
TypeOK ==
  /\ scope \in Routes \cup {None} /\ horizon \in Nat
  /\ available \in BOOLEAN /\ stamp \in 0..MaxTime /\ previous \in Commands
  /\ clock \in 0..MaxTime
  /\ phase \in {"idle", "planning", "accepted", "refused"}
  /\ now \in 0..MaxTime /\ proposed \in 0..MaxTime
  /\ output \in Commands
  /\ limits \in [forward : Nat, reverse : Nat, angular : Nat]
  /\ owed \in BOOLEAN
  /\ history_of \in Routes \cup {None}
  /\ available => scope # None /\ stamp > 0

\* "A newly tighter speed cap must never be overruled by continuity history":
\* a command proposed in a scope obeys the limits of the cycle that selected it.
LimitsOverruleHistory ==
  owed /\ Enabled =>
    /\ output.surge \in -limits.reverse..limits.forward
    /\ output.yaw \in -limits.angular..limits.angular

\* "A changed route identity clears continuity history."
HistoryOfItsRoute == available => history_of = scope

\* Whatever the owner, the clock and the cycle do, the accepted commands are a
\* command reference: bounded change, no accumulated budget, zero after a
\* pause, a discard or a change of route.
Reference == INSTANCE CommandReference
FollowsReference == Reference!Spec
=============================================================================
