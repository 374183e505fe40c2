--------------------------- MODULE MCControlCycle ---------------------------
(***************************************************************************)
(* ControlCycle in small scenes, each of which exercises one part: the     *)
(* recovery of oscillations with the single and with the class planner,    *)
(* the caps with the contact recovery, a car, and the via-points.          *)
(***************************************************************************)
EXTENDS ControlCycle

Command(x, w) == [surge |-> x, yaw |-> w]
AllCommands == [surge : -4 .. 4, yaw : -2 .. 2]

Robot(car) ==
  [forward |-> 4, backward |-> 2, trans |-> 4, angular |-> 2,
   acc |-> 1, angular_acc |-> 1, proportional |-> FALSE, car |-> car, radius |-> IF car THEN 2 ELSE 0]
Config(classes, recovery, car) ==
  [classes |-> classes, recovery |-> recovery, plan_via |-> FALSE, robot |-> Robot(car)]

World(feasible, valid, padded, overlap, free) ==
  [feasible |-> feasible, valid |-> valid, padded |-> padded,
   overlap |-> overlap, free |-> free]
Clear == World(TRUE, TRUE, FALSE, FALSE, AllCommands)
Blocked == World(FALSE, TRUE, FALSE, FALSE, {})

FreeSets == {{}, AllCommands, {c \in AllCommands : c.surge < 0},
             {c \in AllCommands : c.surge \in {0, 1, 3} /\ c.yaw # 0}}
Contacts ==
  {World(kind[1], TRUE, kind[2], kind[3], free) :
     kind \in {<<TRUE, FALSE, FALSE>>, <<TRUE, FALSE, TRUE>>,
              <<FALSE, TRUE, FALSE>>, <<FALSE, FALSE, TRUE>>}, free \in FreeSets}
  \cup {World(FALSE, TRUE, FALSE, FALSE, {}), World(FALSE, FALSE, TRUE, FALSE, {})}

Quiet == [configs |-> {}, requests |-> {Command(4, 2)}, worlds |-> {Clear},
          scopes |-> {NoScope}, envelopes |-> {NoEnvelope}, messages |-> {},
          ages |-> {0}]

\* A robot that turns to and fro, with either planner, or a car that does.
Oscillation(classes, car) ==
  [Quiet EXCEPT !.configs = {Config(classes, TRUE, car)},
                !.requests = IF car THEN {Command(2, 2), Command(-2, 2)}
                             ELSE {Command(0, 2), Command(0, -2), Command(4, 0)},
                !.worlds = {Clear, Blocked},
                !.ages = {0, MinDuration}]

\* A robot in contact, with caps that come and go.  It may be at 3 when the
\* envelope leaves it 1, and at 1 backwards when the scope leaves it nothing.
Small == [Robot(FALSE) EXCEPT !.forward = 3, !.backward = 1, !.trans = 3, !.angular = 1]
Contact ==
  [Quiet EXCEPT !.configs = {[Config(FALSE, FALSE, FALSE) EXCEPT !.robot = Small]},
                !.requests = {Command(5, 2), Command(-4, 1), Command(1, 0)},
                !.worlds = Contacts,
                !.scopes = {NoScope, [enabled |-> TRUE, reverse |-> 0],
                            [enabled |-> TRUE, reverse |-> 2]},
                !.envelopes = {NoEnvelope, [enabled |-> TRUE, limit |-> 1]}]

\* A car that may be reconfigured while a scope is in force.
Car ==
  [Quiet EXCEPT !.configs = {Config(FALSE, FALSE, TRUE),
                  [Config(FALSE, FALSE, FALSE) EXCEPT !.robot.trans = 3]},
                !.requests = {Command(4, 2), Command(2, -2), Command(-6, 0)},
                !.scopes = {NoScope, [enabled |-> TRUE, reverse |-> 1]},
                !.envelopes = {NoEnvelope, [enabled |-> TRUE, limit |-> 2]}]

\* Messages with and without points, and a plan that gives its own.
ViaPoints ==
  [Quiet EXCEPT !.configs = {Config(FALSE, FALSE, FALSE),
                  [Config(FALSE, FALSE, FALSE) EXCEPT !.plan_via = TRUE]},
                !.messages = {"custom", "none"}]

MCScenes == {Oscillation(FALSE, FALSE), Oscillation(TRUE, FALSE),
             Oscillation(FALSE, TRUE), Contact, Car, ViaPoints}
=============================================================================
