---------------------------- MODULE BridgeHoming ----------------------------
(***************************************************************************)
(* The two callers of the route search: the plugin (FollowerHoming) and    *)
(* the bridge, whose HOME button makes one search, inline, and one ramp    *)
(* along the route (_start_home, _plan_home_path and _home_tick of         *)
(* teleop_mantis.py).  A ramp that stops short is continued by pressing    *)
(* HOME again.  TeleopBridge has the modes around the ramp; here is where  *)
(* it leads.                                                               *)
(***************************************************************************)
EXTENDS FollowerHoming

CONSTANTS
  Presses,      \* bound: presses of HOME
  BridgeScenes  \* bound: the scenes in which the bridge homes

ASSUME BridgeAssumption == Presses \in 0..Attempts

VARIABLE caller \* who homes: "plugin" or "bridge"

homing == <<vars, caller>>

\* _home_path_clear: the straight ramp at the full floors, from where the arm is.
HomePathClear == \A c \in Samples(meas, Home) : Margin(c, Scales[1]) >= 0

\* HOME is pressed: the straight ramp, else a search, which holds the executor until it ends.
StartHome ==
  /\ at = "start" \/ at \in Ended
  /\ attempt < Presses
  /\ attempt' = attempt + 1 /\ at' = "planning"
  /\ IF HomePathClear \/ ~UsePlanner THEN PlanStraight ELSE StartPlan(meas, 0)
  /\ UNCHANGED <<clear, connected, meas, cmd, minScale, prevGap, frozen, late, status, gate, from,
                 caller>>

\* _plan_home_path found nothing.
HomeRefuse ==
  /\ at = "planning" /\ plan = "done" /\ answer = NoRoute
  /\ at' = "exhausted"
  /\ UNCHANGED <<clear, planner, connected, meas, cmd, attempt, minScale, prevGap, frozen, late,
                 status, gate, from, caller>>

\* What _plan_home_path hands to _home_tick: gate scale and floor of the route.
RampGate ==
  [scale |-> Least({GateScale, answer.scale}), min |-> Least({Margin(q0, answer.scale), 0})]

\* The ramp begins at the last command when that is near the arm, though the route was checked
\* from the arm: a start beside the arm is off the checked route.
StartRamp ==
  /\ at = "planning" /\ plan = "done" /\ answer # NoRoute
  /\ at' = "running" /\ gate' = RampGate
  /\ cmd' \in {c \in Configs : Gap(c, meas) <= Lead}
  /\ UNCHANGED <<clear, planner, connected, meas, attempt, minScale, prevGap, frozen, late,
                 status, from, caller>>

\* From the arm to the last command, and on along the route.
Ramp == <<q0>> \o (<<cmd>> \o answer.path)

\* _home_tick to the end of the route, or to the end of the settle grace, or cancelled on the
\* way by clutch or button.
RampEnds ==
  /\ at = "running"
  /\ meas' \in RouteSamples(Ramp)
  /\ from' = IF meas' \in RouteSamples(Route) THEN from ELSE meas'
  /\ at' = IF Gap(meas', Home) <= Done THEN "home" ELSE "near"
  /\ status' = "done"
  /\ UNCHANGED <<clear, planner, connected, cmd, attempt, minScale, prevGap, frozen, late, gate,
                 caller>>

\* The measured pose is inside the gate.
RampGated ==
  /\ at = "running"
  /\ meas' \in {c \in Configs : Margin(c, gate.scale) < gate.min}
  /\ at' = "near" /\ status' = "gate" /\ from' = meas'
  /\ UNCHANGED <<clear, planner, connected, cmd, attempt, minScale, prevGap, frozen, late, gate,
                 caller>>

BridgeSteps == StartHome \/ HomeRefuse \/ StartRamp \/ RampEnds \/ RampGated

-----------------------------------------------------------------------------

HomingInit ==
  /\ Init
  /\ caller \in {"plugin", "bridge"}
  /\ caller = "bridge" => [clear |-> clear, meas |-> meas, cmd |-> cmd] \in BridgeScenes

Searching == (Planning \/ PlanDeadline) /\ UNCHANGED caller

PluginHomes ==
  /\ caller = "plugin"
  /\ LoopSteps \/ TimeUp
  /\ UNCHANGED caller

BridgeHomes == caller = "bridge" /\ BridgeSteps

HomingOver ==
  /\ at \in Ended
  /\ caller = "bridge" => attempt = Presses
  /\ UNCHANGED homing

HomingNext == Searching \/ PluginHomes \/ BridgeHomes \/ HomingOver

\* A step of whoever homes, the plugin's control thread or the bridge's executor, but for a
\* growing tree.
HomesOn ==
  \/ PlanGoesOn /\ UNCHANGED <<clear, loop, caller>>
  \/ caller = "plugin" /\ LoopGoesOn /\ UNCHANGED caller
  \/ BridgeHomes

\* Whoever homes keeps going and the clock of a search runs out.
HomingSpec ==
  /\ HomingInit /\ [][HomingNext]_homing
  /\ WF_homing(HomesOn) /\ WF_at(caller = "plugin" /\ RunOver)
  /\ WF_homing(PlanDeadline /\ UNCHANGED caller)

=============================================================================
