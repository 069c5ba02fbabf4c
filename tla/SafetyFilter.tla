---------------------------- MODULE SafetyFilter ----------------------------
(***************************************************************************)
(* The safety filter (class SafetyFilterController), the ros2_control      *)
(* controller between a policy and the arm.                                *)
(*                                                                         *)
(* The subscription callback leaves the latest reference in a realtime     *)
(* buffer, whether the controller is active or not; the controller manager *)
(* calls update() in every cycle while it is active.  Joint positions are  *)
(* integers and the collision check is membership in a set of              *)
(* configurations.  The period cancels out of the horizon: the velocity is *)
(* (command - measured) / dt, and each of its steps lasts dt.              *)
(***************************************************************************)
EXTENDS Integers

CONSTANTS
  Active,       \* joints.active_joint, the commanded joints
  Passive,      \* joints.passive_joint, measured only: the other arm
  Reach,        \* positions a joint can be measured at or told to take
  MaxDelta,     \* max_delta_per_joint
  Horizon,      \* horizon_steps
  Colliding,    \* configurations of all the joints that are in collision
  Hold          \* NaN in a reference

Joints == Active \cup Passive

ASSUME FilterAssumption ==
  /\ Active # {} /\ Active \cap Passive = {}
  /\ Reach \subseteq Int /\ Hold \notin Reach
  /\ MaxDelta \in Nat
  /\ Horizon \in Nat \ {0}

Command == [Active -> Reach]

\* What the buffer can hold: a reference, or nothing usable (no message yet, or one of
\* another size)
References == [Active -> Reach \cup {Hold}]

None == [j \in {} |-> Hold]

VARIABLES
  q,        \* measured configuration, q_pin_ as the next update() reads it
  ref,      \* input_ref_buffer_
  active,   \* lifecycle state of the controller
  hasSafe,  \* has_safe_command_
  safe,     \* last_safe_command_ros_
  out,      \* the command interfaces; on activation, where the arm stands
  cleared   \* history: configuration of the passive joints out was checked against

vars == <<q, ref, active, hasSafe, safe, out, cleared>>

Commanded(config) == [j \in Active |-> config[j]]

Others(config) == [j \in Passive |-> config[j]]

\* cmd on the active joints, config elsewhere
At(cmd, config) == [j \in Joints |-> IF j \in Active THEN cmd[j] ELSE config[j]]

Init ==
  /\ q \in [Joints -> Reach]
  /\ ref = None
  /\ active = FALSE /\ hasSafe = FALSE
  /\ safe = Commanded(q) /\ out = Commanded(q)
  /\ cleared = Others(q)

-----------------------------------------------------------------------------
(* The checks of update() *)

CheckDeltaLimits(from, to) ==
  \A j \in Active : to[j] - from[j] <= MaxDelta /\ from[j] - to[j] <= MaxDelta

\* Step k of the horizon: the commanded joints go on at the speed that takes them to
\* the command in one step, the others stand still.
Ahead(config, cmd, k) ==
  [j \in Joints |-> IF j \in Active THEN config[j] + k * (cmd[j] - config[j]) ELSE config[j]]

\* Seeded fault: only the end of the horizon is checked.
HorizonEndOnly(config, cmd) == Ahead(config, cmd, Horizon) \notin Colliding

CheckHorizonCollisionFree(config, cmd) ==
  \A k \in 1..Horizon : Ahead(config, cmd, k) \notin Colliding

Usable == DOMAIN ref = Active

\* q_cmd_ros_: the reference joint by joint, NaN meaning the measured position.  Between
\* updates it equals last_safe_command_ros_, so that is what it starts from.
Wanted ==
  IF Usable THEN [j \in Active |-> IF ref[j] = Hold THEN q[j] ELSE ref[j]] ELSE safe

Accepts ==
  /\ hasSafe
  /\ CheckDeltaLimits(safe, Wanted)
  /\ CheckHorizonCollisionFree(q, Wanted)

-----------------------------------------------------------------------------
(* The handlers *)

\* Seeded fault: the last safe command is not taken from the arm.
ActivateKeepsSafe ==
  /\ ~active
  /\ active' = TRUE /\ hasSafe' = TRUE
  /\ safe' = safe
  /\ out' = Commanded(q) /\ cleared' = Others(q)
  /\ UNCHANGED <<q, ref>>

\* on_activate: the arm is held where it is measured
Activate ==
  /\ ~active
  /\ active' = TRUE /\ hasSafe' = TRUE
  /\ safe' = Commanded(q)
  /\ out' = Commanded(q) /\ cleared' = Others(q)
  /\ UNCHANGED <<q, ref>>

\* on_deactivate
Deactivate ==
  /\ active
  /\ active' = FALSE /\ hasSafe' = FALSE
  /\ UNCHANGED <<q, ref, safe, out, cleared>>

\* the subscription, alive from on_configure on
Receive ==
  /\ ref' \in References \cup {None}
  /\ UNCHANGED <<q, active, hasSafe, safe, out, cleared>>

\* Seeded fault: one rejected reference loses the last safe command.
UpdateForgetsSafe ==
  /\ active
  /\ hasSafe' = Accepts
  /\ safe' = IF Accepts THEN Wanted ELSE safe
  /\ out' = IF Accepts THEN Wanted ELSE IF hasSafe THEN safe ELSE Commanded(q)
  /\ cleared' = IF Accepts THEN Others(q) ELSE cleared
  /\ UNCHANGED <<q, ref, active>>

Update ==
  /\ active
  /\ safe' = IF Accepts THEN Wanted ELSE safe
  /\ out' = IF Accepts THEN Wanted ELSE IF hasSafe THEN safe ELSE Commanded(q)
  /\ cleared' = IF Accepts THEN Others(q) ELSE cleared
  /\ UNCHANGED <<q, ref, active, hasSafe>>

\* the arms move: the commanded one after its command or another controller's, or
\* because something pushes it, the other one on its own
Move ==
  /\ \E j \in Joints, p \in Reach : q' = [q EXCEPT ![j] = p]
  /\ UNCHANGED <<ref, active, hasSafe, safe, out, cleared>>

Next == Activate \/ Deactivate \/ Receive \/ Update \/ Move

Spec == Init /\ [][Next]_vars

\* The controller manager goes on calling update().
FairSpec == Spec /\ WF_vars(Update)

-----------------------------------------------------------------------------
(* Properties *)

\* Type correctness; the last safe command exists exactly while the controller is active.
TypeOK ==
  /\ q \in [Joints -> Reach]
  /\ ref \in References \cup {None}
  /\ active \in BOOLEAN /\ hasSafe = active
  /\ safe \in Command /\ out \in Command
  /\ cleared \in [Passive -> Reach]

\* While the filter is active no joint is ever told to move further in one cycle than
\* MaxDelta, the first command after an activation included, whatever was rejected,
\* held or left in the buffer before.
StepBounded ==
  [][active /\ active' =>
       \A j \in Active : out'[j] - out[j] <= MaxDelta /\ out[j] - out'[j] <= MaxDelta]_vars

\* A command that was changed does not collide with the other arm as it stood when the
\* command was last accepted, wherever the arm itself was measured then.
CommandCleared ==
  [][active /\ active' /\ out' # out => At(out', cleared') \notin Colliding]_vars

\* A reference that stays and stays acceptable is followed, however many were rejected
\* before it.
AcceptableFollowed ==
  \A r \in Command :
    <>[](active /\ ref = r /\ CheckDeltaLimits(safe, r) /\ CheckHorizonCollisionFree(q, r))
      => <>[](out = r)
=============================================================================
