---------------------------- MODULE TeleopBridge ----------------------------
(***************************************************************************)
(* The modes of the teleoperation bridge (class Bridge of                  *)
(* teleop_mantis.py): clutch, episode button, HOME ramp, axis lock, pose   *)
(* dropouts and joint-state dropouts.                                      *)
(*                                                                         *)
(* Every rclpy callback of the node (on_joint_states, on_vive_pose, tick   *)
(* and vr_tick) runs to completion on one executor thread, so each is one  *)
(* action, and they interleave in every order.  vr_tick is five handlers   *)
(* run one after the other on the same object; the object is therefore one *)
(* record, and each handler is an operator from record to record.          *)
(*                                                                         *)
(* Clock comparisons (debounce, dwell, grace, watchdog) are choices made   *)
(* when the handler runs.  Poses are not numbers here: what matters is     *)
(* which CACHED pose still corresponds to the hand and the robot, and what *)
(* the handlers use that does not.                                         *)
(***************************************************************************)
EXTENDS Naturals

CONSTANTS
  Prompt,         \* TRUE: every stale window of a stream is seen by its timer
                  \* before the stream resumes; FALSE: a sample may arrive first
  LockToggles,    \* axis_lock_mode = "toggle" (FALSE: "hold")
  HomeOnStop,     \* record.home_on_stop
  MaxWaypoints,   \* longest HOME route
  LegTicks,       \* ticks the ramp takes along one leg of the route
  BlendTicks      \* BLEND_TICKS, ticks a re-sync is blended over

ASSUME BridgeAssumption ==
  /\ Prompt \in BOOLEAN /\ LockToggles \in BOOLEAN /\ HomeOnStop \in BOOLEAN
  /\ MaxWaypoints \in Nat \ {0}
  /\ LegTicks \in Nat
  /\ BlendTicks \in Nat \ {0}

(***************************************************************************)
(* Poses the bridge computes once and uses later:                          *)
(*   "ref"   the registration of positions, anchor to ref;                 *)
(*   "turn"  the registration of rotations, R_anchor to Rc_ref: outdated   *)
(*           by hand rotation in a gap, a hold or a joint-state dropout;   *)
(*   "twist" the same, outdated by rotation the axis lock discarded;       *)
(*   "park"  the IK pose and target, synced to the measured robot;         *)
(*   "blend" the pose _blend_from a re-sync blends away from.              *)
(***************************************************************************)
Registration == {"ref", "turn", "twist"}

Cached == Registration \cup {"park", "blend"}

Stages == {"idle", "ramp", "dwell", "settle"}

Bridge == [
  ready      : BOOLEAN,            \* phase = "teleop" and shared["ready"]
  engaged    : BOOLEAN,            \* shared["engaged"]
  poseLost   : BOOLEAN,            \* _pose_lost
  jointsLost : BOOLEAN,            \* _joints_lost
  homing     : BOOLEAN,            \* _home_active
  wps        : 0..MaxWaypoints,    \* len(_home_wps) - _home_i
  ramp       : 0..LegTicks,        \* ticks left on the current leg
  stage      : Stages,             \* _home_dwell_t / _home_done_t set or not
  stopRec    : BOOLEAN,            \* _home_stop_rec
  lock       : BOOLEAN,            \* _axlock_active
  lag        : BOOLEAN,            \* _lag_t0 is not None
  blend      : 0..BlendTicks,      \* _blend_n
  rec        : BOOLEAN,            \* recorder.recording
  ep         : {0, 1},             \* parity of the episode recorded last
  stale      : SUBSET Cached,      \* history: cached poses reality moved away from
  misused    : SUBSET Cached]      \* history: cached poses used while stale; of the
                                   \* registration of rotations, since it was last set

VARIABLES
  bridge,      \* the Bridge object
  poseFresh,   \* _cur is known and younger than POSE_TIMEOUT
  degraded,    \* now < _track_bad_until
  jointsFresh  \* the arm's joint states are younger than JOINT_TIMEOUT

vars == <<bridge, poseFresh, degraded, jointsFresh>>

Init ==
  /\ bridge = [ready |-> FALSE, engaged |-> FALSE, poseLost |-> FALSE,
               jointsLost |-> FALSE, homing |-> FALSE, wps |-> 0, ramp |-> 0,
               stage |-> "idle", stopRec |-> FALSE, lock |-> FALSE, lag |-> FALSE,
               blend |-> 0, rec |-> FALSE, ep |-> 0, stale |-> {"ref", "park"}, misused |-> {}]
  /\ poseFresh = FALSE
  /\ degraded = FALSE
  /\ jointsFresh = FALSE

-----------------------------------------------------------------------------
(* Cached poses *)

Outdate(s, P) == [s EXCEPT !.stale = @ \cup P]

Use(s, P) == [s EXCEPT !.misused = @ \cup (P \cap s.stale)]

\* ik.reset_to(measured) and target = fk: only when the measurement is fresh
Resync(s, js) == IF js THEN [s EXCEPT !.stale = @ \ {"park"}] ELSE s

SetBlend(s, n) == [s EXCEPT !.blend = n, !.stale = @ \ {"blend"}]

\* the tool is registered as it is now, however it was turned before
CaptureRefs(s) ==
  [s EXCEPT !.stale = @ \ Registration, !.misused = @ \ {"turn", "twist"}]

-----------------------------------------------------------------------------
(* Clutch and axis lock *)

\* the motion the lock discarded is still in the hand-to-target difference
AxlockClear(s) ==
  IF s.lock THEN Outdate([s EXCEPT !.lock = FALSE], {"ref", "twist"}) ELSE s

\* Seeded fault: the lock ends without a new registration.
AxlockReleaseAsIs(s, fresh) == AxlockClear(s)

AxlockRelease(s, fresh) ==
  IF s.lock /\ s.engaged /\ fresh THEN CaptureRefs(AxlockClear(s)) ELSE AxlockClear(s)

\* with an axis in the tool frame, which the defaults and the configuration give it
AxlockEngage(s) == [s EXCEPT !.lock = TRUE]

OnEngage(s) ==
  CaptureRefs(SetBlend([s EXCEPT !.engaged = TRUE, !.poseLost = FALSE, !.lag = FALSE], 0))

OnDisengage(s, js) ==
  LET off    == [AxlockClear(s) EXCEPT !.engaged = FALSE]
      synced == IF js THEN Resync(SetBlend(off, BlendTicks), js) ELSE off
  IN  Outdate(synced, {"ref"})

-----------------------------------------------------------------------------
(* HOME *)

\* n waypoints ahead, the first leg about to start; no waypoint: no route
Route(s, n) ==
  [s EXCEPT !.wps = n, !.ramp = IF n = 0 THEN 0 ELSE LegTicks,
            !.stage = IF n = 0 THEN "idle" ELSE "ramp"]

\* Seeded fault: HOME not refused while an episode records.
StartHomeDuringEpisode(s, stopping, path, js) ==
  IF s.homing \/ ~s.ready \/ ~js \/ path = 0 THEN s
  ELSE [Route(IF s.engaged THEN SetBlend(OnDisengage(s, js), 0) ELSE s, path) EXCEPT
          !.homing = TRUE, !.stopRec = stopping]

\* path: waypoints of the planned route, 0 when the arm is outside the joint limits or
\* no clear route was found; stopping: HOME starts because an episode ends
StartHome(s, stopping, path, js) ==
  LET refused == \/ s.homing
                 \/ ~s.ready
                 \/ ~js
                 \/ ~stopping /\ s.rec
      frozen  == IF s.engaged THEN SetBlend(OnDisengage(s, js), 0) ELSE s
  IN  IF refused THEN s
      ELSE IF path = 0 THEN frozen
      ELSE [Route(frozen, path) EXCEPT !.homing = TRUE, !.stopRec = stopping]

\* Seeded faults in the end of the ramp: the IK is not re-synced, a pending blend is
\* kept, the episode is not stopped.
EndHomeNoResync(s, js) ==
  SetBlend([Route(s, 0) EXCEPT !.homing = FALSE, !.stopRec = FALSE,
                               !.rec = @ /\ ~s.stopRec], 0)

EndHomeKeepsBlend(s, js) ==
  Resync([Route(s, 0) EXCEPT !.homing = FALSE, !.stopRec = FALSE,
                             !.rec = @ /\ ~s.stopRec], js)

EndHomeKeepsRecording(s, js) ==
  Resync(SetBlend([Route(s, 0) EXCEPT !.homing = FALSE, !.stopRec = FALSE], 0), js)

EndHome(s, js) ==
  LET over == [Route(s, 0) EXCEPT !.homing = FALSE, !.stopRec = FALSE,
                                  !.rec = @ /\ ~s.stopRec]
  IN  Outdate(Resync(SetBlend(over, 0), js), {"ref"})

\* a HOME command moves the robot away from the IK pose and from _blend_from
HomeCommand(s) == Outdate(s, {"park"} \cup (IF s.blend > 0 THEN {"blend"} ELSE {}))

\* Seeded fault: the settle clock restarts when it runs out, so an arm that stopped short
\* of the route's end is waited for without end.
HomeTickRearms(s, gated, settled, elapsed) ==
  LET t    == HomeCommand(s)
      last == s.ramp = 0 /\ s.wps <= 1
  IN  IF gated \/ (last /\ settled) THEN EndHome(t, TRUE)
      ELSE IF s.ramp > 0 THEN [t EXCEPT !.ramp = @ - 1]
      ELSE IF ~last THEN Route(t, s.wps - 1)
      ELSE [t EXCEPT !.stage = IF @ = "settle" THEN "idle" ELSE "settle"]

\* gated: measured pose inside the safety gate; settled: lag below HOME_DONE_TOL;
\* elapsed: HOME_WAYPOINT_DWELL or HOME_SETTLE_GRACE has passed
HomeTick(s, gated, settled, elapsed) ==
  LET t    == HomeCommand(s)
      next == Route(t, s.wps - 1)
  IN  IF gated THEN EndHome(s, TRUE)
      ELSE IF s.ramp > 0 THEN [t EXCEPT !.ramp = @ - 1]
      ELSE IF s.wps > 1 /\ s.stage # "dwell" THEN [t EXCEPT !.stage = "dwell"]
      ELSE IF s.wps > 1 THEN IF elapsed THEN next ELSE t
      ELSE IF settled \/ (s.stage = "settle" /\ elapsed) THEN EndHome(t, TRUE)
      ELSE [t EXCEPT !.stage = "settle"]

-----------------------------------------------------------------------------
(* vr_tick: the target follows the hand, then the buttons *)

Track(s, fresh) ==
  IF ~(s.ready /\ s.engaged) THEN s
  ELSE IF ~fresh THEN [s EXCEPT !.poseLost = TRUE]
  ELSE Use(IF s.poseLost THEN CaptureRefs([s EXCEPT !.poseLost = FALSE]) ELSE s, {"ref"})

\* "early": past PAD_BOUNCE; "late": past PAD_DEBOUNCE as well, which only engaging needs
Pad(s, pad, fresh, js) ==
  IF pad = "none" THEN s
  ELSE IF s.homing THEN EndHome(s, js)
  ELSE IF s.engaged THEN OnDisengage(s, js)
  ELSE IF pad = "late" /\ s.ready /\ fresh THEN OnEngage(s)
  ELSE s

StopEpisode(s, path, js) ==
  LET homed   == IF HomeOnStop THEN StartHome(s, TRUE, path, js) ELSE s
      stopped == [homed EXCEPT !.rec = FALSE]
  IN  IF homed.homing /\ ~s.homing THEN homed
      ELSE IF stopped.engaged THEN OnDisengage(stopped, js)
      ELSE stopped

StartEpisode(s, fresh, js, startOk) ==
  LET live == IF ~s.engaged /\ s.ready /\ fresh THEN OnEngage(s) ELSE s
  IN  IF ~live.engaged THEN live
      ELSE IF startOk THEN [live EXCEPT !.rec = TRUE, !.ep = 1 - @]
      ELSE OnDisengage(live, js)

\* Seeded fault: MENU not refused while homing.
MenuDuringHome(s, menu, fresh, js, path, startOk) ==
  IF ~menu THEN s
  ELSE IF s.rec THEN StopEpisode(s, path, js)
  ELSE StartEpisode(s, fresh, js, startOk)

Menu(s, menu, fresh, js, path, startOk) ==
  IF ~menu THEN s
  ELSE IF s.rec THEN StopEpisode(s, path, js)
  ELSE IF s.homing THEN s
  ELSE StartEpisode(s, fresh, js, startOk)

Home(s, home, path, js) ==
  IF ~home THEN s
  ELSE IF s.homing THEN EndHome(s, js)
  ELSE StartHome(s, FALSE, path, js)

\* axl: "off", "held" (no new edge) or "pressed" (a debounced rising edge)
Lock(s, axl, fresh) ==
  LET pressed == CASE axl # "pressed"                -> s
                   [] axl = "pressed" /\ s.lock      ->
                        IF LockToggles THEN AxlockRelease(s, fresh) ELSE s
                   [] axl = "pressed" /\ ~s.lock     ->
                        IF s.homing \/ ~s.engaged THEN s ELSE AxlockEngage(s)
  IN  IF pressed.lock /\ ~LockToggles /\ axl = "off"
      THEN AxlockRelease(pressed, fresh) ELSE pressed

VrTick(pad, menu, home, axl, path, startOk) ==
  /\ UNCHANGED <<poseFresh, degraded, jointsFresh>>
  /\ LET fresh == poseFresh /\ ~degraded
         s1    == Track(bridge, fresh)
         s2    == Pad(s1, pad, fresh, jointsFresh)
         s3    == Menu(s2, menu, fresh, jointsFresh, path, startOk)
         s4    == Home(s3, home, path, jointsFresh)
     IN  bridge' = Lock(s4, axl, fresh)

-----------------------------------------------------------------------------
(* tick: joint-state dropout, HOME ramp, measured gate, IK command, watchdog *)

\* Seeded fault: the target is re-parked under the hand without a new registration.
JointsRecoveredNoReanchor(s) ==
  IF ~s.jointsLost THEN s
  ELSE Outdate(Resync(SetBlend([s EXCEPT !.jointsLost = FALSE], BlendTicks), TRUE),
               IF s.engaged THEN {"ref", "turn"} ELSE {"ref"})

JointsRecovered(s) ==
  IF ~s.jointsLost THEN s
  ELSE Outdate(Resync(SetBlend([s EXCEPT !.jointsLost = FALSE,
                                         !.poseLost = @ \/ s.engaged], BlendTicks), TRUE),
               IF s.engaged THEN {"ref", "turn"} ELSE {"ref"})

\* An engaged tool is turned with the hand, in a hold and in the tick that recovers from a
\* dropout as well, unless the lock fixes its orientation.
\* lagging: command further than NOT_FOLLOW_LEAD from the measurement
IkTick(s, lagging, elapsed) ==
  LET turned  == IF s.engaged /\ ~s.lock THEN {"turn", "twist"} ELSE {}
      moved   == Use(s, {"park"} \cup turned)
      watched == IF moved.engaged THEN [moved EXCEPT !.lag = lagging] ELSE moved
  IN  IF s.engaged /\ lagging /\ s.lag /\ elapsed THEN OnDisengage(moved, TRUE)
      ELSE IF s.blend > 0
           THEN [Use(watched, {"blend"}) EXCEPT
                   !.blend = @ - 1,
                   !.stale = IF s.blend = 1 THEN @ \ {"blend"} ELSE @]
      ELSE watched

Tick(gated, settled, lagging, elapsed) ==
  /\ bridge.ready
  /\ UNCHANGED <<poseFresh, degraded, jointsFresh>>
  /\ LET s == JointsRecovered(bridge) IN
       bridge' =
         IF ~jointsFresh THEN Outdate([bridge EXCEPT !.jointsLost = TRUE], {"park"})
         ELSE IF s.homing THEN HomeTick(s, gated, settled, elapsed)
         ELSE IF s.engaged /\ gated THEN OnDisengage(s, TRUE)
         ELSE IkTick(s, lagging, elapsed)

-----------------------------------------------------------------------------
(* The streams *)

\* on_joint_states: arm says whether the message carries every arm joint, complete
\* whether every commanded joint is known after it
OnJointStates ==
  \E arm, complete \in BOOLEAN :
    /\ (Prompt /\ arm /\ bridge.ready /\ ~jointsFresh) => bridge.jointsLost
    /\ jointsFresh' = (jointsFresh \/ arm)
    /\ bridge' = IF ~bridge.ready /\ complete
                 THEN Resync([bridge EXCEPT !.ready = TRUE], TRUE) ELSE bridge
    /\ UNCHANGED <<poseFresh, degraded>>

JointsStale ==
  /\ jointsFresh
  /\ jointsFresh' = FALSE
  /\ UNCHANGED <<bridge, poseFresh, degraded>>

\* vr_tick saw that the target must be held
HoldSeen == bridge.engaged => bridge.poseLost

\* on_vive_pose with an accepted sample: its rotation reaches tick at once, through
\* shared["Rc"], however long the gap was and while a degraded hold lasts
OnVivePose ==
  /\ (Prompt /\ ~poseFresh) => HoldSeen
  /\ poseFresh' = TRUE
  /\ bridge' = IF bridge.engaged /\ (degraded \/ ~poseFresh)
               THEN Outdate(bridge, {"turn"}) ELSE bridge
  /\ UNCHANGED <<degraded, jointsFresh>>

\* on_vive_pose with the rejected sample that fills the glitch window; after a gap of
\* POSE_TIMEOUT a sample is accepted unseen
OnViveGlitch ==
  /\ poseFresh /\ ~degraded
  /\ degraded' = TRUE
  /\ bridge' = Outdate(bridge, {"ref"})
  /\ UNCHANGED <<poseFresh, jointsFresh>>

\* DEGRADE_HOLD has passed
DegradeOver ==
  /\ degraded
  /\ Prompt => HoldSeen
  /\ degraded' = FALSE
  /\ UNCHANGED <<bridge, poseFresh, jointsFresh>>

\* POSE_TIMEOUT has passed: the hand moves unseen
PoseStale ==
  /\ poseFresh
  /\ poseFresh' = FALSE
  /\ bridge' = Outdate(bridge, {"ref"})
  /\ UNCHANGED <<degraded, jointsFresh>>

-----------------------------------------------------------------------------

Next ==
  \/ \E pad \in {"none", "early", "late"}, menu, home \in BOOLEAN,
        axl \in {"off", "held", "pressed"}, path \in 0..MaxWaypoints, startOk \in BOOLEAN :
       VrTick(pad, menu, home, axl, path, startOk)
  \/ \E gated, settled, lagging, elapsed \in BOOLEAN : Tick(gated, settled, lagging, elapsed)
  \/ OnJointStates
  \/ JointsStale
  \/ OnVivePose
  \/ OnViveGlitch
  \/ DegradeOver
  \/ PoseStale

Spec == Init /\ [][Next]_vars

(***************************************************************************)
(* The timer of tick keeps firing, and the clock reaches every deadline,   *)
(* so ticks after the deadline recur as well.                              *)
(***************************************************************************)
LateTick == \E gated, settled, lagging \in BOOLEAN : Tick(gated, settled, lagging, TRUE)

FairSpec == Spec /\ WF_vars(LateTick)

-----------------------------------------------------------------------------
(* Properties *)

\* Type correctness of the Bridge object and of the streams' freshness.
TypeOK ==
  /\ bridge \in Bridge
  /\ poseFresh \in BOOLEAN /\ degraded \in BOOLEAN /\ jointsFresh \in BOOLEAN

\* The hand and the HOME ramp never drive the arm together, and the axis lock lives
\* only inside an engagement, however clutch, MENU, HOME and lock presses, freezes and
\* dropouts interleave.
ModeExclusion ==
  /\ bridge.homing => ~bridge.engaged
  /\ bridge.lock => bridge.engaged

\* The only ramp an episode can contain is the one that ends it: while homing, a
\* recording exists only with its stop pending, and a pending stop belongs to a ramp in
\* progress (so _end_home can never stop an episode started later).
EpisodeTail ==
  /\ bridge.homing /\ bridge.rec => bridge.stopRec
  /\ bridge.stopRec => bridge.homing

\* The target never follows the hand through a registration that hand motion in a
\* dropout, a re-parked target or motion discarded by the axis lock has outdated.
NoReplay == "ref" \notin bridge.misused

\* The tool is turned with the hand in every tick, also in a hold and in the tick that
\* recovers from a joint-state dropout, and may then be turned through a registration of
\* rotations that a gap, a hold, a dropout or the axis lock outdated.  Once it has been, the
\* rotations are registered anew before the target follows the hand again.
TurnsRegistered ==
  bridge.misused \cap {"turn", "twist"} # {}
    => ~bridge.engaged \/ bridge.poseLost \/ ~poseFresh \/ degraded

\* Outside the HOME ramp no arm command is computed from an IK pose or a target left
\* behind by a ramp or held through a joint-state dropout.
ResyncedCommands == "park" \notin bridge.misused

\* No command is blended away from a pose that a HOME ramp has since left.
NoStaleBlend == "blend" \notin bridge.misused

\* One vr_tick cancelled the ramp (clutch) and started another (HOME).
Restarted ==
  /\ bridge.homing /\ bridge'.homing
  /\ bridge'.stage = "ramp" /\ bridge'.ramp = LegTicks
  /\ <<bridge'.wps, bridge'.ramp, bridge'.stage>> # <<bridge.wps, bridge.ramp, bridge.stage>>
  /\ ~(bridge.stage = "dwell" /\ bridge'.wps = bridge.wps - 1)

\* Once joint states keep arriving and the operator no longer restarts it, every HOME
\* ramp ends: reached, aborted, cancelled or given up after the settle grace.
HomingEnds ==
  <>[]jointsFresh /\ <>[][~Restarted]_vars => (bridge.homing ~> ~bridge.homing)

\* Once joint states keep arriving, an episode whose stop waits for the HOME ramp stops.
StopHonoured ==
  \A e \in {0, 1} :
    <>[]jointsFresh => (bridge.stopRec /\ bridge.rec /\ bridge.ep = e
                          ~> ~bridge.rec \/ bridge.ep # e)
=============================================================================
