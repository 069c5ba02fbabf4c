# Verification of vla-mantis

TLA+ specifications of the teleoperation stack in this repository, with TLC
configurations and TLAPS proofs: the bridge node and the threads around it, the
episode recorder, HOME planning, the LeRobot plugin, the gripper path, the
headset publishers and the safety filter. The rest is inventoried below with
the reason why it is left out.

Run a model with `tlc -config X.cfg M` (`MCx.tla` and `MCx.cfg`) and check the
proofs with `tlapm M_proofs.tla`; only the eight `*_proofs` modules hold
theorems.

## The system

| Component | State it keeps | Operations | Talks to | Hard parts | What makes it correct |
|---|---|---|---|---|---|
| Bridge (`teleop_mantis.py`, class `Bridge`) | clutch, HOME ramp, axis lock, blend, freshness of poses and joint states, registration of hand to tool | callbacks `on_joint_states`, `on_vive_pose`, `on_vive_buttons`, timers `tick` 100 Hz, `vr_tick` 250 Hz, `grip_tick` | topics from the headset publisher and the robot; calls recorder, shaper, planner | callbacks in any order; streams that stop and resume; values captured in one callback and used in another | nobody but the current mode drives the arm; motion made while the target was held is never replayed by the target, and a tool turned meanwhile is registered anew |
| Diff-IK (`PinkIK`), target geometry, filters | joint pose, barriers, filter memory | `solve`, `reset_to`, `fk_*` | called by the bridge | floating-point optimisation | numerical, not modelled |
| Command shaper (`CommandShaper`) | target, output position and velocity, under a lock | `set_target`, output thread, `stop` | bridge or follower in, controller out | thread, staleness, snap, failing publishes | limits hold unless it snaps; after a pause the output starts from rest |
| Gripper loop (`grip_tick`, `_grip_update`, `_on_grip_response`) | wanted and sent goal, retry clock | toggle on a click edge, re-send | action server | late rejection of an old goal | the fingers end where the last click wanted them |
| Episode recorder (`lerobot_recorder.py`) | recording, index, frame buffer, save queue, deferred videos, the folder on disk; image histories and camera bias | `start`, `stop`, camera callbacks, save thread, `shutdown` | called by the bridge's `vr_tick`; LeRobot dataset | saving one episode while recording another; failing saves; Ctrl-C and kills; late and lost images | kept episodes are saved whole, once, in order; a folder that loads is complete; time in it runs forward |
| HOME planner (`home_planner.py`) | none between calls | `plan`: tiers within relaxed floors | called by the bridge; the plugin has a copy | time budgets, partial routes, random trees | no pose on a route is below the floor it was planned for |
| Safety filter (`ros2_packages/safety_filter_controller`) | latest reference, last safe command, lifecycle state | `on_activate`, `on_deactivate`, subscription, `update` | policy in, arm out | reference and activation in any order; the other arm moves on its own | bounded steps; commands checked against the other arm |
| Follower (`lerobot_robot_mantis`) | segment being fed, connection, homing attempts | `connect`, `disconnect`, `send_action`, `_feeder`, `_go_home` | LeRobot in, shaper or filter out | threads against disconnect, retry budgets, a stalled arm | the output does not snap while actions keep to a speed; the last action is played to its end; threads end; homing ends and its routes do not lead into contact |
| Headset and tracker publishers (`quest_pub.py`, `vive_pub.py`) | last pose, device in use, trigger latch | `poll`, `tick` | publish poses and buttons | keepalive against staleness, devices that come and go | a frozen pose is not published as a live one; one pull is one click |
| WSG50 driver (`patches/wsg50-ros-pkg`) | goal, width, retries | `request`, read and write threads, `disconnect` | gripper protocol | unsynchronised width, blocking read | a lost command is repeated; disconnect returns |
| Policy servers and probes, monitor, calibration, point clouds, launch and shell scripts | little or none | | | | not modelled |

Calls between components: `vr_tick` calls the recorder's `start` and `stop` and
the planner's `plan` inline; `tick` hands commands to the shaper, whose thread
publishes them; the follower feeds the same shaper class, and its output goes
through the safety filter or directly to the arm's controller.

## Modules

| Module | Models | Extends | Theorems |
|---|---|---|---|
| `TeleopBridge` | modes of the bridge | | `TeleopBridge_proofs` |
| `CommandShaper` | the output thread | | `FollowerFeed_proofs` |
| `FollowerFeed` | connect, feeder thread, homing legs, actions, disconnect of the plugin | `CommandShaper` | `FollowerFeed_proofs` |
| `HomePlanner` | the search for a route home | | `Homing_proofs` |
| `FollowerHoming` | the plugin's retry loop around its copy of the search | `HomePlanner` | `Homing_proofs` |
| `BridgeHoming` | the bridge's HOME button; plugin and bridge as the two callers | `FollowerHoming` | `Homing_proofs` |
| `EpisodeLog` | what the recorder promises (abstract) | | |
| `EpisodeRecorder` | recorder, save thread, shutdown | | `Recorder_proofs` |
| `RecorderSessions` | several runs on one folder, kills and failures | `EpisodeRecorder` | `Recorder_proofs` |
| `FramePairing` | which images become a frame | | `FramePairing_proofs` |
| `Gripper` | from a click through bridge, server and driver to the fingers | | `Gripper_proofs` |
| `HeadsetFeed` | the publishers of the hand | | `HeadsetFeed_proofs` |
| `SafetyFilter` | the filter between policy and arm | | `SafetyFilter_proofs` |
| `MC*` | the instances TLC checks | | |

In each module, operators whose comment starts with "Seeded fault" are wrong
variants of an operator next to them. They take no part in a specification;
replacing the operator by its variant shows that a property does react to that
mistake.

### TeleopBridge

The rclpy executor is single-threaded, so every callback is one action:
`OnJointStates`, `OnVivePose` (accepted sample), `OnViveGlitch` (the rejected
sample that starts a degraded hold), `Tick`, `VrTick`. `VrTick` is the
composition, in the order of the code, of `Track`, `Pad`, `Menu`, `Home` and
`Lock`, each an operator on the record `bridge` that stands for the Python
object. `_start_home`, `_end_home`, `_on_engage`, `_on_disengage`,
`_capture_refs` and the lock handlers are operators of the same names.
`JointsStale`, `PoseStale` and `DegradeOver` are the passage of the timeouts
those comparisons test; `on_vive_buttons` only stores levels, and the edges
`vr_tick` derives from them are its inputs, subject to the debounce times
("early" and "late" for the clutch, whose two thresholds differ).

Positions are not represented. Instead `stale` is the set of cached poses that
reality has moved away from since they were captured, and `misused` the set of
those that were used nevertheless (of the registration of rotations, since it
was last set):

- `ref`: the registration of positions (`shared["anchor"]`, `shared["ref"]`);
- `turn`, `twist`: the registration of rotations (`R_anchor`, `Rc_ref`), set
  apart by what outdated it: a gap, a hold or a joint dropout, and rotation
  discarded by the axis lock;
- `park`: the pose of the IK and the target parked on it;
- `blend`: `_blend_from`.

`CaptureRefs` makes the registration hold again, `Resync` the IK pose;
whatever the code does that breaks the correspondence (a timeout, a ramp
command, a new target without a new anchor) adds to `stale`. `Track` uses `ref`,
and only when nothing is held; `IkTick` uses `park` and, while engaged and not
locked, `turn` and `twist`: `tick` aims the tool with every sample, in a hold and
in the tick that recovers from a joint dropout as well. An outdated registration
of rotations is therefore used, and `TurnsRegistered` says what the code makes of
it: until the rotations are registered anew, the target does not follow the hand.
What the hold turned stays turned: the new registration starts from there.

Left out: the recorder is taken as enabled, its `start` may be refused at any
time (`startOk`), and the executor is not modelled as busy; the axis lock's
refusal for a zero axis; geometry, rates and gains; the gripper (a module of
its own).

`Prompt` is an assumption on the schedule: a stream that went stale does not
resume before the timer that notices has run. The code does not ensure it: it
holds when the executor is not blocked for the length of a timeout. The theorems
that need it say so; the others are proved without it. What happens otherwise is
described under "Where the code and what is written about it differ".

### CommandShaper and FollowerFeed

One iteration of the shaper's loop is one unit of time, `FreshIteration` or
`IdleIteration` by the age of the target; `SetTarget` runs under the same lock.
`Sample` is the arithmetic: feed-forward, the pull of the gain (`Tau` iterations
to take an error in, rounded up), the speed from which the target can still be
braked to, the two limits, and the snap when some joint is further than `Snap`
from its target. `Publish` may raise, and the error that is one too
many ends the thread. Telemetry is left out.

`FollowerFeed` composes it with the plugin's two other threads. The feeder
reads the segment (`FeedRead`), then calls the shaper (`FeedSet`): another
thread may run between the two, and `disconnect` may have taken the shaper away.
The control thread's place is `pc`: `connect` with its waits and its failures,
the legs of a homing path, `send_action` in two steps (read the present point,
set the segment, at most `SendMax` iterations later), `disconnect` with its
drain, grace and join. The join of the output thread gives up after a second
(`teleop_mantis.py:322`), so `Disconnected` does not wait for the thread, and the
feeder is never joined: `ThreadsEnd` says that both end all the same. A `connect`
that times out disconnects; one that raises (`Misconfigured`, `HomingRaises`)
leaves what it has made, threads included, until `disconnect` is called. A second connection finds the segment of the first,
which has gone on meanwhile. `Tick` is the
passage of time: an iteration of the shaper, the progress of the segment, and
the arm, which follows what is published, may stall while homing, and trails by
at most `Lag` otherwise. Arm poses are positions on a line. Which paths the
planner returns is open within what the planner promises (`Routes`). Ramps go
at `Speed` positions per iteration. An action after the first may be any pose, as
`send_action` takes it: one that asks for more than `Speed` is noted in `fast`.
Left out: observations and the gripper goals the plugin sends. `FeedAssumption`
relates two of the code's times: two rounds of the feeder (0.01 s each, with its
call) fit into the grace of `disconnect` (0.15 s).

`NeverSnaps` needs one more, `Follows`: the limits and the gain leave the output
enough of `Snap` to trail the feed. What the shaper was last told is behind the
feed by two rounds of the feeder and one `SendMax` at most (`Lagging`), the first
action's ramp may start `Slack` from the feed, and what is left is `Reach`: the
distance in which the output turns round from `VMax` while the feed goes the
other way, and the lag of the gain behind a feed that goes on. Configured
(out_vel 1.5, out_accel 12, out_kp 20, 250 Hz, max_joint_lead 0.15, feeder at
0.01 s), ramps at home_vel 0.3 rad/s have a `Lagging` of 8.4 mrad and a `Reach`
of 57, which leaves a `Slack` of 84 mrad; policies at 0.5 rad/s leave 41. An arm
that has settled within the default tolerance of 0.15 can be further away than
that when the first action comes: `apart` is that exception, and the first sample
of a second connection, which starts at the old point however far from the arm,
is not a snap but has no limits either (see below). An action that asks for more
than `Speed` is the other exception, `fast`: nothing in `send_action` limits it,
and one beyond the snap distance goes to the arm as it is.

The limits are stated from one sample
to the next of the same connection; a new shaper publishes its first sample
after a pause in which nothing was published.

### HomePlanner, FollowerHoming, BridgeHoming

Arm poses are points of a grid; the collision model is a clearance for each of
them (`clear`), and the margin at floor scale s is that clearance less s.
`SegmentPoses` are the poses around a segment, which stand for the samples the
code takes along it. `plan` names the tier the search is in: `NextScale` walks
the ladder of scales, `Direct`, `Staged`, `Greedy`, `Detour`, `Grow` /
`Connect` / `RrtEnds` and `Shortcut` / `Smoothed` are the tiers, `Returns` is
what every tier does with a route: complete ones are the answer, a partial one
is kept when it gains more than the best before it. Random poses and the moment
the deadline passes (`Deadline`) are nondeterministic; inside a tier the
deadline is the number of candidates that were tried before it.

`FollowerHoming` is `_go_home`: attempt, plan, run under the measured-pose gate,
settle, look again; the floors relax when nothing was found or nothing was
gained, two attempts in which the arm never moved end it. `RouteDone`,
`RouteStopped` and `RouteGated` are the ways a run ends; in the last one the arm
is somewhere else than on its way. The plugin's search is a copy of
`home_planner.py` and has operators that map to the copy. `BridgeHoming` is the
other caller: one search and one ramp for each press of HOME. `HomingSpec`
contains both; `caller` says which one homes.

A route is checked from the measured pose, but neither caller starts it there.
The plugin's segments start at the last command (`cmd`); when that is further
than `Lead` from the arm it is first walked back to it (`LeadIn`). The bridge's
ramp starts at the last command within `Lead` of the arm (`Ramp`). No search has
looked at these ways, and an arm on them is off the checked route, as one is that
was pushed. `from` is therefore the pose homing began in or the last one off a
checked route, and `NeverIntoContact` compares with it: it is a statement about
the routes, and claims nothing for the ways onto them. That the arm may end up
deeper in contact on them is what TLC finds when `from` is left alone there.

### EpisodeRecorder, EpisodeLog, RecorderSessions

Two threads: the main one (`Start`, `OnImage`, `Stop`, then `SpinEnds`,
`EndSaves`, `Joined`, `Finalize`, `Encode` of the shutdown) and the save thread
(`Take`, `Saved`, `SaveFailed`). The writer's buffer is the index it was made
for and the number of frames it holds, which is enough to tell lost frames,
mixed frames and wrong indices apart. `phase` is where `main()` is. The save
thread is a daemon: nothing of it happens after "exit". External, as the
recorder relies on it: `save_episode` appends the episode and counts videos not
yet encoded, encoding them when a batch is complete; `clear_episode_buffer`
replaces the writer's buffer. `Spec` has a dataset that accepts its episodes,
`FaultySpec` one whose `save_episode` may raise. Left out: what a frame
contains, camera metadata, resume checks of features, streaming encoding.

`EpisodeRecorder` implements `EpisodeLog` when saves succeed (`LogSpec`):
`accepted` maps to the episodes in the dataset, the one in the save thread's
hands and those queued (`Accepted`), `written` to the length of the dataset.

`RecorderSessions` adds what outlives the process. `disk` is the state in which
a folder is found: absent, empty, written but not finalized, finalized with
videos missing, or whole; only the last is resumed, an empty one is moved aside,
and for the others `start()` refuses until the operator moves them away. The
process may be killed at any moment (`Kill`), also in the middle of a save, the
teardown may be interrupted (`TeardownFails`), saves may fail, and lerobot may
fail to import.

### FramePairing

`OnPrimary` and `OnSecondary` are `_on_image`; `Matches` and `Commit` are
`_commit_pending` with the bias it learns (the median of the last offsets);
`Start` and `Stop` are what the two do to the pending image, the history and
the bias. Stamps are integers, doubled where a median may be a half; the median
is taken by rank (`Ranked`: fewer than k elements are below it, at least k are
not above it), without sorting. Images of one camera arrive in order, those of
several in any order within one trigger; some are lost. The values of the robot
that are sampled when a frame is committed are left out.

`AllAccounted` counts the primary images of an episode against the frames made of
them, the images counted as dropped and the pending one. It holds with one
exception, which it names: `stop()` discards a pending image that finds no match
without counting it or warning (`LastDiscarded`), so after an episode one image at
most is missing from the account.

`last` keeps the bias each frame was paired with, because `NeverBack` depends on
it: the place a frame looks for an image moves forward with its primary, and
back with the bias. As long as the bias does not fall by more than a period
between two frames, no camera goes back in time, however many images are lost.
`KeepsTrigger` needs more of the cameras: that a camera's stamps lie within the
period of their trigger and jitter by less than half of it (`Steady` in the
proofs; the instance has 1 and 2 in a period of 4). Beyond that it fails: with
offsets 1 and 3 TLC finds a camera that is paired with an image of the same
trigger and then with one of the trigger before, because from a bias learnt of
early stamps a late one is as far as the late one of the trigger before.

### Gripper

Four parties: the bridge's loop (`GripTick` with `_grip_update`, `GripResponse`),
the action server (external: it takes a goal up, refuses it, or accepts and
loses it), the driver's read and write threads and its `disconnect`, and the
fingers (external: they move, stop at a part and latch). The write thread reads
goal and width in one step and acts in another (`seen`), because the width is
not under the lock. `OnTrack` relates what the four hold: what the bridge
believes to have sent is the newest goal on its way or the one the driver has,
unless a refusal is still to be heard or a goal was accepted and lost. That a
time has elapsed is a flag that is raised where it can be read. The protocol's messages, the hand's homing and its parameters are
left out.

### HeadsetFeed

`TickAdb`, `TickOpenVR` and `TickVive` are one tick of the three backends;
`Change` is everything outside (the headset, adb or SteamVR comes, goes, loses
track; devices appear and take roles), `Restart` the publisher being stopped
and started again, which forgets that the trigger was pulled. Times are ages
that stop at the largest limit they are compared with; a tick comes between 1
and `Late` after the one before. The scan mode only prints and is left out.

### SafetyFilter

`Receive` is the subscription, `Update` the controller cycle, `Activate` and
`Deactivate` the lifecycle callbacks, and `Move` the environment: any joint can be
measured anywhere within `Reach`, because the other arm moves by itself and
this one may be pushed or be driven by another controller while the filter is
inactive. The collision model is an arbitrary set of configurations. The
controller period cancels out of the extrapolation. `out` stands for the
command interfaces, and on activation for the arm's own place, from which the
first command departs. Left out: parameters and model loading, configuring a
second time, the tolerance of 1e-6 below which a reference counts as unchanged.

## Runs

| Run | Question | Bounds |
|---|---|---|
| `bridge` | modes, episode tail, blends; under `Prompt` no replay, no command from an outdated pose, and a tool turned through an outdated registration is registered anew before the target moves; ramps end, stops are carried out | routes of up to 2 waypoints, 1 tick per leg, blend of 2 ticks, lock toggled |
| `recorder` | kept episodes are saved whole and in order before finalize; the log; the queue drains, shutdown ends | 4 episodes of up to 3 frames and the pending one, batches of 2, discard below 2, 1 episode resumed |
| `recorder_faults` | frames stay with their episode, a folder that loads is complete, an announced number is new, over failing saves, kills and interrupted teardowns | 3 sessions, 4 episodes of up to 2 frames and the pending one, the wait may be cut short |
| `filter` | bounded steps, cleared commands, acceptable references are followed | 2 commanded joints and one of the other arm, 3 positions, limit 1, horizon 2 |
| `feed` | the output keeps its limits, and does not snap while actions keep to `Speed`; disconnect plays the last action to its end, takes the connection apart, and the threads end; what is fed arrives unless publishing fails | 1 joint, homing paths of 2 waypoints, 2 of them, 1 connection, the first failed publish ends the thread |
| `homing` | routes are certified, the gate lets them run, routes do not lead into contact, homing ends | 2 joints on a 4 x 4 grid, 7 scenes, two of which begin with a last command near the arm and too far from it, scales 2, 1, 0, trees of 6 nodes, 2 attempts, HOME pressed twice |
| `gripper` | no goal is lost unnoticed between bridge, server and driver; the last click wins, the fingers open in the end, disconnect returns | 2 clicks, one HOME, one refusal, one goal eaten, one command lost |
| `headset` | no old pose is published, a still hand stays fresh, one click per pull, poses flow | staleness 4, keepalive 2, ticks up to 2 apart, 2 devices, 6 outside changes |
| `frames` | every image up to the last of an episode is accounted for, time runs forward, a paired camera stays paired | 8 triggers, 1 secondary camera, bias from 2 offsets of the last 3, one mishap |
| `recorder_savefail`, `homing_worse`, `headset_role` | statements of a docstring and two warnings that do not hold | as above |

Two waypoints are the fewest with a dwell in the middle of a route; a blend of
two ticks is the shortest that can be interrupted in its middle. Nothing in the
bridge compares these counters with anything but zero or one. Three frames with
a threshold of two give discarded, just kept and longer episodes; four episodes
with batches of two give a complete batch, a rest and a queue longer than one;
three sessions give a resumed folder that is resumed again. Three positions with
a limit of one give references in and out of reach of one step, and the
collision set of `MCSafetyFilter` has a configuration that only the second step
of the horizon meets. The scenes of `MCFollowerHoming` are a
serpentine corridor, a wall with one way around it, stairs, a tight place entered
from inside the cushion and from inside contact, and an arm that is walled in. Six changes let a device
come, be chosen, go and come back with another role. Eight triggers are enough
to learn the bias, lose an image and go on.

Constants that a module's comments call a bound limit the run and not the code;
the others are the code's parameters. `recorder*` and `frames` do not look for
deadlock because the program exits or the triggers end.

## Fairness

- Bridge: `WF(LateTick)`. The timer of `tick` keeps firing while the node spins,
  and the clock passes every deadline, so ticks after a deadline recur. The
  streams and the operator are under no fairness: properties say "once joint
  states keep arriving", "if the operator stops restarting it". That a held
  target is released is one `vr_tick` with a fresh pose (`Track`) and has no
  property.
- Recorder: the save thread is scheduled and `save_episode` returns; shutdown
  runs to its end. Operator and cameras are under no fairness.
- Feed: feeder and output thread are scheduled, time passes, and the control
  thread's waits poll their condition. When the control thread acts by itself
  (the next action, disconnect, the interrupt) is open.
- Homing: the search's steps and the loop's steps go on, routes come to an end
  and the clock of a search runs out; how long the trees grow before it does,
  `t_end` passing and the arm being pushed are under none.
- Gripper: the bridge's timers and the driver's threads run, elapsed times are
  noticed, the server comes up and answers, the fingers move and the gripper
  keeps reporting its width. Losses and refusals are bounded in number; when the
  operator clicks and whether the driver is disconnected is open.
- Headset: the timer keeps firing. `PoseFlows` and `RoleResolves` assume the
  outside settles.
- Filter: the controller manager keeps calling `update()`. Nothing else.

## Proofs

Each component's theorems hold for every value of its constants under the named
assumption of its module.

`TeleopBridge_proofs` (any `MaxWaypoints`, `LegTicks`, `BlendTicks`, both lock
modes):

- `TypeCorrect`, `ModesExclusive`, `EpisodeTailSafe`, `BlendSafe`: `TypeOK`,
  `ModeExclusion`, `EpisodeTail` and `NoStaleBlend`. None is inductive alone: an
  engagement excludes a ramp because a ramp starts by freezing, and a blend
  captured before a ramp is over before it is used because both ends of the ramp
  clear it. `Orderly` is the strengthening: the three together, that a ramp has
  a waypoint left, that only a ready bridge engages or homes, and that a pending
  blend is stale only while homing.
- `ReplaySafe`, `TurnsSafe` and `ResyncSafe`, under `Prompt`: `InStep` adds when
  a cached pose may be stale at all. The registration only while not engaged,
  while held or about to be (the pose is not fresh), and a registration of
  rotations that was used while stale is due for renewal likewise; the IK pose only before the
  robot is known, while homing, or while a joint dropout is noticed or about to
  be. `Prompt` enters where a stream resumes, and nowhere else.

Every handler operator has a lemma that it takes an orderly record, in step, to
an orderly record, in step. `VrTick` composes five of them, `Tick` follows by
its cases, and the streams by a lemma on outdating the registration.

`FollowerFeed_proofs`, first part (any joints, gain, limits, staleness):
`ShaperTyped`, with the speed within `VMax`, and `ShaperLimits`, that
consecutive samples keep both limits unless the output snaps. `ShaperInv` adds
that a pause leaves the output at rest, which is why the first sample after one
keeps the acceleration limit.

`FollowerFeed_proofs`, second part (any interval of poses, times within
`FeedAssumption`, paths, attempts and connections), for the composition of
control thread, feeder and output thread:

- `FollowerClean`: `Inv`, that is the types, `CleanWhenOff` (once `disconnect` has
  returned there is no node, executor or shaper, and an output thread that
  outlived its join has been told to stop) and `FeederLives` (the feeder does not
  die while it is needed). That the threads then end is liveness, `ThreadsEnd`,
  and model-checked only.
- `LastPointIsFed`: `LastPointFed`, the reason for drain and grace.
- `FollowerLimits`: `LimitsHold` for what the plugin feeds, over all connections.
- `OutputKeepsUp`: `NeverSnaps`, under `Follows`, for actions that keep to `Speed`
  and a first one not sent while the arm has stalled (`fast` and `apart` are its
  exceptions, not assumptions on the behaviours).

The invariant is `FeedInv`. `LinkOK` says which parts of a connection exist where
the control thread is; `SegOK` what that thread knows of its segment (its
progress is within its duration, it is complete before the grace begins);
`LastPointOK` is the argument about the grace: either the shaper has the last
point (`Fed`), or the feeder still has time to bring it (`Feeding`): it holds a
point and less was waited than it has been under way, or it will read the last
point, and two of its rounds have not passed. The lemma `SegmentBetween`, that
a segment's value stays between its ends, rests on `DivWithin`, the bounds of a
rounded-down product.

`OutputKeepsUp` adds `TrackInv`, in three parts. `PaceOK`: unless `fast`, segments go at `Speed`
at most, also when they are frozen, replaced by one that starts at the point
read before, or left to go on between connections. `FlowOK`: what the threads
leave of each other, as that nothing is fed before the output starts and that the
target is no older than the feeder's last call. `TrackOK`: the shaper's target
(`Aimed`), what the feeder carries (`Carried`) and the output (`Behind`) trail
the feed, or, after the jump of a first action, the feed as it would be without
it, at an offset of `Slack` at most. `NeverSnaps` is not inductive, because an
output that goes fast in the wrong direction is within `Snap` now and not later;
`Trails` therefore bounds an energy besides the distance: with e the distance to
the feed and v the speed towards it, while v is below `Speed`, 2 AMax e +
(Speed - v)^2 is at most 2 AMax times the room there is (`Room`). `TrailsStep` is
one sample. As long as `AMax` limits the change of speed the energy does not grow
while the feed runs away; an output that has the speed it wants either goes
against the feed and brakes (`TurnRoom`), or goes with it and slower, and then
its error is small (`SlowRoom`); both fit into `Reach`. The other direction is
the mirror image (`NewSpeedOdd`). `BrakeRoot` gives the
braking speed, an integer square root defined by a choice. `Follows` is
sufficient and not necessary: the instance of the run `feed` has only 2 positions
of `Snap` and keeps up as well. One that satisfies it (`Snap` 8, `VMax` 1, `AMax` 2,
`SendMax` 0, `Slack` 1, `Dwell` 0, `Stale` 1, paths of one waypoint, positions
0..9, the other constants as in `feed`) has 8.2 million states, on which
`TrackInv` and `NeverSnaps` hold; that is too many for the liveness property of
the run.

`Gripper_proofs` (any widths, retries, clicks, refusals and losses):
`GoalsTracked`, that `Inv` holds: types, `NothingAfterClose` and `OnTrack`. The
invariant has a part for each party: the goals in flight end in what the bridge
believes (`BridgeOK`), what a thread of the driver has seen and will act on
(`DriverOK`), which of its threads may still run when the socket is closed, and
that a budget of losses is spent by each loss (`LeftOK`).

`FramePairing_proofs` (any number of cameras, period, offsets, tolerance and
queue lengths for which the stamps of one camera increase). `RankedResult` says
that the k-th smallest element of a sequence exists, and `NearestResult` that the
chosen image is nearest and strictly nearer than every older one.

- `ImagesAccounted`: `Inv`, the types and `AllAccounted`. At `stop()` it rests on
  `LastOK`: the last frame's primary image is older than the pending one, so that
  a discarded image is told from one that became the last frame.
- `TimeRunsForward`: `NeverBack`. `PairingInv` adds that a history is ordered
  (`HistOK`) and of the last frame (`LastOK`) that its image is still in the
  history or older than all there, and that where an older one is there too, the
  frame's place lay beyond the middle between them. A later place lies beyond it
  as well, so the older image is not the nearest (`StepForward`).
- `TriggerKept`: `KeepsTrigger`, under `Steady`, which also asks for three images
  in the history. While nothing is lost, histories are contiguous and every known
  offset belongs to an image of the trigger or of the one before (`CleanCam`);
  the two clusters are apart, so that the median lies in the one with the
  majority (`MiddleRank`, `MedianSides`); a place in a cluster picks that
  cluster's image (`NearestSide`, `ChosenSide`); and its offset strengthens the
  majority (`PushCount`). An even split is decided by the next frame and never
  reopened, because the queue still grows then.

`Recorder_proofs`, one session: `EpisodesWhole` (every saved episode has exactly its
frames) and, unless the operator cuts the wait short, `FinalizedAfterSaves`. The
invariant says that the buffer of every queued episode, of the one in hand and of
the one recording has as many frames as are reported for it, and that after the
join nothing but the end marker was left in the queue. `RecorderKeepsLog` is the
refinement, `Spec => LogSpec`, also when the wait is cut short: the log is
described by its length and its elements (`LogShape`) before and after a step, so
that `stop()` appends one (`Keep`), a save that returns moves the boundary of
what is written (`Write`), and taking an episode or sending the end marker, which
`InOrder` keeps last, changes nothing.

`Recorder_proofs`, sessions: `FramesStay`, `FoldersComplete` and `NumbersNew`, with
kills, failing saves and any number of sessions. `IInv` has five named parts:
types; the shape of a session; frames (what is queued never has more than it
reports); videos (while the process lives, exactly the last `unencoded` episodes
have none, and a folder is whole only when none is missing); numbers (the next
index is at least what the dataset will hold when the queue is drained, which is
what remains of equality when saves fail).

`HeadsetFeed_proofs` (any limits, devices, lateness): `PosesRecent`,
`KeepaliveKept` and `PullsCounted`. `FeedIInv` adds that the keepalive's clock is
that of the last message and what the latch knows of the trigger.

`SafetyFilter_proofs` (any joints, reach, limit, horizon, collision set):

- `TypeCorrect`: also that the last safe command exists exactly while active.
- `StepsBounded`: while active, the command interfaces hold the last safe
  command (`out = safe`), so the limit on the difference to it bounds the step.
- `CommandsClear`: the first step of the horizon is the command itself, so an
  accepted command is clear of the other arm at that moment.

`Homing_proofs` (any number of joints, grid,
clearances, ladder of scales, groups, step, attempts; for the plugin and the
bridge):

- `RoutesCertified`. A route under construction is a *chain*: a sequence of poses
  whose segments stay among the poses that are clear at the present floor
  (`Free`). Lemmas say that chains are extended, joined at two poses that see
  each other, cut, reversed (a segment passes the same poses both ways) and put
  together where two trees meet. `PlannerIInv` is then: the floor in use is the
  one of the present scale; the greedy route and the one being smoothed are
  chains from the start; every branch of both trees is a chain from its root; and
  what has been or may be returned is certified. Every tier has a lemma.
- `GatesLetRun`. The gate's scale is not above the route's (`GateOK`) and its
  minimum is the route's own floor, so the certificate is enough.
- `NoContact` (`Inv`: `TypeOK` and `NeverIntoContact`). A route certified at any
  scale passes no pose with less clearance than the arm has, or than none, and
  the arm stands where the search began when it is run (`StartKnown`), so it is
  carried over attempts (`ArmStops`), until the arm is off a checked route, where
  it begins anew.

The type invariants of the bridge, the filter and the shaper are proved and no
run is spent on them.

Only model-checked: everything about liveness, `AcceptableFollowed` included
(outside what the prover does), and the three runs that end in a
counterexample.

## Where the code and what is written about it differ

Checked, each by a run whose counterexample shows it:

1. `recorder_savefail`: "recording keeps running alongside"
   (`lerobot_recorder.py:510`). A failed save empties the recording's buffer.
2. `homing_worse`: "no pose on the path may be worse than the pose the arm is
   ALREADY in" (`home_planner.py:37`). The floor is relative to the margin at the
   scale being tried, so that an arm inside the full cushion that is clear at a
   relaxed scale is led past poses with less clearance. What does hold is
   `NoContact`.
3. `headset_role`: "Wake both controllers ... and this resolves itself"
   (`quest_pub.py:185`). The controller fallen back to is kept for as long as it
   is listed, so the roles are never looked at again.

Met while modelling, with no run of their own:

- Bridge. "pose stale -> freeze + re-anchor on recovery"
  (`config_teleop_mantis.yaml:138`): not for a gap in which `vr_tick` did not
  run. "Stop the home ramp, re-sync IK to the measured robot"
  (`teleop_mantis.py:1832`): skipped when joint states are stale at the cancel.
  "hold the target (the same path a dropout takes)" (yaml:170): accepted samples
  still turn the tool, and so does the first tick after a joint dropout.
  "the release re-anchors, so nothing replays" (yaml:192): not when the pose is
  not fresh; `TurnsRegistered` allows both, and promises a new registration
  before the target follows the hand again.
- Homing. "this samples exactly the motion that will be executed"
  (`mantis_follower.py:564`) and "an accepted plan is certified motion"
  (`mantis_follower.py:600`): the first segment starts at the last command, up to
  MAX_JOINT_LEAD from the pose the plan was checked from, and the way back of a
  command further off is not checked either (`mantis_follower.py:878`). The
  bridge's HOME ramp starts from the last command as well
  (`teleop_mantis.py:1802`). `NeverIntoContact` excludes both.
- Recorder. After "save wait interrupted -> the episodes still queued are
  dropped" (`lerobot_recorder.py:651`) the save thread goes on saving them while
  shutdown finalizes. After a failed save the announced index is ahead of the
  dataset's. The configuration's "seconds a secondary image may differ from the
  primary's stamp" (yaml:274) is a difference from stamp plus learnt bias. A
  frame may show an older secondary image than the one before it when the learnt
  bias fell by more than a period between them, as when it is first used; that
  is the exception in `NeverBack`. A camera that jitters by half a period or more
  may change the trigger it is paired with. The last frame of an episode is
  paired before its depth image may have arrived. A last image that finds no match
  is discarded by `stop()` (`lerobot_recorder.py:460`) and is missing from the
  "frames dropped this episode waiting for a matching secondary image" (line 466);
  `AllAccounted` names it.
- Safety filter. A NaN reference, "maintenir la position actuelle"
  (`safety_filter_controller.cpp:394`), follows the position measured in each
  cycle. "commanding the inactive one moves nothing"
  (`config_mantis_follower.py:16`): the reference is kept and applied on
  activation.
- Follower. The settle tolerance equals the shaper's snap distance, so after a
  homing path that did not arrive the first action's ramp from the measured pose
  can snap: `send_action` has no walk back like `_run_path`'s (`apart` in
  `FollowerFeed`). Disconnecting resets neither the segment nor the first-action
  flag, so a second connection starts where the first left off. Two attempts in
  which the arm did not move are reported as "two full ramps", also when the
  gate or the time ended them. A `connect` that raises because of its command
  sink leaves the node to `disconnect`, one that raises while homing also
  executor, shaper and the threads.
- Headset. A reader that keeps answering from its cache keeps the pose fresh. A
  restarted publisher has forgotten the trigger latch. `vive_pub` sends poses
  that are not finite.
- Gripper. A CLOSE that the action server accepts and loses is never sent again
  (the exception in `LastClickWins`). After its retries the driver ignores the
  bridge's re-sent OPEN, because the goal has not changed. A width read before
  the hand moved can make a close a MOVE instead of a GRASP.
- Policy test server. `dummy_policy_server.py:88` says a table asking for more
  speed is "simply clamped, and the arm lags"; a step beyond the shaper's
  `resync_snap` is not limited, the output snaps to it (`fast` in `FollowerFeed`).

## Not modelled

- Target geometry and filters, Diff-IK with barriers: continuous functions of
  quaternions, Jacobians and a numerical optimiser, outside what TLC or TLAPS
  evaluate. The bridge keeps which registration each use takes, the planner sees
  the collision model as clearances.
- Dataset features, camera metadata, image conversion; calibration and point
  clouds: formats of files, read and written by one thread.
- Policy servers, clients and probes: test doubles; queue and wire are lerobot's.
- Monitor and network watcher: read-only displays.
- Configuration, launch files, containers and scripts: no state; the values that
  matter are constants here.
- Partly modelled: the filter's configuration, the plugin's observations and
  gripper goals, the WSG50's wire protocol and homing, the bridge's start-up
  probe (`snapshot_parked_pose`, which runs before anything is concurrent).

## Plan

Done: the components above. What could follow is bridge and recorder in one
model, with the recorder's actual `start` and `stop` instead of `startOk`.
