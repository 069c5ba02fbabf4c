---------------------------- MODULE FollowerFeed ----------------------------
(***************************************************************************)
(* The motion side of the LeRobot plugin (mantis_follower.py): connect,    *)
(* the segment that the control thread sets, the feeder thread that plays  *)
(* it into the command shaper, the legs of a homing path, send_action and  *)
(* disconnect.  Arm poses are positions on a line; a unit of time is one   *)
(* iteration of the shaper.                                                *)
(***************************************************************************)
EXTENDS CommandShaper, Sequences

CONSTANTS
  Poses,       \* the positions, an interval
  Home,        \* HOME_Q
  Speed,       \* positions per iteration of a ramp
  Lag,         \* how far the arm may trail what was published while nothing stalls it
  FeedMax,     \* iterations the feeder needs at most for one round
  SendMax,     \* iterations at most between send_action's reading the feed and its segment
  GapMax,      \* longest _gap_ema, and the 0.3 s of disconnect
  Done,        \* HOME_DONE_TOL
  Settle,      \* home_settle_tol
  Slack,       \* how far from the feed the first action's ramp may start (NeverSnaps)
  Dwell,       \* home_waypoint_dwell
  Grace,       \* HOME_SETTLE_GRACE, and the 0.15 s of disconnect
  MaxPath,     \* bound: waypoints of a homing path
  Attempts,    \* bound: homing paths tried in one connect
  Connections  \* bound: calls of connect

ASSUME FeedAssumption ==
  /\ Poses \subseteq Int /\ \A a, b \in Poses : a..b \subseteq Poses
  /\ Home \in Poses
  /\ None \notin [from : Poses, to : Poses, t : Nat, T : Nat]
  /\ Speed \in Nat \ {0} /\ SendMax \in Nat /\ Slack \in Nat
  /\ FeedMax \in Nat \ {0} /\ GapMax \in Nat /\ Dwell \in Nat /\ Grace \in Nat
  /\ 2 * FeedMax <= Grace \* a round of the feeder is 0.01 s and its call, the grace 0.15 s
  /\ MaxPath \in Nat /\ Attempts \in Nat /\ Connections \in Nat

VARIABLES
  connected,   \* _connected
  hasShaper,   \* _shaper is not None
  resources,   \* the node, its executor and spin thread exist
  seg,         \* _seg with its progress; None before the first
  first,       \* _first_action
  pc,          \* where the control thread is
  path,        \* rest of the homing path being run
  cur,         \* the point the control thread has read and will start from
  wait,        \* iterations waited in the present wait
  tries,       \* homing paths run
  clean,       \* the homing path ran to the end of a complete plan
  feeder,      \* "none", "idle", "have" a point, "ended" or "dead" with an exception
  point,       \* the point the feeder has read
  since,       \* iterations since the feeder last called the shaper
  meas,        \* the measured position
  calls,       \* calls of connect so far
  sent,        \* history: actions sent in this connection, at most 1
  apart,       \* history: at the first action the arm had stalled away from its target
  fast         \* history: an action asked for more than Speed, in this connection or by the
               \* segment that it found

link == <<connected, hasShaper, resources>>
homing == <<path, tries, clean>>
feeding == <<feeder, point, since>>
control == <<pc, cur, wait>>
history == <<calls, sent, apart, fast>>
follower == <<link, seg, first, homing, control, feeding, meas, history>>
vars == <<shaper, follower>>

Segments == [from : Poses, to : Poses, t : Nat, T : Nat]

\* The vector that goes to the shaper: driven joints, the parked ones are constant.
Vec(p) == [j \in Joints |-> p]
Out(vec) == vec[CHOOSE j \in Joints : TRUE]

-----------------------------------------------------------------------------
(* Segments *)

Complete(s) == s.t >= s.T

SegmentValue(s) ==
  IF s.T = 0 THEN s.to ELSE s.from + ((s.to - s.from) * s.t) \div s.T

SegNow == IF seg = None THEN meas ELSE SegmentValue(seg)

SetSegment(from, to, duration) == seg' = [from |-> from, to |-> to, t |-> 0, T |-> duration]

\* A ramp at the homing or approach speed, of one iteration at least.
Ramp(from, to) ==
  SetSegment(from, to, IF from = to THEN 1 ELSE CeilDiv(Dist(from, to), Speed))

FreezeFeed == IF seg = None THEN UNCHANGED seg ELSE SetSegment(SegNow, SegNow, 0)

-----------------------------------------------------------------------------
(* The feeder thread *)

\* Seeded fault: the feeder rests once the segment is complete.
FeedReadOnce ==
  /\ feeder = "idle" /\ (since > 0 \/ ~connected)
  /\ IF ~connected THEN feeder' = "ended" /\ UNCHANGED <<point, since>>
     ELSE IF seg = None \/ Complete(seg) THEN since' = 0 /\ UNCHANGED <<feeder, point>>
     ELSE feeder' = "have" /\ point' = SegmentValue(seg) /\ UNCHANGED since
  /\ UNCHANGED <<shaper, seg, first, meas, link, homing, history, control>>

FeedRead ==
  /\ feeder = "idle" /\ (since > 0 \/ ~connected)
  /\ IF ~connected THEN feeder' = "ended" /\ UNCHANGED <<point, since>>
     ELSE IF seg = None THEN since' = 0 /\ UNCHANGED <<feeder, point>>
     ELSE feeder' = "have" /\ point' = SegmentValue(seg) /\ UNCHANGED since
  /\ UNCHANGED <<shaper, seg, first, meas, link, homing, history, control>>

\* _set_target; disconnect may have taken the shaper away since the read.
FeedSet ==
  /\ feeder = "have"
  /\ IF hasShaper
     THEN SetTarget(Vec(point), None) /\ feeder' = "idle" /\ since' = 0
     ELSE feeder' = "dead" /\ UNCHANGED <<shaper, since>>
  /\ point' = Home \* no longer used
  /\ UNCHANGED <<seg, first, meas, link, homing, history, control>>

-----------------------------------------------------------------------------
(* connect *)

\* Node, subscriptions, publisher, a new shaper, and the executor's thread.  The segment of
\* the connection before is still there and has gone on; a last round of its feeder takes less
\* than this, and an output thread that outlived its join publishes no more: it reads its stop
\* flag first.
Connect ==
  /\ pc = "off" /\ calls < Connections /\ feeder # "have"
  /\ target' = None /\ ff' = None /\ age' = 0 /\ q' = None /\ v' = Zero /\ ffF' = Zero
  /\ published' = None /\ idle' = 0 /\ errors' = 0 /\ stopping' = FALSE /\ thread' = "new"
  /\ hasShaper' = TRUE /\ resources' = TRUE
  /\ calls' = calls + 1 /\ pc' = "joints" /\ sent' = 0
  /\ meas' \in Poses \* moved by others since the last connection
  /\ IF seg = None THEN UNCHANGED seg
     ELSE \E n \in seg.t..seg.T : seg' = [seg EXCEPT !.t = n]
  /\ apart' = FALSE /\ fast' = (seg # None /\ Dist(seg.from, seg.to) > Speed * seg.T)
  /\ UNCHANGED <<connected, first, cur, wait, homing, feeding>>

\* _command_sink raises: the filter's joints do not cover the driven ones.  The node is left
\* until disconnect is called.
Misconfigured ==
  /\ pc = "off" /\ calls < Connections
  /\ resources' = TRUE
  /\ calls' = calls + 1 /\ pc' = "raised" /\ sent' = 0
  /\ UNCHANGED <<shaper, connected, hasShaper, seg, first, cur, wait, meas, homing, feeding,
                 apart, fast>>

JointsArrive ==
  /\ pc = "joints"
  /\ pc' = "frames"
  /\ UNCHANGED <<shaper, seg, first, cur, wait, meas, link, homing, feeding, history>>

\* _wait_for_frames: one frame of every camera.
FramesArrive ==
  /\ pc = "frames"
  /\ pc' = "latched"
  /\ UNCHANGED <<shaper, seg, first, cur, wait, meas, link, homing, feeding, history>>

\* Seeded fault: the timeout is raised without disconnecting.
ConnectFailsKeeps ==
  /\ pc \in {"joints", "frames"}
  /\ pc' = "off"
  /\ UNCHANGED <<shaper, seg, first, cur, wait, meas, link, homing, feeding, history>>

\* Joint states or camera frames do not come in time: disconnect() and TimeoutError.
ConnectFails ==
  /\ pc \in {"joints", "frames"}
  /\ hasShaper' = FALSE /\ resources' = FALSE /\ pc' = "off"
  /\ UNCHANGED <<shaper, connected, seg, first, cur, wait, meas, homing, feeding, history>>

\* Joints and frames are there: the output thread and the feeder start, and homing begins if
\* it is configured and the arm is not at home already.
Connected ==
  /\ pc = "latched"
  /\ StartShaper
  /\ connected' = TRUE
  /\ feeder' = "idle" /\ since' = 1
  /\ tries' = 0
  /\ \/ pc' = "plan" /\ Dist(meas, Home) > Done
     \/ pc' = "ready"
  /\ UNCHANGED <<hasShaper, resources, seg, first, path, cur, wait, clean, point, meas, history>>

-----------------------------------------------------------------------------
(* Homing: the legs of the paths that the planner returned *)

\* A route ends at home or nearer to it than the arm is.
Routes == {p \in UNION {[1..n -> Poses] : n \in 1..MaxPath} :
             p[Len(p)] = Home \/ Dist(p[Len(p)], Home) < Dist(meas, Home)}

\* The leg to the head of a path, from the point where the target is.
Leg(from, waypoints) ==
  /\ Ramp(from, Head(waypoints))
  /\ path' = Tail(waypoints)
  /\ pc' = "leg" /\ wait' = 0

\* Seeded fault: the plan's first leg starts from the measured pose.
RunPathFromMeas ==
  /\ pc = "plan" /\ tries < Attempts
  /\ tries' = tries + 1
  /\ \E p \in Routes : clean' = (p[Len(p)] = Home) /\ Leg(meas, p)
  /\ UNCHANGED <<shaper, first, cur, meas, link, feeding, history>>

\* _run_path starts; the target first walks back to the arm when the two have diverged.
RunPath ==
  /\ pc = "plan" /\ tries < Attempts
  /\ tries' = tries + 1
  /\ \E p \in Routes :
       /\ clean' = (p[Len(p)] = Home)
       /\ IF Dist(SegNow, meas) > Snap
          THEN Leg(SegNow, <<meas>> \o p)
          ELSE Leg(SegNow, p)
  /\ UNCHANGED <<shaper, first, cur, meas, link, feeding, history>>

\* A leg is complete: the next one after the dwell, or the arm may settle.
LegDone ==
  /\ pc = "leg" /\ Complete(seg)
  /\ IF path = <<>> THEN pc' = "settle" ELSE pc' = "dwell"
  /\ wait' = 0
  /\ UNCHANGED <<shaper, seg, first, cur, meas, link, homing, feeding, history>>

NextLeg ==
  /\ pc = "dwell" /\ wait >= Dwell
  /\ Leg(seg.to, path)
  /\ UNCHANGED <<shaper, first, cur, tries, clean, meas, link, feeding, history>>

\* The deadline or the measured-pose gate ends the leg: the target stays where it is.
LegStopped ==
  /\ pc = "leg" /\ ~Complete(seg)
  /\ FreezeFeed
  /\ clean' = FALSE /\ path' = <<>> /\ pc' = "settle" /\ wait' = 0
  /\ UNCHANGED <<shaper, first, cur, tries, meas, link, feeding, history>>

\* _settle and what _go_home makes of it: home, near enough after a clean path, or again.
Settled ==
  /\ pc = "settle"
  /\ IF Dist(meas, Home) <= Done THEN pc' = "ready"
     ELSE /\ wait >= Grace
          /\ IF clean /\ Dist(meas, Home) <= Settle THEN pc' = "ready"
             ELSE pc' = "plan"
  /\ wait' = 0 /\ clean' = FALSE /\ tries' = IF pc' = "ready" THEN 0 ELSE tries
  /\ UNCHANGED <<shaper, seg, first, path, cur, meas, link, feeding, history>>

\* _go_home is left, its variables with it.
NoHoming == path' = <<>> /\ clean' = FALSE /\ tries' = 0

\* The attempts, the time or the routes are exhausted, or the arm never moved: connect raises,
\* connected as it is, threads and all.
HomingRaises ==
  /\ pc = "plan"
  /\ pc' = "raised" /\ NoHoming
  /\ UNCHANGED <<shaper, seg, first, cur, wait, meas, link, feeding, history>>

-----------------------------------------------------------------------------
(* send_action *)

\* The first action: a checked ramp from the measured pose when it is far, else a short one.
SendFirst ==
  /\ pc = "ready" /\ first
  /\ first' = FALSE /\ sent' = 1 /\ apart' = (Dist(SegNow, meas) > Slack)
  /\ \E p \in Poses :
       /\ Ramp(meas, p)
       /\ pc' = IF Dist(meas, p) > Done THEN "approach" ELSE "ready"
  /\ wait' = 0
  /\ UNCHANGED <<shaper, cur, meas, calls, fast, link, homing, feeding>>

\* The path to the first action collides.
FirstRefused ==
  /\ pc = "ready" /\ first
  /\ first' = FALSE
  /\ pc' = "raised"
  /\ UNCHANGED <<shaper, seg, cur, wait, meas, link, homing, feeding, history>>

ApproachDone ==
  /\ pc = "approach" /\ Complete(seg)
  /\ pc' = "ready"
  /\ UNCHANGED <<shaper, seg, first, cur, wait, meas, link, homing, feeding, history>>

\* A later action, an iteration or more after the one before: the present point is read
\* under the lock ...
SendRead ==
  /\ pc = "ready" /\ ~first
  /\ seg # None => seg.t > 0
  /\ cur' = SegNow
  /\ pc' = "send" /\ wait' = 0
  /\ UNCHANGED <<shaper, seg, first, meas, link, homing, feeding, history>>

\* ... and a segment of the smoothed interval's length starts from it, however far it goes.
SendSet ==
  /\ pc = "send"
  /\ \E gap \in 1..GapMax : \E p \in Poses :
       /\ SetSegment(cur, p, gap)
       /\ fast' = (fast \/ Dist(cur, p) > Speed * gap)
  /\ sent' = 1 /\ pc' = "ready" /\ cur' = Home /\ wait' = 0 \* no longer used
  /\ UNCHANGED <<shaper, first, meas, calls, apart, link, homing, feeding>>

-----------------------------------------------------------------------------
(* disconnect *)

\* Seeded fault: disconnect does not wait for the segment that is playing.
DisconnectAtOnce ==
  /\ pc \in {"ready", "raised"}
  /\ pc' = "stop"
  /\ wait' = 0
  /\ UNCHANGED <<shaper, seg, first, cur, meas, link, homing, feeding, history>>

\* A short segment may still be playing: wait for it (at most 0.5 s, longer than any of them).
Disconnect ==
  /\ pc \in {"ready", "raised"}
  /\ pc' = IF connected /\ hasShaper /\ seg # None /\ seg.T <= GapMax THEN "drain" ELSE "stop"
  /\ wait' = 0
  /\ UNCHANGED <<shaper, seg, first, cur, meas, link, homing, feeding, history>>

Drained ==
  /\ pc = "drain" /\ Complete(seg)
  /\ pc' = "grace" /\ wait' = 0
  /\ UNCHANGED <<shaper, seg, first, cur, meas, link, homing, feeding, history>>

\* Seeded fault: the output thread is told only when a segment has been waited for.
StopThreadsDrained ==
  /\ pc = "stop" \/ (pc = "grace" /\ wait >= Grace)
  /\ connected' = FALSE
  /\ IF pc = "grace" THEN StopShaper ELSE UNCHANGED shaper
  /\ pc' = "join" /\ wait' = 0
  /\ UNCHANGED <<hasShaper, resources, seg, first, cur, meas, homing, feeding, history>>

\* The feeder and the output thread are told to end.
StopThreads ==
  /\ pc = "stop" \/ (pc = "grace" /\ wait >= Grace)
  /\ connected' = FALSE
  /\ IF hasShaper THEN StopShaper ELSE UNCHANGED shaper
  /\ pc' = "join" /\ wait' = 0
  /\ UNCHANGED <<hasShaper, resources, seg, first, cur, meas, homing, feeding, history>>

\* The join of the output thread ends with the thread or after a second; the feeder is not
\* joined.
Disconnected ==
  /\ pc = "join"
  /\ hasShaper' = FALSE /\ resources' = FALSE /\ pc' = "off"
  /\ UNCHANGED <<shaper, connected, seg, first, cur, wait, meas, homing, feeding, history>>

\* The operator's interrupt reaches a wait of the control thread.
Interrupt ==
  /\ pc \in {"leg", "dwell", "settle", "approach"}
  /\ pc' = "raised" /\ wait' = 0 /\ NoHoming
  /\ UNCHANGED <<shaper, seg, first, cur, meas, link, feeding, history>>

-----------------------------------------------------------------------------
(* Time: an iteration of the output thread, the progress of the segment and the arm.  While a  *)
(* thread that was told to stop lingers no time is counted: nothing is waited for then.       *)

InHoming == pc \in {"plan", "leg", "dwell", "settle"}

\* The arm goes towards what is published.  It may stall while it is homing; else it trails
\* by at most Lag, or by no more than it did.
ArmMoves ==
  IF published' = None THEN UNCHANGED meas
  ELSE LET goal == Out(published')
           trail == IF published = None THEN 0 ELSE Dist(meas, Out(published))
       IN  meas' \in {p \in Poses :
                        /\ Dist(meas, p) + Dist(p, goal) = Dist(meas, goal)
                        /\ InHoming \/ Dist(p, goal) <= Lag \/ Dist(p, goal) <= trail}

Tick ==
  /\ pc \notin {"off", "joints", "frames", "latched", "join"}
  /\ feeder \in {"idle", "have"} => since < FeedMax
  /\ pc = "send" => wait < SendMax
  /\ IF thread = "running" THEN Iteration ELSE UNCHANGED shaper
  /\ seg' = IF seg = None THEN None ELSE [seg EXCEPT !.t = AtMost(@ + 1, seg.T)]
  /\ since' = AtMost(since + 1, FeedMax)
  /\ wait' = IF pc \in {"dwell", "settle", "grace", "send"}
             THEN AtMost(wait + 1, Grace + Dwell + SendMax) ELSE wait
  /\ ArmMoves
  /\ UNCHANGED <<first, pc, cur, feeder, point, link, homing, history>>

-----------------------------------------------------------------------------

Init ==
  /\ ShaperInit
  /\ connected = FALSE /\ hasShaper = FALSE /\ resources = FALSE
  /\ seg = None /\ first = TRUE
  /\ pc = "off" /\ path = <<>> /\ cur = Home /\ wait = 0 /\ tries = 0 /\ clean = FALSE
  /\ feeder = "none" /\ point = Home /\ since = 0
  /\ meas = Home
  /\ calls = 0 /\ sent = 0 /\ apart = FALSE /\ fast = FALSE

Control ==
  \/ JointsArrive \/ FramesArrive \/ ConnectFails \/ Connected
  \/ RunPath \/ LegDone \/ NextLeg \/ LegStopped \/ Settled \/ HomingRaises
  \/ SendFirst \/ FirstRefused \/ ApproachDone \/ SendRead \/ SendSet
  \/ Disconnect \/ Drained \/ StopThreads \/ Disconnected

\* The end: disconnected for the last time.
Finished ==
  /\ pc = "off" /\ calls = Connections
  /\ UNCHANGED vars

Feeder == (FeedRead \/ FeedSet)

OutputEnds == EndThread /\ UNCHANGED follower

Next == Connect \/ Misconfigured \/ Control \/ Interrupt \/ Feeder \/ OutputEnds \/ Tick \/ Finished

\* The threads run, and the control thread's waits poll; when it begins something
\* by itself is open.
Waits ==
  LegDone \/ NextLeg \/ Settled \/ ApproachDone \/ SendSet \/ Drained \/ StopThreads \/ Disconnected

Spec ==
  /\ Init /\ [][Next]_vars
  /\ WF_vars(Feeder) /\ WF_vars(OutputEnds) /\ WF_vars(Tick) /\ WF_vars(Waits)

-----------------------------------------------------------------------------
(* Properties *)

\* Type correctness; homing gives up after its attempts.
TypeOK ==
  /\ connected \in BOOLEAN /\ hasShaper \in BOOLEAN /\ resources \in BOOLEAN
  /\ seg \in Segments \cup {None} /\ first \in BOOLEAN
  /\ pc \in {"off", "joints", "frames", "latched", "plan", "leg", "dwell", "settle", "ready",
             "approach", "send", "raised", "drain", "grace", "stop", "join"}
  /\ path \in Seq(Poses) /\ cur \in Poses /\ wait \in Nat
  /\ tries \in 0..Attempts /\ clean \in BOOLEAN
  /\ feeder \in {"none", "idle", "have", "ended", "dead"}
  /\ point \in Poses /\ since \in 0..FeedMax /\ meas \in Poses
  /\ apart \in BOOLEAN /\ fast \in BOOLEAN
  /\ calls \in 0..Connections /\ sent \in 0..1

\* What the shaper was last told is behind the feed by two rounds of the feeder at most, and
\* apart by what the feed moves between send_action's reading it and setting its segment.
Lagging == Speed * (SendMax + 2 * FeedMax)

\* What is left of Snap for the output to trail the feed.
Reach == Snap - Slack - Lagging

\* Limits and gain let the output follow a feed of this Speed, within Reach: it can stop from
\* VMax and turn round while the feed goes the other way, and it catches up with a feed that
\* goes on from the lag of its gain.  (Distances times 2 * AMax, to stay in whole numbers.)
Follows ==
  /\ Speed <= VMax /\ AMax > 0 /\ FeedMax <= Stale
  /\ 2 * AMax * (Lagging + Speed + VMax) + Speed * (Speed + 2 * VMax) <= 2 * AMax * Reach
  /\ 2 * AMax * (Lagging + Speed + Speed * Tau) + Speed * Speed <= 2 * AMax * Reach

\* Through homing legs, frozen legs, a command that had left a stalled arm, the first action
\* and later ones, the feed never gets so far from the shaper's output that it would publish
\* one sample without limits (the reason for _run_path's walk back to the measured pose).
\* Two exceptions, both of send_action: a first action sent while the arm has stalled more than
\* Slack away from its target, which is not walked back; and a later action that asks for more
\* than Speed, which nothing checks.
NeverSnaps == (thread = "running" /\ q # None /\ target # None) => ~Lost(q, target) \/ apart \/ fast

\* disconnect after actions leaves the arm commanded to the last of them: the segment is
\* played to its end before the threads stop.
LastPointFed ==
  (pc = "join" /\ sent = 1 /\ seg.T <= GapMax) => target = Vec(seg.to)

\* After disconnect, its own or that of a connect that timed out, there is no node, executor or
\* shaper, and an output thread that the join did not wait for has been told to stop.  A connect
\* that raises for another reason (_command_sink, _go_home) leaves all it has made until
\* disconnect is called: pc = "raised".
CleanWhenOff ==
  pc = "off" => ~connected /\ ~hasShaper /\ ~resources /\ (thread = "running" => stopping)

\* The feeder lives as long as the connection: it finds its shaper gone, and dies of it, only
\* when it is no longer needed.
FeederLives == connected => feeder \in {"idle", "have"}

\* The plugin's invariant: its type and the shaper's, and what there is of a connection.
Inv == TypeOK /\ ShaperTypeOK /\ CleanWhenOff /\ FeederLives

\* Feeder and output thread, neither of which disconnect is sure to wait for, end after it.
ThreadsEnd ==
  (pc = "off") ~> (connected \/ (thread # "running" /\ feeder \notin {"idle", "have"}))

\* A complete segment that is left alone reaches the arm's controller, unless publishing fails.
Settles ==
  (pc = "ready" /\ seg # None /\ Complete(seg))
    ~> (pc # "ready" \/ errors > 0 \/ (seg # None /\ published = Vec(seg.to)))
=============================================================================
