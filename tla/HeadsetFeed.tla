---------------------------- MODULE HeadsetFeed ----------------------------
(***************************************************************************)
(* The publishers of the hand's pose and buttons: quest_pub.py with its    *)
(* two backends (adb through oculus_reader, OpenVR through SteamVR) and    *)
(* vive_pub.py.  External: the reader, which answers from the last message *)
(* it got, SteamVR and the devices it lists.  Times are ages in ticks that *)
(* stop at the largest limit they are compared with.                       *)
(***************************************************************************)
EXTENDS Integers

CONSTANTS
  Backends,   \* the backends considered, of "adb", "openvr" and "vive"
  Stale,      \* QUEST_ADB_STALE
  Keepalive,  \* QUEST_ADB_KEEPALIVE
  Late,       \* a tick comes at most this long after the one before
  Devices,    \* SteamVR's device indices
  Samples,    \* the poses of the hand
  NONE,       \* None
  Changes     \* bound: outages, changes of SteamVR's device list, restarts of the publisher

ASSUME FeedAssumption ==
  Stale \in Nat /\ {Keepalive, Late} \subseteq Nat \ {0} /\ Changes \in Nat

VARIABLES
  backend,
  \* external
  source,     \* SteamVR or the reader can be started
  replies,    \* the reader or SteamVR answers
  tracked,    \* "ok", "invalid", or "nan" for a matrix that is not finite
  hand,       \* the pose the reader or SteamVR would report, NONE before the first message
  trigger,    \* "off" (below CLICK_OFF), "mid", "on" (at or above CLICK_ON)
  controllers, \* devices of class Controller
  role,       \* the device that has the hand's role, NONE while roles are not assigned
  changes,
  \* publisher
  connected,  \* reader or vr is there
  dev,        \* OpenVR: the device in use
  last,       \* adb: the last pose read
  readAge,    \* now - _last_read_t
  emitAge,    \* now - _emitted_at
  emitted,    \* _emitted_t = _last_raw_t
  latched,    \* _click_latched
  \* what it published
  poseAge,    \* since the last pose message
  click,      \* field 3 of the last buttons message
  released    \* history: a buttons message with the trigger off since the last click

external == <<source, replies, tracked, hand, trigger, controllers, role, changes>>
adb == <<last, readAge, emitAge, emitted>>
vars == <<backend, external, connected, dev, adb, latched, poseAge, click, released>>

Long == Stale + Late
Older(age, d) == IF age + d < Long THEN age + d ELSE Long

-----------------------------------------------------------------------------
(* Starting *)

\* OpenVRBackend.__init__: SteamVR is asked for by the first tick, no device is chosen;
\* VivePub and AdbBackend have the same fields.
OpenVRStarts == connected = FALSE /\ dev = NONE

\* AdbBackend.__init__: nothing read or sent yet, both long ago.
AdbStarts == last = NONE /\ readAge = Long /\ emitAge = Long /\ emitted = FALSE

\* QuestPub.__init__: one backend, the trigger not latched.
QuestStarts == backend \in Backends /\ OpenVRStarts /\ AdbStarts /\ latched = FALSE

-----------------------------------------------------------------------------
(* Polling *)

\* A start that fails is tried again at the next tick; what was started once is kept.
Connects == connected' = (connected \/ source)

\* The same of OpenVRBackend and VivePub, with SteamVR.
SteamVRConnects == connected' = (connected \/ source)

\* Seeded fault: a device is kept when it is gone.
ResolveFirst ==
  dev' \in IF dev # NONE THEN {dev}
           ELSE IF role \in controllers THEN {role}
           ELSE IF controllers = {} THEN {NONE}
           ELSE controllers

\* _resolve_device: the device in use, else the one with the role, else any controller.
Resolve ==
  dev' \in IF dev \in controllers THEN {dev}
           ELSE IF role \in controllers THEN {role}
           ELSE IF controllers = {} THEN {NONE}
           ELSE controllers

\* vive_pub: the device in use, else any controller.
AnyController ==
  dev' \in IF dev \in controllers THEN {dev}
           ELSE IF controllers = {} THEN {NONE}
           ELSE controllers

\* Seeded fault: no hysteresis.
ClickPlain(was) == trigger = "on"

\* _click, on the analog trigger.
Click(was) == IF was THEN trigger # "off" ELSE trigger = "on"

\* A buttons message with the latched click.
Buttons ==
  /\ latched' = Click(latched) /\ click' = latched'
  /\ released' = (trigger = "off" \/ (released /\ ~click'))

NoButtons == UNCHANGED <<latched, click, released>>

\* A pose message, at this tick or not.
Pose(sent, d) == poseAge' = IF sent THEN 0 ELSE Older(poseAge, d)

\* Seeded fault: a pose that has not changed is never sent again.
EmitsNew(age, same, gap) == age <= Stale /\ ~same

\* Seeded fault: the age of the last read is not looked at.
EmitsOld(age, same, gap) == ~(same /\ gap < Keepalive)

\* poll: a pose that was read recently enough is sent if it is another one, or if the keepalive
\* is due.
Emits(age, same, gap) == age <= Stale /\ ~(same /\ gap < Keepalive)

\* AdbBackend._read_raw: buttons in any case, a pose if there is a finite one.
Answers == connected' /\ replies /\ hand # NONE
Reads == Answers /\ tracked = "ok"

\* AdbBackend.poll and tick, d after the tick before.
TickAdb(d) ==
  /\ backend = "adb"
  /\ Connects
  /\ last' = IF Reads THEN hand ELSE last
  /\ readAge' = IF Reads THEN 0 ELSE Older(readAge, d)
  /\ LET same == emitted /\ last' = last
         emits == last' # NONE /\ connected' /\ Emits(readAge', same, Older(emitAge, d))
     IN  /\ emitAge' = IF emits THEN 0 ELSE Older(emitAge, d)
         /\ emitted' = (same \/ emits)
         /\ Pose(emits, d)
  /\ IF Answers THEN Buttons ELSE NoButtons
  /\ UNCHANGED dev

\* OpenVRBackend.poll and tick, which drops a pose that is not finite.
TickOpenVR(d) ==
  /\ backend = "openvr"
  /\ SteamVRConnects
  /\ IF connected' THEN Resolve ELSE UNCHANGED dev
  /\ Pose(dev' \in controllers /\ tracked = "ok", d)
  /\ IF dev' # NONE /\ replies THEN Buttons ELSE NoButtons
  /\ UNCHANGED adb

\* VivePub.tick: whatever SteamVR calls valid is sent, and the hardware click, with no latch.
TickVive(d) ==
  /\ backend = "vive"
  /\ SteamVRConnects
  /\ IF connected' THEN AnyController ELSE UNCHANGED dev
  /\ Pose(dev' \in controllers /\ tracked # "invalid", d)
  /\ IF dev' # NONE /\ replies
     THEN click' \in (IF trigger = "off" THEN {FALSE} ELSE BOOLEAN)
     ELSE UNCHANGED click
  /\ UNCHANGED <<adb, latched, released>>

\* tick, called by the timer.
Tick ==
  /\ \E d \in 1..Late : TickAdb(d) \/ TickOpenVR(d) \/ TickVive(d)
  /\ UNCHANGED <<backend, external>>

-----------------------------------------------------------------------------
(* External *)

Internal == <<backend, connected, dev, adb, latched, poseAge, click, released>>

\* The hand moves and pulls the trigger.
Hand ==
  /\ hand' \in Samples /\ trigger' \in {"off", "mid", "on"}
  /\ UNCHANGED <<Internal, source, replies, tracked, controllers, role, changes>>

\* The headset, adb or SteamVR comes, goes or loses track; devices appear and take their roles.
Change ==
  /\ changes < Changes /\ changes' = changes + 1
  /\ \/ source' = ~source /\ UNCHANGED <<replies, tracked, controllers, role>>
     \/ replies' = ~replies /\ UNCHANGED <<source, tracked, controllers, role>>
     \/ tracked' \in {"ok", "invalid", "nan"} /\ UNCHANGED <<source, replies, controllers, role>>
     \/ /\ controllers' \in SUBSET Devices
        /\ role' \in IF role \in controllers' THEN {role} ELSE controllers' \cup {NONE}
        /\ UNCHANGED <<source, replies, tracked>>
  /\ UNCHANGED <<Internal, hand, trigger>>

\* main: SIGTERM or Ctrl-C ends the publisher, which lets go of reader or SteamVR, and it is
\* started again some ticks later.  It
\* has forgotten that the trigger was pulled.
Restart ==
  /\ changes < Changes /\ changes' = changes + 1
  /\ connected' = FALSE /\ dev' = NONE
  /\ last' = NONE /\ readAge' = Long /\ emitAge' = Long /\ emitted' = FALSE
  /\ latched' = FALSE /\ released' = TRUE
  /\ Pose(FALSE, Late)
  /\ UNCHANGED <<click, backend, source, replies, tracked, hand, trigger, controllers, role>>

Init ==
  /\ source = FALSE /\ replies = FALSE /\ tracked = "invalid" /\ hand = NONE /\ trigger = "off"
  /\ controllers = {} /\ role = NONE /\ changes = 0
  /\ QuestStarts
  /\ poseAge = Long /\ click = FALSE /\ released = TRUE

Next == Tick \/ Hand \/ Change \/ Restart

\* The timer keeps firing.
Spec == Init /\ [][Next]_vars /\ WF_vars(Tick)

-----------------------------------------------------------------------------
(* Properties *)

\* Type correctness; the device in use is one SteamVR has listed.
TypeOK ==
  /\ backend \in Backends /\ {source, replies, connected, emitted, latched, click, released} \subseteq BOOLEAN
  /\ hand \in Samples \cup {NONE} /\ last \in Samples \cup {NONE}
  /\ trigger \in {"off", "mid", "on"} /\ tracked \in {"ok", "invalid", "nan"}
  /\ dev \in Devices \cup {NONE} /\ role \in Devices \cup {NONE}
  /\ {readAge, emitAge, poseAge} \subseteq 0..Long

\* A hand that holds still does not look like a dropout to the bridge: as long as poses are read,
\* one is published at least every keepalive (quest_pub.py:376).
StillHandStaysFresh ==
  [][(backend = "adb" /\ readAge' = 0) => poseAge' < Keepalive]_<<readAge, emitAge, poseAge, last>>

\* A pose is never published long after it was read (quest_pub.py:370), however often the tick is
\* late or a read fails.
NeverStale == (backend = "adb" /\ poseAge = 0) => readAge <= Stale

\* The publishers' invariant: their type, and that no old pose is published as a new one.
Inv == TypeOK /\ NeverStale

\* One pull of the trigger is one click of the gripper toggle: between two rising edges the
\* trigger was released (or the publisher restarted), with lost reads and a trigger that lingers between the
\* thresholds.
OneClickPerPull == [][(backend # "vive" /\ click' /\ ~click) => released]_click

\* Once the source is there, answers and tracks the hand, poses are published for ever: whatever
\* failed before, no restart is needed.
Flowing ==
  /\ source /\ replies /\ tracked = "ok" /\ hand # NONE
  /\ backend = "adb" \/ controllers # {}
PoseFlows == <>[]Flowing => []<>(poseAge = 0)

\* The fallback to some controller resolves itself once the roles are assigned
\* (quest_pub.py:185 says so).
RoleResolves == <>[](backend = "openvr" /\ Flowing /\ role \in controllers) => <>[](dev = role)
=============================================================================
