------------------------- MODULE HeadsetFeed_proofs -------------------------
(* Proofs about HeadsetFeed, for every staleness limit, keepalive and lateness of the timer. *)
EXTENDS HeadsetFeed, TLAPS

\* What the publishers keep true: their type and no old pose sent; the keepalive's clock is that
\* of the last message once there was one; the latch was never set without a click, and is clear
\* only after the trigger was released.
FeedIInv ==
  /\ TypeOK /\ NeverStale
  /\ controllers \subseteq Devices
  /\ backend = "adb" /\ emitted => poseAge = emitAge
  /\ backend # "vive" => (latched => click) /\ (~latched => released)

-----------------------------------------------------------------------------
(* Ages *)

\* An age stays within its bound, is positive once time has passed, and the longest is positive.
LEMMA AgeGrows ==
  /\ Long \in Nat /\ Long > 0
  /\ \A age \in 0..Long, d \in 1..Late : Older(age, d) \in 1..Long
<1>1. Stale \in Nat /\ Late \in Nat /\ Late > 0  BY FeedAssumption
<1>2. Long \in Nat /\ Long > 0  BY <1>1 DEF Long
<1>3. ASSUME NEW age \in 0..Long, NEW d \in 1..Late PROVE Older(age, d) \in 1..Long
  BY <1>1, <1>2, <1>3 DEF Older
<1> QED BY <1>2, <1>3

\* Init establishes the invariant.
LEMMA FeedInit == Init => FeedIInv
<1> SUFFICES ASSUME Init PROVE FeedIInv  OBVIOUS
<1>1. Long \in Nat /\ Long > 0  BY AgeGrows
<1>2. {source, replies, connected, emitted, latched, click, released} \subseteq BOOLEAN
  BY Zenon DEF Init, QuestStarts, OpenVRStarts, AdbStarts
<1>3. {readAge, emitAge, poseAge} \subseteq 0..Long
  BY <1>1 DEF Init, QuestStarts, AdbStarts
<1>4. TypeOK  BY <1>2, <1>3, Zenon DEF Init, QuestStarts, OpenVRStarts, AdbStarts, TypeOK
<1> QED BY <1>4, <1>1, <1>2 DEF Init, QuestStarts, OpenVRStarts, AdbStarts, FeedIInv, NeverStale

-----------------------------------------------------------------------------
(* Buttons *)

\* A buttons message of the latching backends keeps the latch's part of the invariant.
LEMMA LatchKept ==
  ASSUME TypeOK, Buttons, ~latched => released
  PROVE  /\ {latched', click', released'} \subseteq BOOLEAN
         /\ latched' = click'
         /\ ~latched' => released'
<1>1. trigger \in {"off", "mid", "on"} /\ latched \in BOOLEAN /\ released \in BOOLEAN
  BY DEF TypeOK
<1>2. CASE latched  BY <1>1, <1>2 DEF Buttons, Click
<1>3. CASE ~latched  BY <1>1, <1>3 DEF Buttons, Click
<1> QED BY <1>2, <1>3

-----------------------------------------------------------------------------
(* The timer *)

\* A tick of the adb backend.
LEMMA AdbTick ==
  ASSUME FeedIInv, NEW d \in 1..Late, TickAdb(d), UNCHANGED <<backend, external>>
  PROVE  /\ FeedIInv'
         /\ readAge' = 0 => poseAge' < Keepalive
<1> DEFINE same == emitted /\ last' = last
           emits == /\ last' # NONE /\ connected'
                    /\ Emits(readAge', same, Older(emitAge, d))
<1>1. TypeOK /\ backend = "adb" /\ controllers \subseteq Devices  BY DEF FeedIInv, TickAdb
<1>2. /\ readAge \in 0..Long /\ emitAge \in 0..Long /\ poseAge \in 0..Long
      /\ Long \in Nat /\ Long > 0 /\ Stale \in Nat /\ Keepalive \in Nat /\ Keepalive > 0
  BY <1>1, AgeGrows, FeedAssumption DEF TypeOK
<1>3. /\ Older(readAge, d) \in 1..Long /\ Older(emitAge, d) \in 1..Long
      /\ Older(poseAge, d) \in 1..Long
  BY <1>2, AgeGrows
<1>4. /\ emitAge' = IF emits THEN 0 ELSE Older(emitAge, d)
      /\ emitted' = (same \/ emits)
      /\ poseAge' = IF emits THEN 0 ELSE Older(poseAge, d)
      /\ readAge' = IF Reads THEN 0 ELSE Older(readAge, d)
      /\ last' = IF Reads THEN hand ELSE last
      /\ connected' = (connected \/ source) /\ dev' = dev
  BY DEF TickAdb, Connects, Pose
<1>5. UNCHANGED <<backend, source, replies, tracked, hand, trigger, controllers, role, changes>>
  BY DEF external
<1>6. emits => readAge' <= Stale  BY DEF Emits
<1>7. ~emits /\ readAge' = 0 => same /\ Older(emitAge, d) < Keepalive
  <2>1. SUFFICES ASSUME ~emits, readAge' = 0 PROVE same /\ Older(emitAge, d) < Keepalive
    OBVIOUS
  <2>2. Reads  BY <2>1, <1>3, <1>4
  <2>3. last' # NONE  BY <2>2, <1>4 DEF Reads, Answers
  <2>4. connected'  BY <2>2 DEF Reads, Answers
  <2>5. 0 <= Stale  BY <1>2
  <2> QED BY <2>1, <2>3, <2>4, <2>5 DEF Emits
<1>8. same => poseAge = emitAge  BY <1>1 DEF FeedIInv
<1> HIDE DEF same, emits
<1>9. {latched', click', released'} \subseteq BOOLEAN
      /\ (latched' => click') /\ (~latched' => released')
  <2>1. CASE Answers  BY <2>1, <1>1, LatchKept DEF TickAdb, FeedIInv
  <2>2. CASE ~Answers  BY <2>2, <1>1 DEF TickAdb, NoButtons, FeedIInv, TypeOK
  <2> QED BY <2>1, <2>2
<1>10. /\ readAge' \in 0..Long /\ emitAge' \in 0..Long /\ poseAge' \in 0..Long
       /\ (emitted' => poseAge' = emitAge')
       /\ (poseAge' = 0 => readAge' <= Stale)
       /\ (readAge' = 0 => poseAge' < Keepalive)
  <2>1. CASE emits  BY <2>1, <1>2, <1>3, <1>4, <1>6
  <2>2. CASE ~emits
    <3>1. emitted' => same  BY <2>2, <1>4, Zenon
    <3>2. same => poseAge' = emitAge'  BY <2>2, <1>4, <1>8
    <3>3. same /\ Older(emitAge, d) < Keepalive => poseAge' < Keepalive  BY <2>2, <1>4, <1>8
    <3>4. readAge' = 0 => poseAge' < Keepalive  BY <2>2, <3>3, <1>7, Zenon
    <3>5. poseAge' \in 1..Long /\ emitAge' \in 1..Long /\ readAge' \in 0..Long
      BY <2>2, <1>2, <1>3, <1>4
    <3>6. emitted' => poseAge' = emitAge'  BY <3>1, <3>2, Zenon
    <3> QED BY <3>4, <3>5, <3>6, <1>2
  <2> QED BY <2>1, <2>2
<1>11. emitted' \in BOOLEAN /\ connected' \in BOOLEAN
  BY <1>1, <1>4 DEF TypeOK, same, emits, Emits
<1>12. last' \in Samples \cup {NONE}  BY <1>1, <1>4 DEF TypeOK
<1>13. TypeOK'  BY <1>1, <1>4, <1>5, <1>9, <1>10, <1>11, <1>12 DEF TypeOK
<1> QED BY <1>1, <1>5, <1>9, <1>10, <1>13 DEF FeedIInv, NeverStale

\* A tick of the backends that ask SteamVR.
LEMMA SteamVRTick ==
  ASSUME FeedIInv, NEW d \in 1..Late, TickOpenVR(d) \/ TickVive(d),
         UNCHANGED <<backend, external>>
  PROVE  FeedIInv'
<1>1. TypeOK /\ backend # "adb" /\ controllers \subseteq Devices
  BY DEF FeedIInv, TickOpenVR, TickVive
<1>2. Older(poseAge, d) \in 0..Long /\ 0 \in 0..Long  BY <1>1, AgeGrows DEF TypeOK
<1>3. poseAge' \in 0..Long  BY <1>2 DEF TickOpenVR, TickVive, Pose
<1>4. UNCHANGED <<backend, source, replies, tracked, hand, trigger, controllers, role, changes>>
  BY DEF external
<1>5. UNCHANGED <<last, readAge, emitAge, emitted>>  BY DEF TickOpenVR, TickVive, adb
<1>6. connected' \in BOOLEAN  BY <1>1 DEF TickOpenVR, TickVive, SteamVRConnects, TypeOK
<1>7. dev' \in Devices \cup {NONE}
  <2>1. dev \in Devices \cup {NONE} /\ controllers \subseteq Devices  BY <1>1 DEF TypeOK
  <2>2. ASSUME Resolve PROVE dev' \in Devices \cup {NONE}  BY <2>1, <2>2 DEF Resolve
  <2>3. ASSUME AnyController PROVE dev' \in Devices \cup {NONE}  BY <2>1, <2>3 DEF AnyController
  <2> QED BY <2>1, <2>2, <2>3 DEF TickOpenVR, TickVive
<1>8. /\ {latched', click', released'} \subseteq BOOLEAN
      /\ backend # "vive" => (latched' => click') /\ (~latched' => released')
  <2>1. CASE TickVive(d)
    BY <2>1, <1>1 DEF TickVive, TypeOK
  <2>2. CASE TickOpenVR(d) /\ dev' # NONE /\ replies
    BY <2>2, <1>1, LatchKept DEF TickOpenVR, FeedIInv
  <2>3. CASE TickOpenVR(d) /\ ~(dev' # NONE /\ replies)
    BY <2>3, <1>1 DEF TickOpenVR, NoButtons, FeedIInv, TypeOK
  <2> QED BY <2>1, <2>2, <2>3
<1>9. TypeOK'  BY <1>1, <1>3, <1>4, <1>5, <1>6, <1>7, <1>8 DEF TypeOK
<1> QED BY <1>1, <1>4, <1>8, <1>9 DEF FeedIInv, NeverStale

-----------------------------------------------------------------------------
(* The theorems *)

\* Every step keeps the invariant, and a step in which a pose is read leaves a recent message.
LEMMA FeedStep ==
  ASSUME FeedIInv, [Next]_vars
  PROVE  /\ FeedIInv'
         /\ [backend = "adb" /\ readAge' = 0 => poseAge' < Keepalive]_<<readAge, emitAge, poseAge, last>>
<1> DEFINE Fresh == [backend = "adb" /\ readAge' = 0 => poseAge' < Keepalive]_<<readAge, emitAge, poseAge, last>>
<1>0. TypeOK  BY DEF FeedIInv
<1>1. ASSUME Tick PROVE FeedIInv' /\ Fresh
  <2>1. PICK d \in 1..Late : TickAdb(d) \/ TickOpenVR(d) \/ TickVive(d)  BY <1>1 DEF Tick
  <2>2. UNCHANGED <<backend, external>>  BY <1>1 DEF Tick
  <2>3. CASE TickAdb(d)  BY <2>2, <2>3, AdbTick
  <2>4. CASE TickOpenVR(d) \/ TickVive(d)
    <3>1. FeedIInv'  BY <2>2, <2>4, SteamVRTick
    <3>2. backend # "adb"  BY <2>4 DEF TickOpenVR, TickVive
    <3> QED BY <3>1, <3>2
  <2> QED BY <2>1, <2>3, <2>4
<1>2. ASSUME Hand PROVE FeedIInv' /\ Fresh
  BY <1>0, <1>2 DEF Hand, Internal, adb, FeedIInv, TypeOK, NeverStale
<1>3. ASSUME Change PROVE FeedIInv' /\ Fresh
  <2>1. UNCHANGED <<backend, connected, dev, last, readAge, emitAge, emitted, latched, poseAge,
                    click, released, hand, trigger>>
    BY <1>3 DEF Change, Internal, adb
  <2>2. /\ source' \in BOOLEAN /\ replies' \in BOOLEAN /\ tracked' \in {"ok", "invalid", "nan"}
        /\ controllers' \subseteq Devices /\ role' \in Devices \cup {NONE}
    <3>1. /\ source \in BOOLEAN /\ replies \in BOOLEAN /\ tracked \in {"ok", "invalid", "nan"}
          /\ controllers \subseteq Devices /\ role \in Devices \cup {NONE}
      BY DEF FeedIInv, TypeOK
    <3> QED BY <1>3, <3>1 DEF Change
  <2> QED BY <1>0, <2>1, <2>2 DEF FeedIInv, TypeOK, NeverStale
<1>4. ASSUME Restart PROVE FeedIInv' /\ Fresh
  <2>1. /\ UNCHANGED <<click, backend, source, replies, tracked, hand, trigger, controllers, role>>
        /\ connected' = FALSE /\ dev' = NONE /\ last' = NONE
        /\ readAge' = Long /\ emitAge' = Long /\ emitted' = FALSE
        /\ latched' = FALSE /\ released' = TRUE /\ poseAge' = Older(poseAge, Late)
    BY <1>4 DEF Restart, Pose
  <2>2. Long \in Nat /\ Long > 0 /\ Late \in 1..Late  BY AgeGrows, FeedAssumption
  <2>3. poseAge' \in 1..Long  BY <1>0, <2>1, <2>2, AgeGrows DEF TypeOK
  <2>4. TypeOK'
    <3>1. /\ {source', replies', connected', emitted', latched', click', released'} \subseteq BOOLEAN
      BY <1>0, <2>1, Zenon DEF TypeOK
    <3>2. {readAge', emitAge', poseAge'} \subseteq 0..Long  BY <2>1, <2>2, <2>3
    <3> QED BY <1>0, <2>1, <3>1, <3>2, Zenon DEF TypeOK
  <2>5. NeverStale' /\ poseAge' # 0 /\ readAge' # 0  BY <2>1, <2>2, <2>3 DEF NeverStale
  <2> QED BY <2>1, <2>4, <2>5 DEF FeedIInv
<1>5. ASSUME UNCHANGED vars PROVE FeedIInv' /\ Fresh
  BY <1>0, <1>5 DEF vars, external, adb, FeedIInv, TypeOK, NeverStale
<1> QED BY <1>1, <1>2, <1>3, <1>4, <1>5 DEF Next

\* The publishers' types hold and no pose is published long after it was read (AdbBackend.poll).
THEOREM PosesRecent == Spec => []Inv
<1>1. Init => FeedIInv  BY FeedInit
<1>2. FeedIInv /\ [Next]_vars => FeedIInv'  BY FeedStep
<1>3. FeedIInv => Inv  BY DEF FeedIInv, Inv
<1> QED BY <1>1, <1>2, <1>3, PTL DEF Spec

\* While poses are read, one is published at least every keepalive (AdbBackend.poll).
THEOREM KeepaliveKept == Spec => StillHandStaysFresh
<1>1. Init => FeedIInv  BY FeedInit
<1>2. FeedIInv /\ [Next]_vars => FeedIInv'  BY FeedStep
<1>3. FeedIInv /\ [Next]_vars
        => [backend = "adb" /\ readAge' = 0 => poseAge' < Keepalive]_<<readAge, emitAge, poseAge, last>>
  BY FeedStep
<1> QED BY <1>1, <1>2, <1>3, PTL DEF Spec, StillHandStaysFresh

\* Between two rising edges of the published click the trigger was released (_click).
THEOREM PullsCounted == Spec => OneClickPerPull
<1>1. Init => FeedIInv  BY FeedInit
<1>2. FeedIInv /\ [Next]_vars => FeedIInv'  BY FeedStep
<1>3. FeedIInv => [(backend # "vive" /\ click' /\ ~click) => released]_click
  BY DEF FeedIInv
<1> QED BY <1>1, <1>2, <1>3, PTL DEF Spec, OneClickPerPull
=============================================================================
