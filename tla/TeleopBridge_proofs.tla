------------------------ MODULE TeleopBridge_proofs ------------------------
(***************************************************************************)
(* Proofs about TeleopBridge for every value of its constants.  A callback *)
(* is a chain of handlers from Bridge record to Bridge record, so the      *)
(* argument is one lemma per handler: what it returns, and that it keeps   *)
(* the record orderly and its cached poses in step.  A step of the system  *)
(* composes those lemmas.                                                  *)
(***************************************************************************)
EXTENDS TeleopBridge, TLAPS

\* The control state of one Bridge record.  More than the invariants: a ramp has a
\* waypoint left, only a ready bridge engages or homes, and a pending blend can only be
\* outdated while a ramp that will clear it is running.
Orderly(s) ==
  /\ s \in Bridge
  /\ s.homing => ~s.engaged
  /\ s.lock => s.engaged
  /\ s.homing /\ s.rec => s.stopRec
  /\ s.stopRec => s.homing
  /\ s.engaged \/ s.homing => s.ready
  /\ s.homing => s.wps > 0
  /\ s.blend > 0 /\ "blend" \in s.stale => s.homing
  /\ "blend" \notin s.misused

\* The cached poses of one Bridge record, given the freshness of the streams: an
\* outdated one is flagged, or about to be, before anything uses it; an outdated
\* registration of rotations may be used meanwhile, but then a new one is due.
InStep(s, fresh, js) ==
  /\ "ref" \notin s.misused
  /\ "park" \notin s.misused
  /\ s.engaged /\ ("ref" \in s.stale \/ "turn" \in s.stale \/ "twist" \in s.stale)
       => s.poseLost \/ ~fresh
  /\ s.engaged /\ ("turn" \in s.misused \/ "twist" \in s.misused)
       => s.poseLost \/ ~fresh
  /\ s.ready /\ ~s.homing /\ "park" \in s.stale => s.jointsLost \/ ~js

\* The fields Orderly and InStep read that most handlers leave alone.
SameMode(s, t) ==
  /\ t.ready = s.ready /\ t.jointsLost = s.jointsLost
  /\ t.homing = s.homing /\ t.wps = s.wps /\ t.stopRec = s.stopRec /\ t.rec = s.rec

\* Only the route of the ramp differs.
SameButRoute(s, t) ==
  /\ t.ready = s.ready /\ t.homing = s.homing /\ t.engaged = s.engaged
  /\ t.poseLost = s.poseLost /\ t.jointsLost = s.jointsLost
  /\ t.lock = s.lock /\ t.rec = s.rec /\ t.stopRec = s.stopRec /\ t.blend = s.blend
  /\ t.stale = s.stale /\ t.misused = s.misused

\* Only the recording differs.
SameButEpisode(s, t) ==
  /\ t.ready = s.ready /\ t.homing = s.homing /\ t.engaged = s.engaged
  /\ t.poseLost = s.poseLost /\ t.jointsLost = s.jointsLost
  /\ t.lock = s.lock /\ t.wps = s.wps /\ t.stopRec = s.stopRec /\ t.blend = s.blend
  /\ t.stale = s.stale /\ t.misused = s.misused

\* Only the state a joint-state dropout leaves differs.
SameButDropout(s, t) ==
  /\ t.ready = s.ready /\ t.homing = s.homing /\ t.engaged = s.engaged
  /\ t.lock = s.lock /\ t.wps = s.wps /\ t.rec = s.rec /\ t.stopRec = s.stopRec
  /\ t.misused = s.misused

\* Only what the IK command counts differs.
SameButUse(s, t) ==
  /\ t.ready = s.ready /\ t.homing = s.homing /\ t.engaged = s.engaged
  /\ t.poseLost = s.poseLost /\ t.jointsLost = s.jointsLost
  /\ t.lock = s.lock /\ t.wps = s.wps /\ t.rec = s.rec /\ t.stopRec = s.stopRec

USE DEF Cached, Registration, Stages

-----------------------------------------------------------------------------
(* The cached poses *)

LEMMA OutdateType ==
  ASSUME NEW s \in Bridge, NEW P \in SUBSET Cached
  PROVE  Outdate(s, P) \in Bridge
BY DEF Bridge, Outdate

LEMMA UseType ==
  ASSUME NEW s \in Bridge, NEW P \in SUBSET Cached
  PROVE  Use(s, P) \in Bridge
BY DEF Bridge, Use

LEMMA ResyncType ==
  ASSUME NEW s \in Bridge, NEW js \in BOOLEAN
  PROVE  Resync(s, js) \in Bridge
BY DEF Bridge, Resync

LEMMA SetBlendType ==
  ASSUME NEW s \in Bridge, NEW n \in 0..BlendTicks
  PROVE  SetBlend(s, n) \in Bridge
BY BridgeAssumption DEF Bridge, SetBlend

LEMMA CaptureRefsType ==
  ASSUME NEW s \in Bridge
  PROVE  CaptureRefs(s) \in Bridge
BY DEF Bridge, CaptureRefs

LEMMA BlendCounts == 0 \in 0..BlendTicks /\ BlendTicks \in 0..BlendTicks
BY BridgeAssumption

-----------------------------------------------------------------------------
(* Clutch and axis lock *)

LEMMA AxlockClearResult ==
  ASSUME NEW s \in Bridge
  PROVE  LET t == AxlockClear(s) IN
         /\ t \in Bridge
         /\ SameMode(s, t) /\ ~t.lock
         /\ t.engaged = s.engaged /\ t.poseLost = s.poseLost /\ t.blend = s.blend
         /\ t.misused = s.misused
         /\ t.stale = IF s.lock THEN s.stale \cup {"ref", "twist"} ELSE s.stale
<1>1. CASE s.lock
  BY <1>1 DEF Bridge, AxlockClear, Outdate, SameMode
<1>2. CASE ~s.lock
  BY <1>2 DEF Bridge, AxlockClear, SameMode
<1> QED BY <1>1, <1>2

LEMMA OnEngageResult ==
  ASSUME NEW s \in Bridge
  PROVE  LET t == OnEngage(s) IN
         /\ t \in Bridge
         /\ SameMode(s, t) /\ t.lock = s.lock
         /\ t.engaged /\ ~t.poseLost /\ t.blend = 0
         /\ t.misused = s.misused \ {"turn", "twist"}
         /\ t.stale = (s.stale \ {"blend"}) \ Registration
<1>1. OnEngage(s) \in Bridge
  <2> DEFINE a == [s EXCEPT !.engaged = TRUE, !.poseLost = FALSE, !.lag = FALSE]
  <2>1. a \in Bridge
    BY DEF Bridge
  <2>2. OnEngage(s) = CaptureRefs(SetBlend(a, 0))
    BY DEF OnEngage
  <2> QED BY <2>1, <2>2, SetBlendType, CaptureRefsType, BlendCounts
<1> QED BY <1>1, SMTT(20) DEF Bridge, OnEngage, SetBlend, CaptureRefs, SameMode

LEMMA OnDisengageResult ==
  ASSUME NEW s \in Bridge, NEW js \in BOOLEAN
  PROVE  LET t == OnDisengage(s, js) IN
         /\ t \in Bridge
         /\ SameMode(s, t) /\ ~t.lock /\ ~t.engaged /\ t.poseLost = s.poseLost
         /\ t.misused = s.misused
         /\ t.blend = IF js THEN BlendTicks ELSE s.blend
         /\ "park" \in t.stale => ~js /\ "park" \in s.stale
         /\ "blend" \in t.stale => ~js /\ "blend" \in s.stale
<1> DEFINE c   == AxlockClear(s)
           off == [c EXCEPT !.engaged = FALSE]
<1>1. /\ c \in Bridge /\ SameMode(s, c) /\ ~c.lock
      /\ c.poseLost = s.poseLost /\ c.blend = s.blend /\ c.misused = s.misused
      /\ c.stale = IF s.lock THEN s.stale \cup {"ref", "twist"} ELSE s.stale
  BY AxlockClearResult
<1>2. OnDisengage(s, js) =
        Outdate(IF js THEN Resync(SetBlend(off, BlendTicks), js) ELSE off, {"ref"})
  BY DEF OnDisengage
<1> HIDE DEF c
<1>3. off \in Bridge
  BY <1>1 DEF Bridge
<1>4. OnDisengage(s, js) \in Bridge
  <2> HIDE DEF off
  <2> QED BY <1>2, <1>3, SetBlendType, ResyncType, OutdateType, BlendCounts
<1>5. CASE js
  BY <1>1, <1>2, <1>4, <1>5 DEF Bridge, SetBlend, Resync, Outdate, SameMode
<1>6. CASE ~js
  BY <1>1, <1>2, <1>4, <1>6 DEF Bridge, Outdate, SameMode
<1> QED BY <1>5, <1>6

LEMMA OnEngageKeeps ==
  ASSUME NEW s, Orderly(s), s.ready, ~s.homing,
         NEW fresh \in BOOLEAN, NEW js \in BOOLEAN
  PROVE  /\ Orderly(OnEngage(s))
         /\ InStep(s, fresh, js) => InStep(OnEngage(s), fresh, js)
<1>1. s \in Bridge
  BY DEF Orderly
<1> QED BY <1>1, OnEngageResult DEF Orderly, InStep, SameMode

LEMMA OnDisengageKeeps ==
  ASSUME NEW s, Orderly(s), s.ready, NEW fresh \in BOOLEAN, NEW js \in BOOLEAN
  PROVE  /\ Orderly(OnDisengage(s, js))
         /\ InStep(s, fresh, js) => InStep(OnDisengage(s, js), fresh, js)
<1>1. s \in Bridge
  BY DEF Orderly
<1> QED BY <1>1, OnDisengageResult DEF Orderly, InStep, SameMode

LEMMA AxlockReleaseKeeps ==
  ASSUME NEW s, Orderly(s), NEW fresh \in BOOLEAN, NEW js \in BOOLEAN
  PROVE  /\ Orderly(AxlockRelease(s, fresh))
         /\ InStep(s, fresh, js) => InStep(AxlockRelease(s, fresh), fresh, js)
<1> DEFINE c == AxlockClear(s)
<1>1. /\ c \in Bridge /\ SameMode(s, c) /\ ~c.lock /\ c.engaged = s.engaged
      /\ c.poseLost = s.poseLost /\ c.blend = s.blend /\ c.misused = s.misused
      /\ c.stale = IF s.lock THEN s.stale \cup {"ref", "twist"} ELSE s.stale
  BY AxlockClearResult DEF Orderly
<1>2. AxlockRelease(s, fresh) = IF s.lock /\ s.engaged /\ fresh THEN CaptureRefs(c) ELSE c
  BY DEF AxlockRelease
<1> HIDE DEF c
<1>3. CASE s.lock /\ s.engaged /\ fresh
  <2>1. CaptureRefs(c) \in Bridge
    BY <1>1, CaptureRefsType
  <2>2. /\ SameMode(c, CaptureRefs(c)) /\ CaptureRefs(c).lock = c.lock
        /\ CaptureRefs(c).engaged = c.engaged /\ CaptureRefs(c).poseLost = c.poseLost
        /\ CaptureRefs(c).blend = c.blend
        /\ CaptureRefs(c).misused = c.misused \ {"turn", "twist"}
        /\ CaptureRefs(c).stale = c.stale \ Registration
    BY <1>1 DEF Bridge, CaptureRefs, SameMode
  <2> QED BY <1>1, <1>2, <1>3, <2>1, <2>2 DEF Orderly, InStep, SameMode
<1>4. CASE ~(s.lock /\ s.engaged /\ fresh)
  BY <1>1, <1>2, <1>4 DEF Orderly, InStep, SameMode
<1> QED BY <1>3, <1>4

-----------------------------------------------------------------------------
(* HOME *)

LEMMA RouteResult ==
  ASSUME NEW s \in Bridge, NEW n \in 0..MaxWaypoints
  PROVE  LET t == Route(s, n) IN
         /\ t \in Bridge /\ t.wps = n /\ SameButRoute(s, t)
<1> DEFINE r  == IF n = 0 THEN 0 ELSE LegTicks
           st == IF n = 0 THEN "idle" ELSE "ramp"
           u  == [s EXCEPT !.wps = n]
           v  == [u EXCEPT !.ramp = r]
           w  == [v EXCEPT !.stage = st]
<1>1. r \in 0..LegTicks /\ st \in Stages
  BY BridgeAssumption
<1>2. Route(s, n) = w
  BY DEF Route, Bridge
<1> HIDE DEF r, st
<1>3. u \in Bridge /\ u.wps = n /\ SameButRoute(s, u)
  BY DEF Bridge, SameButRoute
<1> HIDE DEF u
<1>4. v \in Bridge /\ v.wps = n /\ SameButRoute(s, v)
  BY <1>1, <1>3 DEF Bridge, SameButRoute
<1> HIDE DEF v
<1>5. w \in Bridge /\ w.wps = n /\ SameButRoute(s, w)
  BY <1>1, <1>4 DEF Bridge, SameButRoute
<1> QED BY <1>2, <1>5

LEMMA StartHomeKeeps ==
  ASSUME NEW s, Orderly(s), NEW fresh \in BOOLEAN, NEW js \in BOOLEAN,
         NEW stopping \in BOOLEAN, NEW path \in 0..MaxWaypoints
  PROVE  /\ Orderly(StartHome(s, stopping, path, js))
         /\ InStep(s, fresh, js) => InStep(StartHome(s, stopping, path, js), fresh, js)
<1> DEFINE d      == OnDisengage(s, js)
           frozen == IF s.engaged THEN SetBlend(d, 0) ELSE s
           route  == Route(frozen, path)
           ramp   == [route EXCEPT !.homing = TRUE, !.stopRec = stopping]
<1>1. CASE s.homing \/ ~s.ready \/ ~js \/ (~stopping /\ s.rec)
  BY <1>1 DEF StartHome
<1>2. CASE ~(s.homing \/ ~s.ready \/ ~js \/ (~stopping /\ s.rec))
  <2>1. StartHome(s, stopping, path, js) = IF path = 0 THEN frozen ELSE ramp
    BY <1>2 DEF StartHome
  <2>2. /\ s \in Bridge
        /\ d \in Bridge /\ SameMode(s, d) /\ ~d.lock /\ ~d.engaged
        /\ d.misused = s.misused
        /\ "park" \in d.stale => "park" \in s.stale
    BY OnDisengageResult DEF Orderly
  <2> HIDE DEF d
  <2>3. /\ SetBlend(d, 0) \in Bridge /\ SameMode(d, SetBlend(d, 0))
        /\ SetBlend(d, 0).lock = d.lock /\ SetBlend(d, 0).engaged = d.engaged
        /\ SetBlend(d, 0).blend = 0 /\ SetBlend(d, 0).misused = d.misused
        /\ SetBlend(d, 0).stale = d.stale \ {"blend"}
    BY <2>2, SetBlendType, BlendCounts DEF Bridge, SetBlend, SameMode
  <2>4. /\ frozen \in Bridge /\ SameMode(s, frozen) /\ ~frozen.lock /\ ~frozen.engaged
        /\ frozen.misused = s.misused
        /\ frozen.blend > 0 => ~s.engaged /\ frozen.stale = s.stale /\ frozen.blend = s.blend
        /\ "park" \in frozen.stale => "park" \in s.stale
    <3>1. CASE s.engaged
      BY <2>2, <2>3, <3>1 DEF SameMode
    <3>2. CASE ~s.engaged
      BY <2>2, <3>2 DEF SameMode, Orderly
    <3> QED BY <3>1, <3>2
  <2> HIDE DEF frozen
  <2>5. CASE path = 0
    BY <1>2, <2>1, <2>4, <2>5 DEF Orderly, InStep, SameMode
  <2>6. CASE path # 0
    <3>1. /\ route \in Bridge /\ route.wps = path
          /\ route.ready = frozen.ready /\ route.rec = frozen.rec
          /\ route.lock = frozen.lock /\ route.engaged = frozen.engaged
          /\ route.misused = frozen.misused
      BY <2>4, RouteResult DEF SameButRoute
    <3> HIDE DEF route
    <3>2. /\ ramp \in Bridge
          /\ ramp.homing /\ ramp.wps = path /\ ramp.stopRec = stopping
          /\ ramp.ready = route.ready /\ ramp.rec = route.rec
          /\ ramp.lock = route.lock /\ ramp.engaged = route.engaged
          /\ ramp.misused = route.misused
      BY <3>1 DEF Bridge
    <3> HIDE DEF ramp
    <3>3. path > 0
      BY <2>6, BridgeAssumption
    <3> QED BY <1>2, <2>1, <2>4, <2>6, <3>1, <3>2, <3>3 DEF Orderly, InStep, SameMode
  <2> QED BY <2>5, <2>6
<1> QED BY <1>1, <1>2

LEMMA EndHomeKeeps ==
  ASSUME NEW s \in Bridge, s.ready, ~s.engaged, ~s.lock, "blend" \notin s.misused,
         NEW fresh \in BOOLEAN, NEW js \in BOOLEAN
  PROVE  LET t == EndHome(s, js) IN
         /\ Orderly(t)
         /\ ~t.homing /\ ~t.engaged /\ t.misused = s.misused /\ t.jointsLost = s.jointsLost
         /\ js => "park" \notin t.stale
<1> DEFINE route == Route(s, 0)
           over == [route EXCEPT !.homing = FALSE, !.stopRec = FALSE,
                                 !.rec = @ /\ ~s.stopRec]
           b    == SetBlend(over, 0)
           r    == Resync(b, js)
           t    == Outdate(r, {"ref"})
<1>1. EndHome(s, js) = t
  BY DEF EndHome
<1>2. /\ over \in Bridge
      /\ over.ready = s.ready /\ ~over.homing /\ ~over.stopRec
      /\ over.engaged = s.engaged /\ over.lock = s.lock /\ over.jointsLost = s.jointsLost
      /\ over.misused = s.misused /\ over.stale = s.stale
  <2>1. /\ route \in Bridge /\ route.ready = s.ready /\ route.engaged = s.engaged
        /\ route.lock = s.lock /\ route.jointsLost = s.jointsLost
        /\ route.misused = s.misused /\ route.stale = s.stale
    <3>1. 0 \in 0..MaxWaypoints
      BY BridgeAssumption
    <3> QED BY <3>1, RouteResult DEF SameButRoute
  <2> HIDE DEF route
  <2>2. (route.rec /\ ~s.stopRec) \in BOOLEAN
    OBVIOUS
  <2> QED BY <2>1, <2>2 DEF Bridge
<1> HIDE DEF over
<1>3. /\ b \in Bridge /\ SameMode(over, b)
      /\ b.engaged = over.engaged /\ b.lock = over.lock /\ b.misused = over.misused
      /\ b.blend = 0
  BY <1>2, SetBlendType, BlendCounts DEF Bridge, SetBlend, SameMode
<1> HIDE DEF b
<1>4. /\ r \in Bridge /\ SameMode(b, r)
      /\ r.engaged = b.engaged /\ r.lock = b.lock /\ r.misused = b.misused /\ r.blend = b.blend
      /\ js => "park" \notin r.stale
  <2>1. CASE js
    BY <1>3, <2>1, ResyncType DEF Bridge, Resync, SameMode
  <2>2. CASE ~js
    BY <1>3, <2>2 DEF Bridge, Resync, SameMode
  <2> QED BY <2>1, <2>2
<1> HIDE DEF r
<1>5. /\ t \in Bridge /\ SameMode(r, t)
      /\ t.engaged = r.engaged /\ t.lock = r.lock /\ t.misused = r.misused /\ t.blend = r.blend
      /\ t.stale = r.stale \cup {"ref"}
  BY <1>4, OutdateType DEF Bridge, Outdate, SameMode
<1> HIDE DEF t
<1> QED BY <1>1, <1>2, <1>3, <1>4, <1>5 DEF Orderly, SameMode

LEMMA HomeCommandResult ==
  ASSUME NEW s \in Bridge
  PROVE  LET t == HomeCommand(s) IN
         /\ t \in Bridge /\ t.wps = s.wps /\ t.ramp = s.ramp
         /\ SameMode(s, t) /\ t.engaged = s.engaged /\ t.lock = s.lock
         /\ t.misused = s.misused
<1> DEFINE P == {"park"} \cup (IF s.blend > 0 THEN {"blend"} ELSE {})
<1>1. P \in SUBSET Cached
  OBVIOUS
<1>2. HomeCommand(s) = Outdate(s, P)
  BY DEF HomeCommand
<1> HIDE DEF P
<1> QED BY <1>1, <1>2, OutdateType DEF Bridge, Outdate, SameMode

\* A ramp in progress, the hand frozen.
Ramping(s) ==
  s.ready /\ s.homing /\ ~s.engaged /\ ~s.lock /\ s.wps > 0 /\ (s.rec => s.stopRec)

LEMMA HomeTickKeeps ==
  ASSUME NEW s, Orderly(s), s.homing, NEW fresh \in BOOLEAN,
         NEW gated \in BOOLEAN, NEW settled \in BOOLEAN, NEW elapsed \in BOOLEAN
  PROVE  /\ Orderly(HomeTick(s, gated, settled, elapsed))
         /\ InStep(s, fresh, TRUE) => InStep(HomeTick(s, gated, settled, elapsed), fresh, TRUE)
<1> DEFINE t == HomeCommand(s)
           h == HomeTick(s, gated, settled, elapsed)
<1>1. /\ s \in Bridge /\ s.ready /\ ~s.engaged /\ ~s.lock /\ s.wps > 0
      /\ s.rec => s.stopRec
      /\ "blend" \notin s.misused /\ s.wps \in 0..MaxWaypoints /\ s.ramp \in 0..LegTicks
  BY DEF Orderly, Bridge
<1>2. /\ t \in Bridge /\ t.wps = s.wps /\ t.ramp = s.ramp
      /\ SameMode(s, t) /\ t.engaged = s.engaged /\ t.lock = s.lock /\ t.misused = s.misused
  BY <1>1, HomeCommandResult
<1>3. Ramping(t)
  BY <1>1, <1>2 DEF SameMode, Ramping
<1>4. ASSUME NEW u \in Bridge, u.ready, ~u.engaged, ~u.lock,
             u.misused = s.misused, h = EndHome(u, TRUE)
      PROVE  Orderly(h) /\ (InStep(s, fresh, TRUE) => InStep(h, fresh, TRUE))
  <2>1. "blend" \notin u.misused
    BY <1>1, <1>4
  <2>2. LET e == EndHome(u, TRUE) IN
          /\ Orderly(e) /\ ~e.engaged /\ e.misused = u.misused /\ "park" \notin e.stale
    BY <1>4, <2>1, EndHomeKeeps
  <2> QED BY <1>4, <2>2 DEF InStep
<1>5. ASSUME NEW u \in Bridge, Ramping(u), u.misused = s.misused, h = u
      PROVE  Orderly(h) /\ (InStep(s, fresh, TRUE) => InStep(h, fresh, TRUE))
  <2>1. "blend" \notin u.misused
    BY <1>1, <1>5
  <2>2. Orderly(u)
    BY <1>5, <2>1 DEF Orderly, Ramping
  <2>3. InStep(s, fresh, TRUE) => InStep(u, fresh, TRUE)
    BY <1>5 DEF InStep, Ramping
  <2> QED BY <1>5, <2>2, <2>3
<1> HIDE DEF t
<1>6. CASE gated
  <2>1. h = EndHome(s, TRUE)
    BY <1>6 DEF HomeTick
  <2> QED BY <1>1, <1>4, <2>1
<1>7. CASE ~gated /\ s.ramp > 0
  <2> DEFINE u == [t EXCEPT !.ramp = @ - 1]
  <2>1. h = u
    BY <1>1, <1>7, BridgeAssumption DEF HomeTick, t
  <2>2. t.ramp - 1 \in 0..LegTicks
    BY <1>1, <1>2, <1>7, BridgeAssumption
  <2>3. u \in Bridge /\ Ramping(u) /\ u.misused = s.misused
    BY <1>2, <1>3, <2>2 DEF Bridge, Ramping
  <2> HIDE DEF u
  <2> QED BY <1>5, <2>1, <2>3
<1>8. CASE ~gated /\ ~(s.ramp > 0) /\ s.wps > 1
  <2>1. CASE s.stage # "dwell"
    <3> DEFINE u == [t EXCEPT !.stage = "dwell"]
    <3>1. h = u
      BY <1>1, <1>8, <2>1, BridgeAssumption DEF HomeTick, t
    <3>2. u \in Bridge /\ Ramping(u) /\ u.misused = s.misused
      BY <1>2, <1>3 DEF Bridge, Ramping
    <3> HIDE DEF u
    <3> QED BY <1>5, <3>1, <3>2
  <2>2. CASE s.stage = "dwell" /\ ~elapsed
    <3>1. h = t
      BY <1>1, <1>8, <2>2, BridgeAssumption DEF HomeTick, t
    <3> QED BY <1>2, <1>3, <1>5, <3>1
  <2>3. CASE s.stage = "dwell" /\ elapsed
    <3> DEFINE u == Route(t, s.wps - 1)
    <3>1. h = u
      BY <1>1, <1>8, <2>3, BridgeAssumption DEF HomeTick, t
    <3>2. s.wps - 1 \in 0..MaxWaypoints /\ s.wps - 1 > 0
      BY <1>1, <1>8, BridgeAssumption
    <3>3. u \in Bridge /\ u.wps = s.wps - 1 /\ SameButRoute(t, u)
      BY <1>2, <3>2, RouteResult
    <3> HIDE DEF u
    <3>4. Ramping(u) /\ u.misused = s.misused
      BY <1>2, <1>3, <3>2, <3>3 DEF Ramping, SameButRoute
    <3> QED BY <1>5, <3>1, <3>3, <3>4
  <2> QED BY <2>1, <2>2, <2>3
<1>9. CASE ~gated /\ ~(s.ramp > 0) /\ ~(s.wps > 1)
  <2>1. CASE settled \/ (s.stage = "settle" /\ elapsed)
    <3>1. h = EndHome(t, TRUE)
      BY <1>1, <1>9, <2>1, BridgeAssumption DEF HomeTick, t
    <3> QED BY <1>2, <1>3, <1>4, <3>1 DEF Ramping
  <2>2. CASE ~(settled \/ (s.stage = "settle" /\ elapsed))
    <3> DEFINE u == [t EXCEPT !.stage = "settle"]
    <3>1. h = u
      BY <1>1, <1>9, <2>2, BridgeAssumption DEF HomeTick, t
    <3>2. u \in Bridge /\ Ramping(u) /\ u.misused = s.misused
      BY <1>2, <1>3 DEF Bridge, Ramping
    <3> HIDE DEF u
    <3> QED BY <1>5, <3>1, <3>2
  <2> QED BY <2>1, <2>2
<1> QED BY <1>6, <1>7, <1>8, <1>9

-----------------------------------------------------------------------------
(* vr_tick *)

LEMMA TrackKeeps ==
  ASSUME NEW s, Orderly(s), NEW fresh \in BOOLEAN, NEW js \in BOOLEAN
  PROVE  /\ Orderly(Track(s, fresh))
         /\ InStep(s, fresh, js) => InStep(Track(s, fresh), fresh, js)
<1>1. CASE ~(s.ready /\ s.engaged)
  BY <1>1 DEF Track
<1>2. CASE s.ready /\ s.engaged /\ ~fresh
  <2> DEFINE t == [s EXCEPT !.poseLost = TRUE]
  <2>1. Track(s, fresh) = t
    BY <1>2 DEF Track
  <2>2. t \in Bridge
    BY DEF Orderly, Bridge
  <2> QED BY <1>2, <2>1, <2>2 DEF Orderly, Bridge, InStep
<1>3. CASE s.ready /\ s.engaged /\ fresh
  <2> DEFINE f == [s EXCEPT !.poseLost = FALSE]
             c == IF s.poseLost THEN CaptureRefs(f) ELSE s
             t == Use(c, {"ref"})
  <2>1. Track(s, fresh) = t
    BY <1>3 DEF Track
  <2>2. s \in Bridge /\ "blend" \notin s.misused
    BY DEF Orderly
  <2>3. /\ c \in Bridge /\ SameMode(s, c) /\ c.engaged = s.engaged /\ c.lock = s.lock
        /\ c.blend = s.blend
        /\ \A p \in {"ref", "park", "blend"} : p \in c.misused <=> p \in s.misused
        /\ s.poseLost => /\ Registration \cap c.stale = {}
                         /\ {"turn", "twist"} \cap c.misused = {}
        /\ ~s.poseLost => c = s
        /\ "park" \in c.stale <=> "park" \in s.stale
        /\ "blend" \in c.stale <=> "blend" \in s.stale
    <3>1. CASE s.poseLost
      <4>1. f \in Bridge
        BY <2>2 DEF Bridge
      <4>2. c \in Bridge
        BY <3>1, <4>1, CaptureRefsType
      <4> QED BY <2>2, <3>1, <4>2 DEF Bridge, CaptureRefs, SameMode
    <3>2. CASE ~s.poseLost
      BY <2>2, <3>2 DEF SameMode
    <3> QED BY <3>1, <3>2
  <2> HIDE DEF c
  <2>4. /\ t \in Bridge /\ SameMode(c, t) /\ t.engaged = c.engaged /\ t.lock = c.lock
        /\ t.blend = c.blend /\ t.stale = c.stale /\ t.poseLost = c.poseLost
        /\ t.misused = c.misused \cup ({"ref"} \cap c.stale)
    BY <2>3, UseType DEF Bridge, Use, SameMode
  <2> HIDE DEF t
  <2>5. Orderly(t)
    BY <2>2, <2>3, <2>4 DEF Orderly, SameMode
  <2>6. ASSUME InStep(s, fresh, js)
        PROVE  InStep(t, fresh, js)
    <3>1. /\ "ref" \notin c.stale /\ "turn" \notin c.stale /\ "twist" \notin c.stale
          /\ "turn" \notin c.misused /\ "twist" \notin c.misused
      BY <1>3, <2>3, <2>6 DEF InStep
    <3> QED BY <1>3, <2>3, <2>4, <2>6, <3>1 DEF InStep, SameMode
  <2> QED BY <2>1, <2>5, <2>6
<1> QED BY <1>1, <1>2, <1>3

LEMMA CancelHomeKeeps ==
  ASSUME NEW s, Orderly(s), s.homing, NEW fresh \in BOOLEAN, NEW js \in BOOLEAN
  PROVE  /\ Orderly(EndHome(s, js))
         /\ InStep(s, fresh, js) => InStep(EndHome(s, js), fresh, js)
<1>1. s \in Bridge /\ s.ready /\ ~s.engaged /\ ~s.lock /\ "blend" \notin s.misused
  BY DEF Orderly
<1>2. LET t == EndHome(s, js) IN
        /\ Orderly(t)
        /\ ~t.homing /\ ~t.engaged /\ t.misused = s.misused /\ t.jointsLost = s.jointsLost
        /\ js => "park" \notin t.stale
  BY <1>1, EndHomeKeeps
<1> QED BY <1>2 DEF InStep

LEMMA PadKeeps ==
  ASSUME NEW s, Orderly(s), NEW pad \in {"none", "early", "late"},
         NEW fresh \in BOOLEAN, NEW js \in BOOLEAN
  PROVE  /\ Orderly(Pad(s, pad, fresh, js))
         /\ InStep(s, fresh, js) => InStep(Pad(s, pad, fresh, js), fresh, js)
<1>1. CASE pad # "none" /\ s.homing
  BY <1>1, CancelHomeKeeps DEF Pad
<1>2. CASE pad # "none" /\ ~s.homing /\ s.engaged
  <2>1. s.ready
    BY <1>2 DEF Orderly
  <2> QED BY <1>2, <2>1, OnDisengageKeeps DEF Pad
<1>3. CASE ~s.homing /\ ~s.engaged /\ pad = "late" /\ s.ready /\ fresh
  BY <1>3, OnEngageKeeps DEF Pad
<1>4. CASE \/ pad = "none"
           \/ ~s.homing /\ ~s.engaged /\ ~(pad = "late" /\ s.ready /\ fresh)
  BY <1>4 DEF Pad
<1> QED BY <1>1, <1>2, <1>3, <1>4

\* Recording stopped.
LEMMA StoppedKeeps ==
  ASSUME NEW s, Orderly(s), NEW fresh \in BOOLEAN, NEW js \in BOOLEAN
  PROVE  LET t == [s EXCEPT !.rec = FALSE] IN
         /\ Orderly(t) /\ t.engaged = s.engaged
         /\ InStep(s, fresh, js) => InStep(t, fresh, js)
<1>1. [s EXCEPT !.rec = FALSE] \in Bridge
  BY DEF Orderly, Bridge
<1> QED BY <1>1 DEF Orderly, Bridge, InStep

LEMMA StopEpisodeKeeps ==
  ASSUME NEW s, Orderly(s), NEW path \in 0..MaxWaypoints,
         NEW fresh \in BOOLEAN, NEW js \in BOOLEAN
  PROVE  /\ Orderly(StopEpisode(s, path, js))
         /\ InStep(s, fresh, js) => InStep(StopEpisode(s, path, js), fresh, js)
<1> DEFINE homed   == IF HomeOnStop THEN StartHome(s, TRUE, path, js) ELSE s
           stopped == [homed EXCEPT !.rec = FALSE]
<1>1. Orderly(homed) /\ (InStep(s, fresh, js) => InStep(homed, fresh, js))
  BY StartHomeKeeps
<1>2. StopEpisode(s, path, js) =
        IF homed.homing /\ ~s.homing THEN homed
        ELSE IF stopped.engaged THEN OnDisengage(stopped, js)
        ELSE stopped
  BY DEF StopEpisode
<1> HIDE DEF homed
<1>3. Orderly(stopped) /\ (InStep(homed, fresh, js) => InStep(stopped, fresh, js))
  BY <1>1, StoppedKeeps
<1> HIDE DEF stopped
<1>4. ASSUME stopped.engaged
      PROVE  /\ Orderly(OnDisengage(stopped, js))
             /\ InStep(stopped, fresh, js) => InStep(OnDisengage(stopped, js), fresh, js)
  <2>1. stopped.ready
    BY <1>3, <1>4 DEF Orderly
  <2> QED BY <1>3, <2>1, OnDisengageKeeps
<1> QED BY <1>1, <1>2, <1>3, <1>4

LEMMA StartEpisodeKeeps ==
  ASSUME NEW s, Orderly(s), ~s.homing, NEW startOk \in BOOLEAN,
         NEW fresh \in BOOLEAN, NEW js \in BOOLEAN
  PROVE  /\ Orderly(StartEpisode(s, fresh, js, startOk))
         /\ InStep(s, fresh, js) => InStep(StartEpisode(s, fresh, js, startOk), fresh, js)
<1> DEFINE live == IF ~s.engaged /\ s.ready /\ fresh THEN OnEngage(s) ELSE s
           on   == [live EXCEPT !.rec = TRUE, !.ep = 1 - @]
<1>1. /\ Orderly(live) /\ (InStep(s, fresh, js) => InStep(live, fresh, js))
      /\ ~live.homing
  <2>1. s \in Bridge
    BY DEF Orderly
  <2>2. CASE ~s.engaged /\ s.ready /\ fresh
    <3>1. ~OnEngage(s).homing
      BY <2>1, OnEngageResult DEF SameMode
    <3> QED BY <2>2, <3>1, OnEngageKeeps
  <2>3. CASE ~(~s.engaged /\ s.ready /\ fresh)
    BY <2>3
  <2> QED BY <2>2, <2>3
<1>2. StartEpisode(s, fresh, js, startOk) =
        IF ~live.engaged THEN live ELSE IF startOk THEN on ELSE OnDisengage(live, js)
  BY DEF StartEpisode
<1> HIDE DEF live
<1>3. Orderly(on) /\ (InStep(live, fresh, js) => InStep(on, fresh, js))
  <2>1. live \in Bridge /\ 1 - live.ep \in {0, 1}
    BY <1>1 DEF Orderly, Bridge
  <2>2. on \in Bridge
    BY <2>1 DEF Bridge
  <2>3. /\ SameButEpisode(live, on) /\ on.rec
    BY <2>1 DEF Bridge, SameButEpisode
  <2> HIDE DEF on
  <2> QED BY <1>1, <2>2, <2>3 DEF Orderly, InStep, SameButEpisode
<1> HIDE DEF on
<1>4. ASSUME live.engaged
      PROVE  /\ Orderly(OnDisengage(live, js))
             /\ InStep(live, fresh, js) => InStep(OnDisengage(live, js), fresh, js)
  <2>1. live.ready
    BY <1>1, <1>4 DEF Orderly
  <2> QED BY <1>1, <2>1, OnDisengageKeeps
<1> QED BY <1>1, <1>2, <1>3, <1>4

LEMMA MenuKeeps ==
  ASSUME NEW s, Orderly(s), NEW menu \in BOOLEAN, NEW path \in 0..MaxWaypoints,
         NEW startOk \in BOOLEAN, NEW fresh \in BOOLEAN, NEW js \in BOOLEAN
  PROVE  LET t == Menu(s, menu, fresh, js, path, startOk) IN
         Orderly(t) /\ (InStep(s, fresh, js) => InStep(t, fresh, js))
<1>1. CASE ~menu \/ (~s.rec /\ s.homing)
  BY <1>1 DEF Menu
<1>2. CASE menu /\ s.rec
  BY <1>2, StopEpisodeKeeps DEF Menu
<1>3. CASE menu /\ ~s.rec /\ ~s.homing
  BY <1>3, StartEpisodeKeeps DEF Menu
<1> QED BY <1>1, <1>2, <1>3

LEMMA HomeKeeps ==
  ASSUME NEW s, Orderly(s), NEW home \in BOOLEAN, NEW path \in 0..MaxWaypoints,
         NEW fresh \in BOOLEAN, NEW js \in BOOLEAN
  PROVE  LET t == Home(s, home, path, js) IN
         Orderly(t) /\ (InStep(s, fresh, js) => InStep(t, fresh, js))
<1>1. CASE ~home
  BY <1>1 DEF Home
<1>2. CASE home /\ s.homing
  BY <1>2, CancelHomeKeeps DEF Home
<1>3. CASE home /\ ~s.homing
  BY <1>3, StartHomeKeeps DEF Home
<1> QED BY <1>1, <1>2, <1>3

LEMMA LockKeeps ==
  ASSUME NEW s, Orderly(s), NEW axl \in {"off", "held", "pressed"},
         NEW fresh \in BOOLEAN, NEW js \in BOOLEAN
  PROVE  LET t == Lock(s, axl, fresh) IN
         Orderly(t) /\ (InStep(s, fresh, js) => InStep(t, fresh, js))
<1> DEFINE locked == [s EXCEPT !.lock = TRUE]
<1>1. CASE axl = "off"
  <2>1. Lock(s, axl, fresh) \in {s, AxlockRelease(s, fresh)}
    BY <1>1 DEF Lock
  <2> QED BY <2>1, AxlockReleaseKeeps
<1>2. CASE axl = "held"
  BY <1>2 DEF Lock
<1>3. CASE axl = "pressed" /\ s.lock
  <2>1. Lock(s, axl, fresh) \in {s, AxlockRelease(s, fresh)}
    BY <1>3 DEF Lock
  <2> QED BY <2>1, AxlockReleaseKeeps
<1>4. CASE axl = "pressed" /\ ~s.lock /\ (s.homing \/ ~s.engaged)
  BY <1>4 DEF Lock
<1>5. CASE axl = "pressed" /\ ~s.lock /\ ~s.homing /\ s.engaged
  <2>1. Lock(s, axl, fresh) = locked
    BY <1>5 DEF Lock, AxlockEngage
  <2>2. locked \in Bridge
    BY DEF Orderly, Bridge
  <2> QED BY <1>5, <2>1, <2>2 DEF Orderly, Bridge, InStep
<1> QED BY <1>1, <1>2, <1>3, <1>4, <1>5

-----------------------------------------------------------------------------
(* tick *)

LEMMA JointsRecoveredKeeps ==
  ASSUME NEW s, Orderly(s), NEW fresh \in BOOLEAN
  PROVE  LET t == JointsRecovered(s) IN
         /\ Orderly(t) /\ t.ready = s.ready /\ t.homing = s.homing /\ t.engaged = s.engaged
         /\ ~t.jointsLost
         /\ InStep(s, fresh, TRUE) => InStep(t, fresh, TRUE)
<1>1. s \in Bridge /\ "blend" \notin s.misused
  BY DEF Orderly
<1>2. CASE ~s.jointsLost
  BY <1>2 DEF JointsRecovered
<1>3. CASE s.jointsLost
  <2> DEFINE a == [s EXCEPT !.jointsLost = FALSE, !.poseLost = @ \/ s.engaged]
             b == SetBlend(a, BlendTicks)
             c == Resync(b, TRUE)
             P == IF s.engaged THEN {"ref", "turn"} ELSE {"ref"}
             t == Outdate(c, P)
  <2>1. JointsRecovered(s) = t
    BY <1>3 DEF JointsRecovered
  <2>2. (s.poseLost \/ s.engaged) \in BOOLEAN
    OBVIOUS
  <2>3. /\ a \in Bridge /\ SameButDropout(s, a) /\ ~a.jointsLost
        /\ s.engaged => a.poseLost
    BY <1>1, <2>2 DEF Bridge, SameButDropout
  <2> HIDE DEF a
  <2>4. /\ b \in Bridge /\ SameButDropout(s, b) /\ ~b.jointsLost
        /\ s.engaged => b.poseLost
        /\ "blend" \notin b.stale
    BY <2>3, SetBlendType, BlendCounts DEF Bridge, SetBlend, SameButDropout
  <2> HIDE DEF b
  <2>5. /\ c \in Bridge /\ SameButDropout(s, c) /\ ~c.jointsLost
        /\ s.engaged => c.poseLost
        /\ "blend" \notin c.stale /\ "park" \notin c.stale
    BY <2>4, ResyncType DEF Bridge, Resync, SameButDropout
  <2> HIDE DEF c
  <2>6. P \in SUBSET Cached /\ "blend" \notin P /\ "park" \notin P
    OBVIOUS
  <2> HIDE DEF P
  <2>7. /\ t \in Bridge /\ SameButDropout(s, t) /\ ~t.jointsLost
        /\ s.engaged => t.poseLost
        /\ "blend" \notin t.stale /\ "park" \notin t.stale
    BY <2>5, <2>6, OutdateType DEF Bridge, Outdate, SameButDropout
  <2> HIDE DEF t
  <2> QED BY <1>1, <2>1, <2>7 DEF Orderly, InStep, SameButDropout
<1> QED BY <1>2, <1>3

LEMMA IkTickKeeps ==
  ASSUME NEW s, Orderly(s), s.ready, ~s.homing, ~s.jointsLost, NEW fresh \in BOOLEAN,
         NEW lagging \in BOOLEAN, NEW elapsed \in BOOLEAN
  PROVE  LET t == IkTick(s, lagging, elapsed) IN
         Orderly(t) /\ (InStep(s, fresh, TRUE) => InStep(t, fresh, TRUE))
<1> DEFINE turned  == IF s.engaged /\ ~s.lock THEN {"turn", "twist"} ELSE {}
           moved   == Use(s, {"park"} \cup turned)
           watched == IF moved.engaged THEN [moved EXCEPT !.lag = lagging] ELSE moved
           used    == Use(watched, {"blend"})
           left    == IF s.blend = 1 THEN used.stale \ {"blend"} ELSE used.stale
           u       == [used EXCEPT !.blend = @ - 1]
           blended == [u EXCEPT !.stale = left]
<1>1. s \in Bridge /\ "blend" \notin s.misused
  BY DEF Orderly
<1>2. /\ moved \in Bridge /\ SameButUse(s, moved)
      /\ moved.blend = s.blend /\ moved.stale = s.stale
      /\ moved.misused = s.misused \cup (({"park"} \cup turned) \cap s.stale)
  <2>1. {"park"} \cup turned \in SUBSET Cached
    OBVIOUS
  <2> HIDE DEF turned
  <2> QED BY <1>1, <2>1, UseType DEF Bridge, Use, SameButUse
<1>3. IkTick(s, lagging, elapsed) =
        IF s.engaged /\ lagging /\ s.lag /\ elapsed THEN OnDisengage(moved, TRUE)
        ELSE IF s.blend > 0 THEN [used EXCEPT !.blend = @ - 1, !.stale = left]
        ELSE watched
  <2>1. watched \in Bridge
    BY <1>2 DEF Bridge
  <2>2. used \in Bridge
    BY <2>1, UseType
  <2> HIDE DEF moved, watched
  <2>3. IkTick(s, lagging, elapsed) =
          IF s.engaged /\ lagging /\ s.lag /\ elapsed THEN OnDisengage(moved, TRUE)
          ELSE IF s.blend > 0
               THEN [used EXCEPT !.blend = @ - 1,
                                 !.stale = IF s.blend = 1 THEN @ \ {"blend"} ELSE @]
               ELSE watched
    BY DEF IkTick, moved, watched
  <2> HIDE DEF used
  <2> QED BY <2>2, <2>3 DEF Bridge
<1> HIDE DEF moved
<1>4. Orderly(moved) /\ (InStep(s, fresh, TRUE) => InStep(moved, fresh, TRUE))
  BY <1>1, <1>2 DEF Orderly, InStep, SameButUse
<1>5. /\ watched \in Bridge /\ SameButUse(moved, watched)
      /\ watched.blend = moved.blend /\ watched.stale = moved.stale
      /\ watched.misused = moved.misused
  <2>1. CASE moved.engaged
    BY <1>2, <2>1 DEF Bridge, SameButUse
  <2>2. CASE ~moved.engaged
    BY <1>2, <2>2 DEF SameButUse
  <2> QED BY <2>1, <2>2
<1> HIDE DEF watched
<1>6. Orderly(watched) /\ (InStep(moved, fresh, TRUE) => InStep(watched, fresh, TRUE))
  BY <1>4, <1>5 DEF Orderly, InStep, SameButUse
<1>7. CASE s.engaged /\ lagging /\ s.lag /\ elapsed
  <2>1. moved.ready
    BY <1>2 DEF SameButUse
  <2>2. /\ Orderly(OnDisengage(moved, TRUE))
        /\ InStep(moved, fresh, TRUE) => InStep(OnDisengage(moved, TRUE), fresh, TRUE)
    BY <1>4, <2>1, OnDisengageKeeps
  <2> QED BY <1>3, <1>4, <1>7, <2>2
<1>8. CASE ~(s.engaged /\ lagging /\ s.lag /\ elapsed) /\ s.blend > 0
  <2>1. "blend" \notin s.stale
    BY <1>8 DEF Orderly
  <2>2. /\ used \in Bridge /\ SameButUse(watched, used)
        /\ used.blend = watched.blend /\ used.stale = watched.stale
        /\ used.misused = watched.misused
    <3>1. watched \in Bridge /\ {"blend"} \cap watched.stale = {}
      BY <1>2, <1>5, <2>1
    <3>2. used = [watched EXCEPT !.misused = @ \cup {}]
      BY <3>1 DEF Use
    <3>3. used \in Bridge
      BY <3>1, UseType
    <3> HIDE DEF used
    <3> QED BY <3>1, <3>2, <3>3 DEF Bridge, SameButUse
  <2>3. used.blend - 1 \in 0..BlendTicks
    BY <1>2, <1>5, <1>8, <2>2, BridgeAssumption DEF Bridge
  <2>4. left = used.stale
    BY <1>2, <1>5, <2>1, <2>2
  <2> HIDE DEF used, left
  <2>5. IkTick(s, lagging, elapsed) = u
    <3>1. IkTick(s, lagging, elapsed) = [used EXCEPT !.blend = @ - 1, !.stale = used.stale]
      BY <1>3, <1>8, <2>4
    <3> QED BY <2>2, <3>1 DEF Bridge
  <2>6. /\ u \in Bridge /\ SameButUse(used, u) /\ u.stale = used.stale
        /\ u.misused = used.misused
    BY <2>2, <2>3 DEF Bridge, SameButUse
  <2>7. "blend" \notin u.stale
    BY <1>2, <1>5, <2>1, <2>2, <2>6
  <2> HIDE DEF u
  <2>8. Orderly(u) /\ (InStep(watched, fresh, TRUE) => InStep(u, fresh, TRUE))
    BY <1>6, <2>2, <2>6, <2>7 DEF Orderly, InStep, SameButUse
  <2> QED BY <1>4, <1>6, <2>5, <2>8
<1>9. CASE ~(s.engaged /\ lagging /\ s.lag /\ elapsed) /\ ~(s.blend > 0)
  BY <1>3, <1>4, <1>6, <1>9
<1> QED BY <1>7, <1>8, <1>9

-----------------------------------------------------------------------------
(* The steps of the node *)

\* The inductive invariant: an orderly bridge and, when every stale window is seen by
\* its timer, cached poses in step with the streams.
IInv ==
  /\ Orderly(bridge)
  /\ poseFresh \in BOOLEAN /\ degraded \in BOOLEAN /\ jointsFresh \in BOOLEAN
  /\ Prompt => InStep(bridge, poseFresh /\ ~degraded, jointsFresh)

LEMMA InitStep == Init => IInv
<1> SUFFICES ASSUME Init PROVE IInv
  OBVIOUS
<1>1. bridge \in Bridge
  BY BridgeAssumption DEF Init, Bridge
<1> QED BY <1>1 DEF Init, IInv, Orderly, InStep

LEMMA VrTickStep ==
  ASSUME IInv, NEW pad \in {"none", "early", "late"}, NEW menu \in BOOLEAN,
         NEW home \in BOOLEAN, NEW axl \in {"off", "held", "pressed"},
         NEW path \in 0..MaxWaypoints, NEW startOk \in BOOLEAN,
         VrTick(pad, menu, home, axl, path, startOk)
  PROVE  IInv'
<1> DEFINE fresh == poseFresh /\ ~degraded
           s1    == Track(bridge, fresh)
           s2    == Pad(s1, pad, fresh, jointsFresh)
           s3    == Menu(s2, menu, fresh, jointsFresh, path, startOk)
           s4    == Home(s3, home, path, jointsFresh)
           s5    == Lock(s4, axl, fresh)
           ok(s) == InStep(bridge, fresh, jointsFresh) => InStep(s, fresh, jointsFresh)
<1>1. /\ UNCHANGED <<poseFresh, degraded, jointsFresh>>
      /\ bridge' = s5
  BY DEF VrTick
<1>2. fresh \in BOOLEAN /\ jointsFresh \in BOOLEAN /\ Orderly(bridge)
  BY DEF IInv
<1>3. Prompt => InStep(bridge, fresh, jointsFresh)
  BY DEF IInv
<1> HIDE DEF fresh
<1>4. Orderly(s1) /\ ok(s1)
  BY <1>2, TrackKeeps
<1> HIDE DEF s1
<1>5. Orderly(s2) /\ ok(s2)
  BY <1>2, <1>4, PadKeeps
<1> HIDE DEF s2
<1>6. Orderly(s3) /\ ok(s3)
  BY <1>2, <1>5, MenuKeeps
<1> HIDE DEF s3
<1>7. Orderly(s4) /\ ok(s4)
  BY <1>2, <1>6, HomeKeeps
<1> HIDE DEF s4
<1>8. Orderly(s5) /\ ok(s5)
  BY <1>2, <1>7, LockKeeps
<1> HIDE DEF s5
<1>9. Prompt => InStep(bridge', fresh, jointsFresh)
  BY <1>1, <1>3, <1>8
<1> QED BY <1>1, <1>2, <1>8, <1>9 DEF IInv, fresh

LEMMA TickStep ==
  ASSUME IInv, NEW gated \in BOOLEAN, NEW settled \in BOOLEAN,
         NEW lagging \in BOOLEAN, NEW elapsed \in BOOLEAN,
         Tick(gated, settled, lagging, elapsed)
  PROVE  IInv'
<1> DEFINE fresh == poseFresh /\ ~degraded
           s     == JointsRecovered(bridge)
<1>1. /\ bridge.ready
      /\ UNCHANGED <<poseFresh, degraded, jointsFresh>>
      /\ bridge' =
           IF ~jointsFresh THEN Outdate([bridge EXCEPT !.jointsLost = TRUE], {"park"})
           ELSE IF s.homing THEN HomeTick(s, gated, settled, elapsed)
           ELSE IF s.engaged /\ gated THEN OnDisengage(s, TRUE)
           ELSE IkTick(s, lagging, elapsed)
  BY DEF Tick
<1>2. fresh \in BOOLEAN /\ jointsFresh \in BOOLEAN /\ Orderly(bridge)
  BY DEF IInv
<1>3. Prompt => InStep(bridge, fresh, jointsFresh)
  BY DEF IInv
<1> HIDE DEF fresh
<1>4. /\ Orderly(s) /\ s.ready /\ ~s.jointsLost
      /\ InStep(bridge, fresh, TRUE) => InStep(s, fresh, TRUE)
  BY <1>1, <1>2, JointsRecoveredKeeps
<1> HIDE DEF s
<1>5. ASSUME Orderly(bridge'), Prompt => InStep(bridge', fresh, jointsFresh)
      PROVE  IInv'
  BY <1>1, <1>2, <1>5 DEF IInv, fresh
<1>6. CASE ~jointsFresh
  <2> DEFINE a == [bridge EXCEPT !.jointsLost = TRUE]
             t == Outdate(a, {"park"})
  <2>1. a \in Bridge /\ SameButDropout(bridge, a) /\ a.jointsLost /\ a.stale = bridge.stale
        /\ a.poseLost = bridge.poseLost /\ a.blend = bridge.blend
    BY <1>2 DEF Orderly, Bridge, SameButDropout
  <2> HIDE DEF a
  <2>2. t \in Bridge /\ SameButDropout(bridge, t) /\ t.jointsLost
        /\ t.stale = bridge.stale \cup {"park"}
        /\ t.poseLost = bridge.poseLost /\ t.blend = bridge.blend
    BY <2>1, OutdateType DEF Bridge, Outdate, SameButDropout
  <2>3. bridge' = t
    BY <1>1, <1>6 DEF a
  <2> HIDE DEF t
  <2>4. Orderly(t)
    BY <1>2, <2>2 DEF Orderly, SameButDropout
  <2>5. InStep(bridge, fresh, jointsFresh) => InStep(t, fresh, jointsFresh)
    BY <2>2 DEF InStep, SameButDropout
  <2> QED BY <1>3, <1>5, <2>3, <2>4, <2>5
<1>7. CASE jointsFresh /\ s.homing
  <2>1. /\ Orderly(HomeTick(s, gated, settled, elapsed))
        /\ InStep(s, fresh, TRUE) => InStep(HomeTick(s, gated, settled, elapsed), fresh, TRUE)
    BY <1>2, <1>4, <1>7, HomeTickKeeps
  <2> QED BY <1>1, <1>2, <1>3, <1>4, <1>5, <1>7, <2>1
<1>8. CASE jointsFresh /\ ~s.homing /\ s.engaged /\ gated
  <2>1. /\ Orderly(OnDisengage(s, TRUE))
        /\ InStep(s, fresh, TRUE) => InStep(OnDisengage(s, TRUE), fresh, TRUE)
    BY <1>2, <1>4, OnDisengageKeeps
  <2> QED BY <1>1, <1>2, <1>3, <1>4, <1>5, <1>8, <2>1
<1>9. CASE jointsFresh /\ ~s.homing /\ ~(s.engaged /\ gated)
  <2>1. /\ Orderly(IkTick(s, lagging, elapsed))
        /\ InStep(s, fresh, TRUE) => InStep(IkTick(s, lagging, elapsed), fresh, TRUE)
    BY <1>2, <1>4, <1>9, IkTickKeeps
  <2> QED BY <1>1, <1>2, <1>3, <1>4, <1>5, <1>9, <2>1
<1> QED BY <1>2, <1>6, <1>7, <1>8, <1>9

\* Outdating part of the registration of a bridge that holds or is not engaged.
LEMMA OutdateRegistrationKeeps ==
  ASSUME NEW s, Orderly(s), NEW P \in SUBSET Registration
  PROVE  LET t == Outdate(s, P) IN
         /\ Orderly(t)
         /\ t.engaged = s.engaged /\ t.poseLost = s.poseLost /\ SameMode(s, t)
         /\ t.misused = s.misused /\ t.stale = s.stale \cup P
<1>1. s \in Bridge /\ P \in SUBSET Cached
  BY DEF Orderly
<1>2. LET t == Outdate(s, P) IN
        /\ t \in Bridge /\ SameMode(s, t) /\ t.engaged = s.engaged /\ t.lock = s.lock
        /\ t.poseLost = s.poseLost /\ t.blend = s.blend
        /\ t.misused = s.misused /\ t.stale = s.stale \cup P
  BY <1>1, OutdateType DEF Bridge, Outdate, SameMode
<1>3. "blend" \notin P
  OBVIOUS
<1> QED BY <1>2, <1>3 DEF Orderly, SameMode

LEMMA OnJointStatesStep ==
  ASSUME IInv, OnJointStates
  PROVE  IInv'
<1> DEFINE fresh == poseFresh /\ ~degraded
<1>1. PICK arm \in BOOLEAN, complete \in BOOLEAN :
        /\ (Prompt /\ arm /\ bridge.ready /\ ~jointsFresh) => bridge.jointsLost
        /\ jointsFresh' = (jointsFresh \/ arm)
        /\ bridge' = IF ~bridge.ready /\ complete
                     THEN Resync([bridge EXCEPT !.ready = TRUE], TRUE) ELSE bridge
        /\ UNCHANGED <<poseFresh, degraded>>
  BY DEF OnJointStates
<1>2. /\ Orderly(bridge) /\ bridge \in Bridge
      /\ fresh \in BOOLEAN /\ jointsFresh \in BOOLEAN
      /\ Prompt => InStep(bridge, fresh, jointsFresh)
  BY DEF IInv, Orderly
<1>3. jointsFresh' \in BOOLEAN
  BY <1>1, <1>2
<1>4. CASE ~bridge.ready /\ complete
  <2> DEFINE a == [bridge EXCEPT !.ready = TRUE]
             t == Resync(a, TRUE)
  <2>1. /\ a \in Bridge
        /\ a.ready /\ a.homing = bridge.homing /\ a.engaged = bridge.engaged
        /\ a.lock = bridge.lock /\ a.wps = bridge.wps /\ a.rec = bridge.rec
        /\ a.stopRec = bridge.stopRec /\ a.misused = bridge.misused
        /\ a.stale = bridge.stale /\ a.blend = bridge.blend
    BY <1>2 DEF Bridge
  <2> HIDE DEF a
  <2>2. /\ t \in Bridge
        /\ t.ready /\ t.homing = bridge.homing /\ t.engaged = bridge.engaged
        /\ t.lock = bridge.lock /\ t.wps = bridge.wps /\ t.rec = bridge.rec
        /\ t.stopRec = bridge.stopRec /\ t.misused = bridge.misused
        /\ t.stale = bridge.stale \ {"park"} /\ t.blend = bridge.blend
    BY <2>1, ResyncType DEF Bridge, Resync
  <2>3. bridge' = t
    BY <1>1, <1>4 DEF a
  <2>4. ~bridge.engaged
    BY <1>2, <1>4 DEF Orderly
  <2> HIDE DEF t
  <2>5. Orderly(t)
    BY <1>2, <2>2 DEF Orderly
  <2>6. Prompt => InStep(t, fresh, jointsFresh')
    BY <1>2, <2>2, <2>4 DEF InStep
  <2> QED BY <1>1, <1>2, <1>3, <2>3, <2>5, <2>6 DEF IInv
<1>5. CASE ~(~bridge.ready /\ complete)
  <2>1. bridge' = bridge
    BY <1>1, <1>5
  <2>2. Prompt => InStep(bridge, fresh, jointsFresh')
    BY <1>1, <1>2 DEF InStep
  <2> QED BY <1>1, <1>2, <1>3, <2>1, <2>2 DEF IInv
<1> QED BY <1>4, <1>5

LEMMA StreamStep ==
  ASSUME IInv,
         \/ JointsStale \/ OnVivePose \/ OnViveGlitch \/ DegradeOver \/ PoseStale
  PROVE  IInv'
<1>1. CASE JointsStale
  BY <1>1 DEF JointsStale, IInv, InStep
<1>2. CASE OnVivePose
  <2>1. Orderly(bridge)
    BY DEF IInv
  <2>2. /\ Orderly(bridge')
        /\ bridge'.engaged = bridge.engaged /\ bridge'.poseLost = bridge.poseLost
        /\ SameMode(bridge, bridge') /\ bridge'.misused = bridge.misused
        /\ "ref" \in bridge'.stale => "ref" \in bridge.stale
        /\ "park" \in bridge'.stale => "park" \in bridge.stale
    <3>1. CASE bridge' = Outdate(bridge, {"turn"})
      <4>1. {"turn"} \in SUBSET Registration
        OBVIOUS
      <4> QED BY <2>1, <3>1, <4>1, OutdateRegistrationKeeps
    <3>2. CASE bridge' = bridge
      BY <2>1, <3>2 DEF SameMode
    <3> QED BY <1>2, <3>1, <3>2 DEF OnVivePose
  <2>3. poseFresh' = TRUE /\ degraded' = degraded /\ jointsFresh' = jointsFresh
        /\ ((Prompt /\ ~poseFresh) => (bridge.engaged => bridge.poseLost))
    BY <1>2 DEF OnVivePose, HoldSeen
  <2>4. Prompt => InStep(bridge', poseFresh' /\ ~degraded', jointsFresh')
    <3>1. CASE ~poseFresh \/ degraded
      BY <2>2, <2>3, <3>1 DEF IInv, InStep, SameMode
    <3>2. CASE poseFresh /\ ~degraded
      <4>1. bridge' = bridge
        BY <1>2, <3>2 DEF OnVivePose
      <4> QED BY <2>3, <3>2, <4>1 DEF IInv
    <3> QED BY <3>1, <3>2
  <2> QED BY <2>2, <2>3, <2>4 DEF IInv
<1>3. ASSUME bridge' = Outdate(bridge, {"ref"}), jointsFresh' = jointsFresh,
             ~(poseFresh' /\ ~degraded'), poseFresh' \in BOOLEAN, degraded' \in BOOLEAN
      PROVE  IInv'
  <2>1. Orderly(bridge) /\ {"ref"} \in SUBSET Registration
    BY DEF IInv
  <2>2. /\ Orderly(bridge')
        /\ SameMode(bridge, bridge') /\ bridge'.misused = bridge.misused
        /\ "park" \in bridge'.stale => "park" \in bridge.stale
    BY <1>3, <2>1, OutdateRegistrationKeeps
  <2>3. Prompt => InStep(bridge', poseFresh' /\ ~degraded', jointsFresh')
    BY <1>3, <2>2 DEF IInv, InStep, SameMode
  <2> QED BY <1>3, <2>2, <2>3 DEF IInv
<1>4. CASE OnViveGlitch
  BY <1>3, <1>4 DEF OnViveGlitch, IInv
<1>5. CASE PoseStale
  BY <1>3, <1>5 DEF PoseStale, IInv
<1>6. CASE DegradeOver
  BY <1>6 DEF DegradeOver, HoldSeen, IInv, InStep
<1> QED BY <1>1, <1>2, <1>4, <1>5, <1>6

LEMMA NextStep == IInv /\ [Next]_vars => IInv'
<1> SUFFICES ASSUME IInv, [Next]_vars PROVE IInv'
  OBVIOUS
<1>1. CASE UNCHANGED vars
  BY <1>1 DEF vars, IInv
<1>2. CASE \E pad \in {"none", "early", "late"}, menu, home \in BOOLEAN,
              axl \in {"off", "held", "pressed"}, path \in 0..MaxWaypoints,
              startOk \in BOOLEAN : VrTick(pad, menu, home, axl, path, startOk)
  BY <1>2, VrTickStep
<1>3. CASE \E gated, settled, lagging, elapsed \in BOOLEAN :
              Tick(gated, settled, lagging, elapsed)
  BY <1>3, TickStep
<1>4. CASE OnJointStates
  BY <1>4, OnJointStatesStep
<1>5. CASE JointsStale \/ OnVivePose \/ OnViveGlitch \/ DegradeOver \/ PoseStale
  BY <1>5, StreamStep
<1> QED BY <1>1, <1>2, <1>3, <1>4, <1>5 DEF Next

LEMMA Invariance == Spec => []IInv
BY InitStep, NextStep, PTL DEF Spec

-----------------------------------------------------------------------------
(* The theorems *)

\* The Bridge object keeps its type: no handler, in any order, leaves a mode, a counter
\* or a route outside its range.
THEOREM TypeCorrect == Spec => []TypeOK
<1>1. IInv => TypeOK
  BY DEF IInv, Orderly, TypeOK
<1> QED BY <1>1, Invariance, PTL

\* The hand and the HOME ramp never drive the arm together (_start_home freezes first,
\* _end_home precedes every engagement), whatever the streams do.
THEOREM ModesExclusive == Spec => []ModeExclusion
<1>1. IInv => ModeExclusion
  BY DEF IInv, Orderly, ModeExclusion
<1> QED BY <1>1, Invariance, PTL

\* A ramp inside an episode is the one that ends it, and _home_stop_rec never outlives
\* the ramp it was set for.
THEOREM EpisodeTailSafe == Spec => []EpisodeTail
<1>1. IInv => EpisodeTail
  BY DEF IInv, Orderly, EpisodeTail
<1> QED BY <1>1, Invariance, PTL

\* A pending blend never survives a ramp, so tick never blends from a pose the ramp left.
THEOREM BlendSafe == Spec => []NoStaleBlend
<1>1. IInv => NoStaleBlend
  BY DEF IInv, Orderly, NoStaleBlend
<1> QED BY <1>1, Invariance, PTL

\* When every stale window of the pose stream is seen by vr_tick, hand motion in a
\* dropout is never replayed by the target.
THEOREM ReplaySafe == Prompt => (Spec => []NoReplay)
<1> SUFFICES ASSUME Prompt PROVE Spec => []NoReplay
  OBVIOUS
<1>1. IInv => NoReplay
  BY DEF IInv, InStep, NoReplay
<1> QED BY <1>1, Invariance, PTL

\* When every stale window of the joint states is seen by tick, the arm is never driven
\* from an IK pose a ramp or a joint-state dropout has left behind.
THEOREM ResyncSafe == Prompt => (Spec => []ResyncedCommands)
<1> SUFFICES ASSUME Prompt PROVE Spec => []ResyncedCommands
  OBVIOUS
<1>1. IInv => ResyncedCommands
  BY DEF IInv, InStep, ResyncedCommands
<1> QED BY <1>1, Invariance, PTL

\* When every stale window of the pose stream is seen by vr_tick, a tool that tick turned
\* through a registration a gap, a hold, a dropout or the axis lock outdated is registered
\* anew before the target follows the hand again.
THEOREM TurnsSafe == Prompt => (Spec => []TurnsRegistered)
<1> SUFFICES ASSUME Prompt PROVE Spec => []TurnsRegistered
  OBVIOUS
<1>1. IInv => TurnsRegistered
  BY DEF IInv, InStep, TurnsRegistered
<1> QED BY <1>1, Invariance, PTL
=============================================================================
