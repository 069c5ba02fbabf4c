------------------------ MODULE FollowerFeed_proofs ------------------------
(***************************************************************************)
(* Proofs about CommandShaper by itself, for every set of joints, every    *)
(* limit, gain and timeout, and every sequence of targets; then about the  *)
(* motion side of the plugin (FollowerFeed), which feeds it.               *)
(***************************************************************************)
EXTENDS FollowerFeed, WellFoundedInduction, TLAPS

USE ShaperAssumption

-----------------------------------------------------------------------------
(* Arithmetic *)

\* Every non-empty set of naturals has a least element.
LEMMA Least ==
  ASSUME NEW T \in SUBSET Nat, T # {}
  PROVE  \E x \in T : \A y \in T : x <= y
<1>1. \E x \in T : \A y \in T : ~(<<y, x>> \in OpToRel(<, Nat))
  BY NatLessThanWellFounded, WFMin
<1>2. PICK x \in T : \A y \in T : ~(<<y, x>> \in OpToRel(<, Nat))
  BY <1>1
<1>3. ASSUME NEW y \in T PROVE x <= y
  <2>1. ~(y < x)
    BY <1>2 DEF OpToRel
  <2> QED BY <2>1
<1> QED BY <1>3

\* The integer square root exists.
LEMMA Root ==
  ASSUME NEW e \in Nat
  PROVE  \E k \in 0..e : k * k <= e /\ (k + 1) * (k + 1) > e
<1> DEFINE T == {k \in Nat : (k + 1) * (k + 1) > e}
<1>1. e \in T
  <2>1. (e + 1) * (e + 1) = e * e + 2 * e + 1
    OBVIOUS
  <2>2. e * e >= 0
    OBVIOUS
  <2> QED BY <2>1, <2>2
<1>2. PICK k \in T : \A y \in T : k <= y
  BY <1>1, Least
<1>3. k \in Nat /\ (k + 1) * (k + 1) > e
  BY <1>2
<1>4. k * k <= e
  <2>1. CASE k = 0
    BY <2>1
  <2>2. CASE k > 0
    <3>1. k - 1 \in Nat /\ (k - 1) \notin T
      BY <1>2, <1>3, <2>2
    <3>2. ((k - 1) + 1) * ((k - 1) + 1) <= e
      BY <3>1
    <3>3. (k - 1) + 1 = k
      BY <1>3
    <3> QED BY <3>2, <3>3
  <2> QED BY <1>3, <2>1, <2>2
<1>5. k <= e
  BY <1>2, <1>1
<1> QED BY <1>3, <1>4, <1>5

\* Brake is a number.
LEMMA BrakeType ==
  ASSUME NEW err \in Int
  PROVE  Brake(err) \in Nat
<1> DEFINE e == 2 * AMax * Dist(err, 0)
<1>1. Dist(err, 0) \in Nat
  BY DEF Dist
<1>2. e \in Nat
  BY <1>1
<1>3. \E k \in 0..e : k * k <= e /\ (k + 1) * (k + 1) > e
  BY <1>2, Root
<1>4. Brake(err) \in 0..e
  <2> HIDE DEF e
  <2>1. Brake(err) = CHOOSE k \in 0..e : k * k <= e /\ (k + 1) * (k + 1) > e
    BY DEF Brake, e
  <2> QED BY <1>3, <2>1
<1> QED BY <1>2, <1>4

\* What Clip returns.
LEMMA ClipBounds ==
  ASSUME NEW x \in Int, NEW lo \in Int, NEW hi \in Int, lo <= hi
  PROVE  /\ Clip(x, lo, hi) \in lo..hi
         /\ x \in lo..hi => Clip(x, lo, hi) = x
BY DEF Clip

\* What CeilDiv returns.
LEMMA CeilDivBound ==
  ASSUME NEW n \in Nat, NEW d \in Nat \ {0}
  PROVE  /\ CeilDiv(n, d) \in Nat
         /\ n <= d * CeilDiv(n, d)
         /\ n > 0 => CeilDiv(n, d) > 0
<1> DEFINE x == n + d - 1
           c == x \div d
<1>1. x \in Nat /\ c \in Int /\ d \in Int /\ d > 0
  OBVIOUS
<1>2. d * c <= x /\ x < d * c + d
  <2> HIDE DEF x
  <2> QED BY <1>1
<1>3. n <= d * c
  <2> HIDE DEF c
  <2> QED BY <1>1, <1>2
<1>4. c >= 0
  <2> HIDE DEF x
  <2> QED BY <1>1
<1>5. n > 0 => c # 0
  <2> SUFFICES ASSUME n > 0, c = 0 PROVE FALSE
    OBVIOUS
  <2>1. d * c = 0
    <3> HIDE DEF c
    <3> QED BY <1>1
  <2> QED BY <1>3, <2>1
<1> QED BY <1>1, <1>3, <1>4, <1>5 DEF CeilDiv

LEMMA PullType ==
  ASSUME NEW err \in Int
  PROVE  Pull(err) \in Int
<1>1. CASE err < 0
  <2>1. CeilDiv(-err, Tau) \in Nat
    BY <1>1, CeilDivBound
  <2> QED BY <1>1, <2>1 DEF Pull
<1>2. CASE err >= 0
  BY <1>2, CeilDivBound DEF Pull
<1> QED BY <1>1, <1>2

\* The smoothing of the feed-forward stays among the integers.
LEMMA SmoothedType ==
  ASSUME NEW f \in Int, NEW w \in Int
  PROVE  Smoothed(f, w) \in Int
<1>1. CASE FfTau = 0
  BY <1>1 DEF Smoothed
<1>2. CASE FfTau # 0
  <2>1. (w - f) \div FfTau \in Int
    BY <1>2
  <2> QED BY <1>2, <2>1 DEF Smoothed
<1> QED BY <1>1, <1>2

-----------------------------------------------------------------------------
(* One sample *)

LEMMA FeedForwardType ==
  ASSUME ff \in Vector \cup {None}, ffF \in Vector
  PROVE  FeedForward \in Vector
<1>1. CASE ff = None
  BY <1>1 DEF FeedForward, Vector
<1>2. CASE ff \in Vector
  <2>1. ASSUME NEW j \in Joints PROVE (IF ff = None THEN 0 ELSE Smoothed(ffF[j], ff[j])) \in Int
    BY <1>2, SmoothedType DEF Vector
  <2> QED BY <2>1 DEF FeedForward, Vector
<1> QED BY <1>1, <1>2

\* The desired speed is within VMax, however far the target is and whatever it is fed.
LEMMA DesiredBounds ==
  ASSUME NEW tgt \in Vector, NEW f \in Vector, q \in Vector
  PROVE  Desired(tgt, f) \in [Joints -> -VMax..VMax]
<1> SUFFICES ASSUME NEW j \in Joints
             PROVE  LET err == tgt[j] - q[j]
                    IN  Clip(f[j] + Clip(Pull(err), -Brake(err), Brake(err)), -VMax, VMax)
                          \in -VMax..VMax
  BY DEF Desired
<1> DEFINE err == tgt[j] - q[j]
           b == Brake(err)
           pull == Clip(Pull(err), -b, b)
<1>1. err \in Int /\ f[j] \in Int
  BY DEF Vector
<1>2. b \in Nat
  BY <1>1, BrakeType
<1>3. Pull(err) \in Int
  BY <1>1, PullType
<1> HIDE DEF b, err
<1>4. pull \in Int
  BY <1>2, <1>3, ClipBounds
<1> HIDE DEF pull
<1>5. Clip(f[j] + pull, -VMax, VMax) \in -VMax..VMax
  BY <1>1, <1>4, ClipBounds
<1> QED BY <1>5 DEF pull, b, err

\* The speed of a sample is within VMax and within AMax of the speed before it.
LEMMA LimitedBounds ==
  ASSUME NEW des \in [Joints -> -VMax..VMax], v \in [Joints -> -VMax..VMax]
  PROVE  /\ Limited(des) \in [Joints -> -VMax..VMax]
         /\ \A j \in Joints : Limited(des)[j] - v[j] \in -AMax..AMax
<1>1. ASSUME NEW j \in Joints
      PROVE  /\ v[j] + Clip(des[j] - v[j], -AMax, AMax) \in -VMax..VMax
             /\ Limited(des)[j] - v[j] \in -AMax..AMax
  <2>1. des[j] \in -VMax..VMax /\ v[j] \in -VMax..VMax
    OBVIOUS
  <2>2. v[j] + Clip(des[j] - v[j], -AMax, AMax) \in -VMax..VMax
    BY <2>1 DEF Clip
  <2>3. Limited(des)[j] = v[j] + Clip(des[j] - v[j], -AMax, AMax)
    BY DEF Limited
  <2>4. Limited(des)[j] - v[j] \in -AMax..AMax
    BY <2>1, <2>3 DEF Clip
  <2> QED BY <2>2, <2>4
<1> QED BY <1>1 DEF Limited

-----------------------------------------------------------------------------
(* The invariant and its steps *)

\* A pause leaves the output at rest: the iterations that integrate nothing have zeroed v,
\* or there has never been a target; one error too many and the thread is gone.
ShaperInv ==
  /\ ShaperTypeOK
  /\ thread # "ended" => errors <= MaxErrors
  /\ idle > 0 => v = Zero
  /\ target = None => v = Zero

\* The output after a sample, and what the sample did to the speed.
LEMMA SampleResult ==
  ASSUME ShaperInv, target # None, Sample
  PROVE  /\ q' \in Vector /\ ffF' \in Vector
         /\ v' \in [Joints -> -VMax..VMax]
         /\ (q # None /\ ~Lost(q, target)) =>
              /\ q' = [j \in Joints |-> q[j] + v'[j]]
              /\ \A j \in Joints : v'[j] - v[j] \in -AMax..AMax
<1>1. /\ target \in Vector /\ q \in Vector \cup {None} /\ ffF \in Vector
      /\ ff \in Vector \cup {None} /\ v \in [Joints -> -VMax..VMax]
  BY DEF ShaperInv, ShaperTypeOK
<1>2. CASE q = None \/ Lost(q, target)
  BY <1>1, <1>2 DEF Sample, Zero, Vector
<1>3. CASE q # None /\ ~Lost(q, target)
  <2> DEFINE speed == Limited(Desired(target, FeedForward))
  <2>1. FeedForward \in Vector
    BY <1>1, FeedForwardType
  <2>2. Desired(target, FeedForward) \in [Joints -> -VMax..VMax]
    BY <1>1, <1>3, <2>1, DesiredBounds
  <2>3. /\ speed \in [Joints -> -VMax..VMax]
        /\ \A j \in Joints : speed[j] - v[j] \in -AMax..AMax
    BY <1>1, <2>2, LimitedBounds
  <2>4. /\ ffF' = FeedForward /\ v' = speed
        /\ q' = [j \in Joints |-> q[j] + speed[j]]
    BY <1>3 DEF Sample
  <2> HIDE DEF speed
  <2>5. q' \in Vector
    BY <1>1, <1>3, <2>3, <2>4 DEF Vector
  <2> QED BY <2>1, <2>3, <2>4, <2>5
<1> QED BY <1>2, <1>3

LEMMA ShaperInitially == ShaperInit => ShaperInv
<1> SUFFICES ASSUME ShaperInit PROVE ShaperInv
  OBVIOUS
<1>1. Zero \in [Joints -> -VMax..VMax] /\ Zero \in Vector
  BY DEF Zero, Vector
<1>2. ShaperTypeOK
  <2>1. stopping \in BOOLEAN
    BY DEF ShaperInit
  <2> QED BY <1>1, <2>1 DEF ShaperInit, ShaperTypeOK
<1> QED BY <1>2 DEF ShaperInit, ShaperInv

LEMMA ShaperStep == ShaperInv /\ [ShaperNext]_shaper => ShaperInv'
<1> SUFFICES ASSUME ShaperInv, [ShaperNext]_shaper PROVE ShaperInv'
  OBVIOUS
<1>1. CASE UNCHANGED shaper
  BY <1>1 DEF shaper, ShaperInv, ShaperTypeOK, Zero
<1>2. CASE StartShaper \/ StopShaper \/ EndThread
  BY <1>2 DEF StartShaper, StopShaper, EndThread, ShaperInv, ShaperTypeOK, Zero
<1>3. ASSUME NEW vec \in Vector, NEW vff \in Vector \cup {None}, SetTarget(vec, vff)
      PROVE  ShaperInv'
  BY <1>3 DEF SetTarget, ShaperInv, ShaperTypeOK, Zero, Vector
<1>4. CASE FreshIteration
  <2>1. /\ q' \in Vector /\ ffF' \in Vector /\ v' \in [Joints -> -VMax..VMax]
    BY <1>4, SampleResult DEF FreshIteration
  <2>2. /\ errors' \in 0..MaxErrors + 1
        /\ thread' \in {"new", "running", "ended"}
        /\ thread' # "ended" => errors' <= MaxErrors
        /\ published' \in Vector \cup {None} /\ q' # None
    BY <1>4, <2>1 DEF FreshIteration, Publish, ShaperInv, ShaperTypeOK, Vector
  <2> QED BY <1>4, <2>1, <2>2 DEF FreshIteration, ShaperInv, ShaperTypeOK, Zero
<1>5. CASE IdleIteration
  BY <1>5 DEF IdleIteration, AtMost, ShaperInv, ShaperTypeOK, Zero, Vector
<1> QED BY <1>1, <1>2, <1>3, <1>4, <1>5 DEF ShaperNext, Iteration

\* What LimitsHold says of a step.
Limits ==
  (q # None /\ q' \notin {q, None} /\ ~Lost(q, target))
    => \A j \in Joints :
         LET step == q'[j] - q[j]
         IN  /\ Dist(step, 0) <= VMax
             /\ Dist(step, IF idle > 0 THEN 0 ELSE v[j]) <= AMax

\* Under the invariant every step respects the limits.
LEMMA StepLimits ==
  ASSUME ShaperInv, ShaperNext, q # None, q' # q, ~Lost(q, target)
  PROVE  \A j \in Joints :
           LET step == q'[j] - q[j]
           IN  /\ Dist(step, 0) <= VMax
               /\ Dist(step, IF idle > 0 THEN 0 ELSE v[j]) <= AMax
<1>1. FreshIteration
  BY DEF ShaperNext, StartShaper, SetTarget, StopShaper, Iteration, IdleIteration, EndThread
<1>2. /\ v' \in [Joints -> -VMax..VMax]
      /\ q' = [j \in Joints |-> q[j] + v'[j]]
      /\ \A j \in Joints : v'[j] - v[j] \in -AMax..AMax
  BY <1>1, SampleResult DEF FreshIteration
<1>3. /\ q \in Vector /\ v \in [Joints -> -VMax..VMax]
      /\ idle \in Nat /\ (idle > 0 => v = Zero)
  BY DEF ShaperInv, ShaperTypeOK
<1>4. ASSUME NEW j \in Joints
      PROVE  /\ Dist(q'[j] - q[j], 0) <= VMax
             /\ Dist(q'[j] - q[j], IF idle > 0 THEN 0 ELSE v[j]) <= AMax
  <2>1. /\ q'[j] - q[j] = v'[j]
        /\ v'[j] \in -VMax..VMax /\ v[j] \in -VMax..VMax
        /\ v'[j] - v[j] \in -AMax..AMax
    BY <1>2, <1>3 DEF Vector
  <2>2. idle > 0 => v[j] = 0
    BY <1>3 DEF Zero
  <2> QED BY <2>1, <2>2 DEF Dist
<1> QED BY <1>4

-----------------------------------------------------------------------------
(* The theorems about the shaper *)

LEMMA ShaperInvariance == ShaperSpec => []ShaperInv
BY ShaperInitially, ShaperStep, PTL DEF ShaperSpec

\* The shaper's state keeps its type, with the output's speed inside VMax, whatever is set
\* as a target and whenever.
THEOREM ShaperTyped == ShaperSpec => []ShaperTypeOK
<1>1. ShaperInv => ShaperTypeOK
  BY DEF ShaperInv
<1> QED BY <1>1, ShaperInvariance, PTL

\* The published stream keeps its velocity and acceleration limits across targets that
\* jump, stop, go stale and come back, except where it has fallen behind by more than Snap.
THEOREM ShaperLimits == ShaperSpec => LimitsHold
<1>1. ShaperInv /\ [ShaperNext]_shaper => [Limits]_shaper
  BY StepLimits DEF Limits
<1> QED BY <1>1, ShaperInvariance, PTL DEF ShaperSpec, LimitsHold, Limits

-----------------------------------------------------------------------------
(* The follower: segments *)

\* Floor division by T of what lies between 0 and d * T lies between 0 and d.
LEMMA DivWithin ==
  ASSUME NEW d \in Int, NEW t \in Nat, NEW T \in Nat, T > 0, t <= T
  PROVE  /\ (d * t) \div T \in Int
         /\ d >= 0 => (d * t) \div T \in 0..d
         /\ d < 0 => (d * t) \div T \in d..0
         /\ t = T => (d * t) \div T = d
<1> DEFINE x == d * t
           r == x \div T
<1>1. x \in Int /\ r \in Int
  OBVIOUS
<1>2. T * r <= x /\ x < T * r + T
  <2> HIDE DEF x
  <2> QED BY <1>1
<1>3. T * (r + 1) = T * r + T
  BY <1>1
<1>4. \A a, b \in Int : a < b => T * a + T <= T * b
  <2> SUFFICES ASSUME NEW a \in Int, NEW b \in Int, a < b PROVE T * a + T <= T * b
    OBVIOUS
  <2>1. T * (b - a - 1) >= 0
    BY b - a - 1 >= 0
  <2>2. T * (b - a - 1) = T * b - T * a - T
    OBVIOUS
  <2> QED BY <2>1, <2>2
<1>5. d >= 0 => 0 <= x /\ x <= T * d
  <2> SUFFICES ASSUME d >= 0 PROVE 0 <= x /\ x <= T * d
    OBVIOUS
  <2>1. d * t >= 0
    OBVIOUS
  <2>2. d * (T - t) >= 0
    OBVIOUS
  <2>3. d * (T - t) = T * d - d * t
    OBVIOUS
  <2> QED BY <2>1, <2>2, <2>3
<1>6. d < 0 => T * d <= x /\ x <= 0
  <2> SUFFICES ASSUME d < 0 PROVE T * d <= x /\ x <= 0
    OBVIOUS
  <2>1. (-d) * t >= 0
    OBVIOUS
  <2>2. (-d) * (T - t) >= 0
    OBVIOUS
  <2>3. (-d) * (T - t) = d * t - T * d /\ (-d) * t = -(d * t)
    OBVIOUS
  <2> QED BY <2>1, <2>2, <2>3
<1>7. t = T => x = T * d
  OBVIOUS
<1>8. T * d \in Int /\ T * r \in Int /\ T * 0 = 0
  BY <1>1
<1> HIDE DEF x, r
<1>9. d >= 0 => r \in 0..d
  <2> SUFFICES ASSUME d >= 0 PROVE 0 <= r /\ r <= d
    BY <1>1
  <2>1. ~(r < 0)
    BY <1>1, <1>2, <1>4, <1>5, <1>8
  <2>2. ~(d < r)
    BY <1>1, <1>2, <1>4, <1>5, <1>8
  <2> QED BY <1>1, <2>1, <2>2
<1>10. d < 0 => r \in d..0
  <2> SUFFICES ASSUME d < 0 PROVE d <= r /\ r <= 0
    BY <1>1
  <2>1. ~(r < d)
    BY <1>1, <1>2, <1>4, <1>6, <1>8
  <2>2. ~(0 < r)
    BY <1>1, <1>2, <1>4, <1>6, <1>8
  <2> QED BY <1>1, <2>1, <2>2
<1>11. t = T => r = d
  <2> SUFFICES ASSUME t = T PROVE r = d
    OBVIOUS
  <2>1. ~(r < d)
    BY <1>1, <1>2, <1>4, <1>7, <1>8
  <2>2. ~(d < r)
    BY <1>1, <1>2, <1>4, <1>7, <1>8
  <2> QED BY <1>1, <2>1, <2>2
<1> QED BY <1>1, <1>9, <1>10, <1>11 DEF r, x

\* A segment's value is a position between its ends, and its end when it is complete.
LEMMA SegmentBetween ==
  ASSUME NEW s \in Segments, s.t <= s.T
  PROVE  /\ SegmentValue(s) \in Poses
         /\ Complete(s) => SegmentValue(s) = s.to
<1>1. /\ s.from \in Poses /\ s.to \in Poses /\ s.t \in Nat /\ s.T \in Nat
      /\ s.from \in Int /\ s.to \in Int
      /\ \A a, b \in Poses : a..b \subseteq Poses
  BY FeedAssumption DEF Segments
<1>2. CASE s.T = 0
  BY <1>1, <1>2 DEF SegmentValue
<1>3. CASE s.T # 0
  <2> DEFINE d == s.to - s.from
             x == (d * s.t) \div s.T
  <2>1. d \in Int
    BY <1>1
  <2>2. /\ x \in Int
        /\ d >= 0 => x \in 0..d
        /\ d < 0 => x \in d..0
        /\ s.t = s.T => x = d
    <3>1. s.t \in Nat /\ s.T \in Nat \ {0} /\ s.t <= s.T
      BY <1>1, <1>3
    <3> HIDE DEF d
    <3> QED BY <2>1, <3>1, DivWithin
  <2>3. SegmentValue(s) = s.from + x
    BY <1>3 DEF SegmentValue
  <2> HIDE DEF x
  <2>4. s.from + x \in s.from..s.to \/ s.from + x \in s.to..s.from
    BY <1>1, <2>2 DEF d
  <2>5. Complete(s) => s.from + x = s.to
    BY <1>1, <2>2 DEF Complete, d
  <2> QED BY <1>1, <2>3, <2>4, <2>5
<1> QED BY <1>2, <1>3

-----------------------------------------------------------------------------
(* The follower: its invariant *)

Before == {"off", "joints", "frames", "latched"}
Working == {"plan", "leg", "dwell", "settle", "ready", "approach", "send", "drain", "grace"}

\* Which parts of a connection exist where the control thread is.
LinkOK ==
  /\ pc \in Before \cup {"join"} => ~connected
  /\ thread = "running" => stopping \/ connected
  /\ pc = "off" => ~hasShaper /\ ~resources
  /\ pc \in {"joints", "frames", "latched"} => hasShaper /\ sent = 0 /\ thread = "new"
  /\ pc \in Working => connected
  /\ connected => hasShaper /\ feeder \in {"idle", "have"}
  /\ feeder = "have" /\ connected => since > 0

\* What the control thread knows of its segment.
SegOK ==
  /\ seg # None => seg.t <= seg.T
  /\ pc = "dwell" => path # <<>>
  /\ pc \in {"leg", "dwell", "approach"} => seg # None
  /\ pc \in {"drain", "grace"} => seg # None /\ seg.T <= GapMax
  /\ pc = "grace" => Complete(seg)
  /\ sent = 1 => seg # None

\* The last point is in the shaper, or will be put there before the grace is over: the
\* feeder's round at the end of the segment may still set an earlier point, the next cannot.
Fed == target = Vec(seg.to) /\ (feeder = "have" => point = seg.to)

Feeding ==
  \/ feeder = "have" /\ wait < since
  \/ wait < since + FeedMax /\ (feeder = "have" => point = seg.to)

LastPointOK ==
  /\ sent = 1 /\ pc \in {"raised", "stop"} => connected
  /\ pc = "stop" /\ sent = 1 => seg.T > GapMax
  /\ pc = "grace" => Fed \/ Feeding
  /\ pc = "join" /\ sent = 1 /\ seg.T <= GapMax => Fed

FeedInv == TypeOK /\ ShaperInv /\ LinkOK /\ SegOK /\ LastPointOK

\* What the steps of the follower do to the shaper.
LEMMA ShaperMoves ==
  ASSUME TypeOK, Next
  PROVE  ShaperNext \/ UNCHANGED shaper \/ Connect
<1>1. CASE FeedSet
  <2>1. CASE hasShaper
    <3>1. Vec(point) \in Vector
      BY FeedAssumption DEF TypeOK, Vec, Vector
    <3> QED BY <1>1, <2>1, <3>1 DEF FeedSet, ShaperNext
  <2>2. CASE ~hasShaper
    BY <1>1, <2>2 DEF FeedSet
  <2> QED BY <2>1, <2>2
<1>2. CASE Connected \/ StopThreads \/ OutputEnds \/ Tick
  BY <1>2 DEF Connected, StopThreads, OutputEnds, Tick, ShaperNext
<1>3. CASE Misconfigured \/ JointsArrive \/ FramesArrive \/ ConnectFails \/ Interrupt \/ FeedRead
  BY <1>3 DEF Misconfigured, JointsArrive, FramesArrive, ConnectFails, Interrupt, FeedRead
<1>4. CASE RunPath \/ LegDone \/ NextLeg \/ LegStopped \/ Settled \/ HomingRaises
  BY <1>4 DEF RunPath, LegDone, NextLeg, LegStopped, Settled, HomingRaises
<1>5. CASE SendFirst \/ FirstRefused \/ ApproachDone \/ SendRead \/ SendSet
  BY <1>5 DEF SendFirst, FirstRefused, ApproachDone, SendRead, SendSet
<1>6. CASE Disconnect \/ Drained \/ Disconnected \/ Finished
  BY <1>6 DEF Disconnect, Drained, Disconnected, Finished, vars
<1> QED BY <1>1, <1>2, <1>3, <1>4, <1>5, <1>6 DEF Next, Control, Feeder

\* The shaper's invariant survives whatever the follower does, a new shaper included.
LEMMA FollowerShaperStep ==
  ASSUME TypeOK, ShaperInv, [Next]_vars
  PROVE  ShaperInv'
<1>1. CASE Connect
  <2>1. Zero \in [Joints -> -VMax..VMax] /\ Zero \in Vector /\ Zero' = Zero
    BY DEF Zero, Vector
  <2>2. ShaperTypeOK'
    <3>1. stopping' \in BOOLEAN
      BY <1>1 DEF Connect
    <3> QED BY <1>1, <2>1, <3>1 DEF Connect, ShaperTypeOK, Vector
  <2> QED BY <1>1, <2>1, <2>2 DEF Connect, ShaperInv
<1>2. CASE ShaperNext \/ UNCHANGED shaper
  BY <1>2, ShaperStep
<1>3. CASE UNCHANGED vars
  BY <1>3, ShaperStep DEF vars
<1> QED BY <1>1, <1>2, <1>3, ShaperMoves

LEMMA FollowerInitially == Init => FeedInv
<1> SUFFICES ASSUME Init PROVE FeedInv
  OBVIOUS
<1>1. TypeOK
  <2>1. /\ connected \in BOOLEAN /\ hasShaper \in BOOLEAN /\ resources \in BOOLEAN
        /\ first \in BOOLEAN /\ clean \in BOOLEAN /\ apart \in BOOLEAN /\ fast \in BOOLEAN
    BY DEF Init
  <2> QED BY <2>1, FeedAssumption DEF Init, TypeOK
<1>2. ShaperInv
  BY ShaperInitially DEF Init
<1>3. LinkOK /\ SegOK /\ LastPointOK
  BY DEF Init, ShaperInit, LinkOK, SegOK, LastPointOK, Before, Working, Complete
<1> QED BY <1>1, <1>2, <1>3 DEF FeedInv

\* A new segment is well formed.
LEMMA NewSegment ==
  ASSUME NEW from \in Poses, NEW to \in Poses, NEW T \in Nat, SetSegment(from, to, T)
  PROVE  seg' \in Segments /\ seg'.t = 0 /\ seg'.T = T /\ seg'.to = to /\ seg' # None
BY FeedAssumption DEF SetSegment, Segments

LEMMA RampSegment ==
  ASSUME NEW from \in Poses, NEW to \in Poses, Ramp(from, to)
  PROVE  seg' \in Segments /\ seg'.t = 0 /\ seg'.T \in Nat /\ seg' # None
<1>1. Dist(from, to) \in Nat
  BY FeedAssumption DEF Dist
<1>2. CeilDiv(Dist(from, to), Speed) \in Nat
  BY <1>1, CeilDivBound, FeedAssumption
<1>3. (IF from = to THEN 1 ELSE CeilDiv(Dist(from, to), Speed)) \in Nat
  BY <1>2
<1> QED BY <1>3, NewSegment DEF Ramp

\* The segment that a connection before has left goes on.
LEMMA ConnectSegment ==
  ASSUME TypeOK, SegOK, Connect
  PROVE  /\ seg = None => seg' = None
         /\ seg # None => /\ seg' \in Segments /\ seg' # None
                          /\ seg'.T = seg.T /\ seg'.to = seg.to /\ seg'.from = seg.from
                          /\ seg'.t \in seg.t..seg.T
<1>1. CASE seg = None
  BY <1>1 DEF Connect
<1>2. CASE seg # None
  <2>1. seg \in Segments /\ seg.t \in Nat /\ seg.T \in Nat
    BY <1>2 DEF TypeOK, Segments
  <2>2. PICK n \in seg.t..seg.T : seg' = [seg EXCEPT !.t = n]
    BY <1>2 DEF Connect
  <2>3. n \in Nat
    BY <2>1
  <2> QED BY <1>2, <2>1, <2>2, <2>3, FeedAssumption DEF Segments
<1> QED BY <1>1, <1>2

LEMMA SegNowType ==
  ASSUME TypeOK, SegOK
  PROVE  SegNow \in Poses
<1>1. CASE seg = None
  BY <1>1 DEF SegNow, TypeOK
<1>2. CASE seg # None
  BY <1>2, SegmentBetween DEF SegNow, TypeOK, SegOK
<1> QED BY <1>1, <1>2

\* A leg to the head of a path.
LEMMA LegResult ==
  ASSUME NEW from \in Poses, NEW p \in Seq(Poses), p # <<>>, Leg(from, p)
  PROVE  /\ seg' \in Segments /\ seg'.t = 0 /\ seg'.T \in Nat /\ seg' # None
         /\ path' \in Seq(Poses) /\ pc' = "leg" /\ wait' = 0
<1>1. Head(p) \in Poses /\ Tail(p) \in Seq(Poses)
  OBVIOUS
<1> QED BY <1>1, RampSegment DEF Leg

LEMMA RunPathResult ==
  ASSUME TypeOK, SegOK, RunPath
  PROVE  /\ seg' \in Segments /\ seg'.t = 0 /\ seg'.T \in Nat /\ seg' # None
         /\ path' \in Seq(Poses) /\ pc' = "leg" /\ wait' = 0
         /\ clean' \in BOOLEAN /\ tries' \in 0..Attempts
<1>1. PICK p \in Routes : /\ clean' = (p[Len(p)] = Home)
                          /\ IF Dist(SegNow, meas) > Snap
                             THEN Leg(SegNow, <<meas>> \o p)
                             ELSE Leg(SegNow, p)
  BY DEF RunPath
<1>2. p \in Seq(Poses) /\ p # <<>>
  <2>1. PICK n \in 1..MaxPath : p \in [1..n -> Poses]
    BY DEF Routes
  <2>2. n \in Nat /\ n >= 1
    BY <2>1, FeedAssumption
  <2> QED BY <2>1, <2>2
<1>3. SegNow \in Poses /\ meas \in Poses
  BY SegNowType DEF TypeOK
<1>4. <<meas>> \o p \in Seq(Poses) /\ <<meas>> \o p # <<>>
  BY <1>2, <1>3
<1>5. /\ seg' \in Segments /\ seg'.t = 0 /\ seg'.T \in Nat /\ seg' # None
      /\ path' \in Seq(Poses) /\ pc' = "leg" /\ wait' = 0
  BY <1>1, <1>2, <1>3, <1>4, LegResult
<1>6. clean' \in BOOLEAN
  BY <1>1
<1>7. tries' \in 0..Attempts
  BY FeedAssumption DEF RunPath, TypeOK
<1> QED BY <1>5, <1>6, <1>7

LEMMA NextLegResult ==
  ASSUME TypeOK, SegOK, NextLeg
  PROVE  /\ seg' \in Segments /\ seg'.t = 0 /\ seg'.T \in Nat /\ seg' # None
         /\ path' \in Seq(Poses) /\ pc' = "leg" /\ wait' = 0
<1>1. seg # None /\ path # <<>> /\ path \in Seq(Poses) /\ seg \in Segments
  BY DEF NextLeg, TypeOK, SegOK
<1>2. seg.to \in Poses
  BY <1>1 DEF Segments
<1> QED BY <1>1, <1>2, LegResult DEF NextLeg

LEMMA LegStoppedResult ==
  ASSUME TypeOK, SegOK, LegStopped
  PROVE  seg' \in Segments /\ seg'.t = 0 /\ seg'.T = 0 /\ seg' # None
<1>1. seg # None
  BY DEF LegStopped, SegOK
<1> QED BY <1>1, SegNowType, NewSegment DEF LegStopped, FreezeFeed

LEMMA SendFirstResult ==
  ASSUME TypeOK, SegOK, SendFirst
  PROVE  /\ seg' \in Segments /\ seg'.t = 0 /\ seg'.T \in Nat /\ seg' # None
         /\ pc' \in {"ready", "approach"} /\ wait' = 0
         /\ first' = FALSE /\ sent' = 1 /\ apart' \in BOOLEAN
         /\ UNCHANGED <<shaper, cur, meas, calls, fast, link, homing, feeding>>
<1>1. PICK p \in Poses : /\ Ramp(meas, p)
                         /\ pc' = IF Dist(meas, p) > Done THEN "approach" ELSE "ready"
  BY DEF SendFirst
<1>2. pc' \in {"ready", "approach"}
  BY <1>1
<1>3. /\ wait' = 0 /\ first' = FALSE /\ sent' = 1 /\ apart' = (Dist(SegNow, meas) > Slack)
      /\ UNCHANGED <<shaper, cur, meas, calls, fast, link, homing, feeding>>
  BY DEF SendFirst
<1>4. apart' \in BOOLEAN
  BY <1>3
<1> QED BY <1>1, <1>2, <1>3, <1>4, RampSegment DEF TypeOK

LEMMA SendSetResult ==
  ASSUME TypeOK, SendSet
  PROVE  /\ seg' \in Segments /\ seg'.t = 0 /\ seg'.T \in Nat /\ seg' # None
<1>1. PICK gap \in 1..GapMax, p \in Poses : SetSegment(cur, p, gap)
  BY DEF SendSet
<1>2. gap \in Nat
  BY FeedAssumption
<1> QED BY <1>1, <1>2, NewSegment DEF TypeOK

\* A segment's progress in one unit of time.
LEMMA TickSegment ==
  ASSUME TypeOK, SegOK, Tick, seg # None
  PROVE  /\ seg' \in Segments /\ seg' # None
         /\ seg'.T = seg.T /\ seg'.to = seg.to
         /\ seg'.t >= seg.t /\ seg'.t <= seg'.T
<1>1. seg \in Segments /\ seg.t <= seg.T
  BY DEF TypeOK, SegOK
<1>2. seg.t \in Nat /\ seg.T \in Nat
  BY <1>1 DEF Segments
<1>3. seg' = [seg EXCEPT !.t = AtMost(@ + 1, seg.T)]
  BY DEF Tick
<1> DEFINE n == AtMost(seg.t + 1, seg.T)
<1>4. n \in Nat /\ n >= seg.t /\ n <= seg.T
  BY <1>1, <1>2 DEF AtMost
<1>5. seg' = [seg EXCEPT !.t = n]
  BY <1>3
<1> HIDE DEF n
<1>6. seg' \in Segments /\ seg'.T = seg.T /\ seg'.to = seg.to /\ seg'.t = n
  BY <1>1, <1>4, <1>5 DEF Segments
<1> QED BY <1>4, <1>6, FeedAssumption DEF Segments

-----------------------------------------------------------------------------
(* The follower: its steps *)

\* The flags of the follower.
Flags ==
  /\ connected \in BOOLEAN /\ hasShaper \in BOOLEAN /\ resources \in BOOLEAN
  /\ first \in BOOLEAN /\ clean \in BOOLEAN /\ apart \in BOOLEAN /\ fast \in BOOLEAN

LEMMA FlagsStep ==
  ASSUME TypeOK, SegOK, [Next]_vars
  PROVE  Flags'
<1> USE DEF TypeOK, Flags
<1>1. CASE Connect \/ Misconfigured
  BY <1>1 DEF Connect, Misconfigured, homing
<1>2. CASE JointsArrive \/ FramesArrive \/ HomingRaises \/ Interrupt
  BY <1>2 DEF JointsArrive, FramesArrive, HomingRaises, Interrupt, NoHoming, link, homing, history
<1>3. CASE ConnectFails \/ Connected
  BY <1>3 DEF ConnectFails, Connected, homing, history
<1>4. CASE RunPath
  BY <1>4, RunPathResult DEF RunPath, link, history
<1>5. CASE NextLeg \/ LegStopped \/ LegDone \/ Settled
  BY <1>5 DEF NextLeg, LegStopped, LegDone, Settled, link, homing, history
<1>6. CASE SendFirst
  BY <1>6, SendFirstResult DEF link, homing
<1>7. CASE FirstRefused \/ ApproachDone \/ SendRead \/ SendSet
  BY <1>7 DEF FirstRefused, ApproachDone, SendRead, SendSet, link, homing, history
<1>8. CASE Disconnect \/ Drained \/ StopThreads \/ Disconnected
  BY <1>8 DEF Disconnect, Drained, StopThreads, Disconnected, link, homing, history
<1>9. CASE FeedRead \/ FeedSet \/ Tick
  BY <1>9 DEF FeedRead, FeedSet, Tick, link, homing, history
<1>10. CASE OutputEnds \/ Finished \/ UNCHANGED vars
  BY <1>10 DEF OutputEnds, Finished, vars, follower, link, homing, history
<1> QED BY <1>1, <1>2, <1>3, <1>4, <1>5, <1>6, <1>7, <1>8, <1>9, <1>10 DEF Next, Control, Feeder

\* Every step keeps the types.
LEMMA TypeStep ==
  ASSUME TypeOK, SegOK, LinkOK, [Next]_vars
  PROVE  TypeOK'
<1> USE FeedAssumption
<1>0. Flags'
  BY FlagsStep
<1> SUFFICES /\ seg' \in Segments \cup {None}
             /\ pc' \in Before \cup Working \cup {"raised", "stop", "join"}
             /\ path' \in Seq(Poses) /\ cur' \in Poses /\ wait' \in Nat
             /\ tries' \in 0..Attempts
             /\ feeder' \in {"none", "idle", "have", "ended", "dead"}
             /\ point' \in Poses /\ since' \in 0..FeedMax /\ meas' \in Poses
             /\ calls' \in 0..Connections /\ sent' \in 0..1
  BY <1>0 DEF TypeOK, Flags, Before, Working
<1> USE DEF TypeOK, Before, Working
<1>1. CASE Connect
  <2>1. seg' \in Segments \cup {None}
    BY <1>1, ConnectSegment
  <2>2. /\ pc' = "joints" /\ calls' = calls + 1 /\ calls < Connections /\ sent' = 0
        /\ meas' \in Poses /\ UNCHANGED <<path, cur, wait, tries, feeder, point, since>>
    BY <1>1 DEF Connect, homing, feeding
  <2> QED BY <2>1, <2>2
<1>2. CASE Misconfigured
  BY <1>2 DEF Misconfigured, homing, feeding
<1>3. CASE JointsArrive \/ FramesArrive \/ ConnectFails
  BY <1>3 DEF JointsArrive, FramesArrive, ConnectFails, homing, feeding, history
<1>21. CASE HomingRaises \/ Interrupt
  <2>1. /\ pc' = "raised" /\ path' = <<>> /\ tries' = 0 /\ wait' \in {0, wait}
        /\ UNCHANGED <<seg, cur, feeder, point, since, meas, calls, sent>>
    BY <1>21 DEF HomingRaises, Interrupt, NoHoming, feeding, history
  <2> QED BY <2>1
<1>4. CASE Connected
  <2>1. /\ pc' \in {"plan", "ready"} /\ feeder' = "idle" /\ since' = 1 /\ tries' = 0
        /\ UNCHANGED <<seg, path, cur, wait, point, meas, calls, sent>>
    BY <1>4 DEF Connected, history
  <2> QED BY <2>1
<1>5. CASE RunPath
  <2>1. UNCHANGED <<cur, meas, feeder, point, since, calls, sent>>
    BY <1>5 DEF RunPath, feeding, history
  <2>2. /\ seg' \in Segments /\ path' \in Seq(Poses) /\ pc' = "leg" /\ wait' = 0
        /\ tries' \in 0..Attempts
    BY <1>5, RunPathResult
  <2> QED BY <2>1, <2>2
<1>6. CASE NextLeg
  <2>1. UNCHANGED <<cur, tries, meas, feeder, point, since, calls, sent>>
    BY <1>6 DEF NextLeg, feeding, history, homing
  <2>2. seg' \in Segments /\ path' \in Seq(Poses) /\ pc' = "leg" /\ wait' = 0
    BY <1>6, NextLegResult
  <2> QED BY <2>1, <2>2
<1>7. CASE LegStopped
  <2>1. seg' \in Segments
    BY <1>7, LegStoppedResult
  <2>2. /\ path' = <<>> /\ pc' = "settle" /\ wait' = 0
        /\ UNCHANGED <<cur, tries, meas, feeder, point, since, calls, sent>>
    BY <1>7 DEF LegStopped, feeding, history
  <2> QED BY <2>1, <2>2
<1>8. CASE LegDone
  BY <1>8 DEF LegDone, homing, feeding, history
<1>9. CASE Settled
  BY <1>9 DEF Settled, homing, feeding, history
<1>10. CASE SendFirst
  <2>1. /\ seg' \in Segments /\ pc' \in {"ready", "approach"} /\ wait' = 0 /\ sent' = 1
        /\ UNCHANGED <<cur, meas, calls, homing, feeding>>
    BY <1>10, SendFirstResult
  <2>2. UNCHANGED <<cur, meas, calls, path, tries, feeder, point, since>>
    BY <2>1 DEF homing, feeding
  <2> QED BY <2>1, <2>2
<1>11. CASE FirstRefused \/ ApproachDone
  BY <1>11 DEF FirstRefused, ApproachDone, homing, feeding, history
<1>12. CASE SendRead
  BY <1>12, SegNowType DEF SendRead, homing, feeding, history
<1>13. CASE SendSet
  BY <1>13, SendSetResult DEF SendSet, homing, feeding
<1>14. CASE Disconnect \/ Drained
  <2>1. /\ pc' \in {"drain", "stop", "grace"} /\ wait' = 0
        /\ UNCHANGED <<seg, path, cur, tries, feeder, point, since, meas, calls, sent>>
    BY <1>14 DEF Disconnect, Drained, homing, feeding, history
  <2> QED BY <2>1
<1>15. CASE StopThreads \/ Disconnected
  BY <1>15 DEF StopThreads, Disconnected, homing, feeding, history
<1>16. CASE FeedRead
  <2>1. seg # None => SegmentValue(seg) \in Poses
    BY SegmentBetween DEF SegOK
  <2> QED BY <1>16, <2>1 DEF FeedRead, homing, control, history
<1>17. CASE FeedSet
  BY <1>17 DEF FeedSet, homing, control, history
<1>18. CASE OutputEnds \/ Finished \/ UNCHANGED vars
  BY <1>18 DEF OutputEnds, Finished, vars, follower, homing, feeding, control, history
<1>19. CASE Tick
  <2>1. seg' \in Segments \cup {None}
    <3>1. CASE seg = None
      BY <1>19, <3>1 DEF Tick
    <3>2. CASE seg # None
      BY <1>19, <3>2, TickSegment
    <3> QED BY <3>1, <3>2
  <2>2. since' \in 0..FeedMax
    <3>1. since' = AtMost(since + 1, FeedMax)
      BY <1>19 DEF Tick
    <3> QED BY <3>1 DEF AtMost
  <2>3. wait' \in Nat
    <3>1. AtMost(wait + 1, Grace + Dwell + SendMax) \in Nat
      BY DEF AtMost
    <3>2. wait' \in {wait, AtMost(wait + 1, Grace + Dwell + SendMax)}
      BY <1>19 DEF Tick
    <3> QED BY <3>1, <3>2
  <2>4. meas' \in Poses
    BY <1>19 DEF Tick, ArmMoves
  <2>5. UNCHANGED <<pc, path, cur, tries, feeder, point, calls, sent>>
    BY <1>19 DEF Tick, homing, history
  <2> QED BY <2>1, <2>2, <2>3, <2>4, <2>5
<1>20. CASE Control
  BY <1>3, <1>21, <1>4, <1>5, <1>6, <1>7, <1>8, <1>9, <1>10, <1>11, <1>12, <1>13, <1>14, <1>15, <1>20
     DEF Control
<1> QED BY <1>1, <1>2, <1>21, <1>16, <1>17, <1>18, <1>19, <1>20 DEF Next, Feeder

\* Every step keeps the parts of the connection together.
LEMMA LinkStep ==
  ASSUME TypeOK, SegOK, LinkOK, [Next]_vars
  PROVE  LinkOK'
<1> USE FeedAssumption DEF Before, Working
<1>1. CASE Connect \/ Misconfigured
  <2>1. CASE Connect
    <3>1. /\ pc = "off" /\ pc' = "joints" /\ sent' = 0 /\ thread' = "new" /\ hasShaper' = TRUE
          /\ UNCHANGED connected
      BY <2>1 DEF Connect
    <3> QED BY <3>1 DEF LinkOK
  <2>2. CASE Misconfigured
    BY <2>2 DEF Misconfigured, LinkOK, TypeOK, shaper, feeding
  <2> QED BY <1>1, <2>1, <2>2
<1>2. CASE JointsArrive
  BY <1>2 DEF JointsArrive, LinkOK, TypeOK, shaper, link, feeding, history
<1>3. CASE FramesArrive
  BY <1>3 DEF FramesArrive, LinkOK, TypeOK, shaper, link, feeding, history
<1>4. CASE HomingRaises \/ Interrupt
  BY <1>4 DEF HomingRaises, Interrupt, LinkOK, TypeOK, shaper, link, feeding, history
<1>5. CASE ConnectFails
  BY <1>5 DEF ConnectFails, LinkOK, TypeOK, shaper, feeding, history
<1>6. CASE Connected
  BY <1>6 DEF Connected, StartShaper, LinkOK, TypeOK, history
<1>7. CASE RunPath
  BY <1>7, RunPathResult DEF RunPath, LinkOK, TypeOK, shaper, link, feeding, history
<1>8. CASE NextLeg
  BY <1>8, NextLegResult DEF NextLeg, LinkOK, TypeOK, shaper, link, feeding, history
<1>9. CASE LegStopped \/ LegDone \/ Settled
  BY <1>9 DEF LegStopped, LegDone, Settled, LinkOK, TypeOK, shaper, link, feeding, history
<1>10. CASE SendFirst
  <2>1. pc = "ready"
    BY <1>10 DEF SendFirst
  <2> QED BY <1>10, <2>1, SendFirstResult DEF LinkOK, TypeOK, shaper, link, feeding
<1>11. CASE FirstRefused \/ ApproachDone \/ SendRead \/ SendSet
  BY <1>11 DEF FirstRefused, ApproachDone, SendRead, SendSet, LinkOK, TypeOK, shaper, link, feeding,
              history
<1>12. CASE Disconnect
  BY <1>12 DEF Disconnect, LinkOK, TypeOK, shaper, link, feeding, history
<1>13. CASE Drained
  BY <1>13 DEF Drained, LinkOK, TypeOK, shaper, link, feeding, history
<1>14. CASE StopThreads
  BY <1>14 DEF StopThreads, StopShaper, LinkOK, TypeOK, shaper, feeding, history
<1>15. CASE Disconnected
  BY <1>15 DEF Disconnected, LinkOK, TypeOK, shaper, feeding, history
<1>16. CASE FeedRead
  BY <1>16 DEF FeedRead, LinkOK, TypeOK, shaper, link, control, history
<1>17. CASE FeedSet
  BY <1>17 DEF FeedSet, SetTarget, LinkOK, TypeOK, shaper, link, control, history
<1>18. CASE OutputEnds
  BY <1>18 DEF OutputEnds, EndThread, LinkOK, TypeOK, follower, link, feeding, control, history
<1>19. CASE Finished \/ UNCHANGED vars
  BY <1>19 DEF Finished, vars, LinkOK, shaper, follower, link, feeding, control, history
<1>20. CASE Tick
  <2>1. since' >= since
    <3>1. since' = AtMost(since + 1, FeedMax)
      BY <1>20 DEF Tick
    <3> QED BY <3>1 DEF AtMost, TypeOK
  <2>2. (thread' = "running" => thread = "running") /\ stopping' = stopping
    BY <1>20 DEF Tick, Iteration, FreshIteration, IdleIteration, shaper
  <2>3. since \in Nat /\ since' \in Nat
    BY <1>20, TypeStep DEF TypeOK
  <2>4. pc \notin Before
    BY <1>20 DEF Tick
  <2> QED BY <1>20, <2>1, <2>2, <2>3, <2>4 DEF Tick, LinkOK, link, history
<1> QED BY <1>1, <1>2, <1>3, <1>4, <1>5, <1>6, <1>7, <1>8, <1>9, <1>10, <1>11, <1>12, <1>13,
           <1>14, <1>15, <1>16, <1>17, <1>18, <1>19, <1>20 DEF Next, Control, Feeder

\* Every step keeps what the control thread knows of its segment.
LEMMA SegStep ==
  ASSUME TypeOK, SegOK, LinkOK, [Next]_vars
  PROVE  SegOK'
<1> USE FeedAssumption DEF Complete
<1>1. CASE Connect \/ Misconfigured
  <2>1. seg # None => seg' # None /\ seg'.t <= seg'.T
    <3>1. CASE seg # None /\ Connect
      <4>1. seg.t \in Nat /\ seg.T \in Nat
        BY <3>1 DEF TypeOK, Segments
      <4> QED BY <3>1, <4>1, ConnectSegment
    <3>2. CASE Misconfigured
      BY <3>2 DEF Misconfigured, SegOK
    <3> QED BY <1>1, <3>1, <3>2
  <2>2. seg = None => seg' = None
    BY <1>1, ConnectSegment DEF Misconfigured
  <2>3. pc' \in {"joints", "raised"} /\ sent' = 0
    BY <1>1 DEF Connect, Misconfigured
  <2> QED BY <2>1, <2>2, <2>3 DEF SegOK
<1>2. CASE JointsArrive \/ FramesArrive \/ ConnectFails \/ HomingRaises \/ Interrupt
  BY <1>2 DEF JointsArrive, FramesArrive, ConnectFails, HomingRaises, Interrupt, SegOK, TypeOK,
              homing, history
<1>3. CASE Connected
  BY <1>3 DEF Connected, SegOK, TypeOK, history
<1>4. CASE RunPath
  BY <1>4, RunPathResult DEF SegOK
<1>5. CASE NextLeg
  BY <1>5, NextLegResult DEF SegOK
<1>6. CASE LegStopped
  <2>1. pc' = "settle"
    BY <1>6 DEF LegStopped
  <2> QED BY <1>6, <2>1, LegStoppedResult DEF SegOK
<1>7. CASE LegDone \/ Settled
  BY <1>7 DEF LegDone, Settled, SegOK, TypeOK, homing, history
<1>8. CASE SendFirst
  <2>1. /\ seg' # None /\ seg'.t = 0 /\ seg'.T \in Nat
        /\ pc' \in {"ready", "approach"}
    BY <1>8, SendFirstResult
  <2> QED BY <2>1 DEF SegOK
<1>9. CASE FirstRefused \/ ApproachDone \/ SendRead
  BY <1>9 DEF FirstRefused, ApproachDone, SendRead, SegOK, TypeOK, homing, history
<1>10. CASE SendSet
  BY <1>10, SendSetResult DEF SendSet, SegOK, homing
<1>11. CASE Disconnect \/ Drained
  BY <1>11 DEF Disconnect, Drained, SegOK, TypeOK, homing, history
<1>12. CASE StopThreads \/ Disconnected
  BY <1>12 DEF StopThreads, Disconnected, SegOK, TypeOK, homing, history
<1>13. CASE FeedRead \/ FeedSet
  BY <1>13 DEF FeedRead, FeedSet, SegOK, TypeOK, homing, control, history
<1>14. CASE OutputEnds \/ Finished \/ UNCHANGED vars
  BY <1>14 DEF OutputEnds, Finished, vars, follower, SegOK, homing, control, history
<1>15. CASE Tick
  <2>1. CASE seg = None
    BY <1>15, <2>1 DEF Tick, SegOK, TypeOK, homing, history
  <2>2. CASE seg # None
    <3>1. /\ seg.t \in Nat /\ seg.T \in Nat /\ seg'.t \in Nat
          /\ seg'.T = seg.T /\ seg'.t >= seg.t /\ seg'.t <= seg'.T /\ seg' # None
      BY <1>15, <2>2, TickSegment DEF TypeOK, Segments
    <3>2. UNCHANGED <<pc, path, sent>>
      BY <1>15 DEF Tick, homing, history
    <3> QED BY <2>2, <3>1, <3>2 DEF SegOK
  <2> QED BY <2>1, <2>2
<1> QED BY <1>1, <1>2, <1>3, <1>4, <1>5, <1>6, <1>7, <1>8, <1>9, <1>10, <1>11, <1>12, <1>13,
           <1>14, <1>15 DEF Next, Control, Feeder

\* Every step keeps the last point on its way to the shaper: while the segment plays, the
\* feeder's round is shorter than half the grace.
LEMMA LastPointStep ==
  ASSUME TypeOK, SegOK, LinkOK, LastPointOK, [Next]_vars
  PROVE  LastPointOK'
<1> USE FeedAssumption DEF Before, Working
<1>1. CASE Connect \/ Misconfigured
  BY <1>1 DEF Connect, Misconfigured, LastPointOK
<1>2. CASE JointsArrive \/ FramesArrive \/ ConnectFails
  BY <1>2 DEF JointsArrive, FramesArrive, ConnectFails, LastPointOK
<1>3. CASE HomingRaises \/ Interrupt
  BY <1>3 DEF HomingRaises, Interrupt, LastPointOK, LinkOK, link
<1>4. CASE Connected
  BY <1>4 DEF Connected, LastPointOK
<1>5. CASE RunPath \/ NextLeg
  BY <1>5, RunPathResult, NextLegResult DEF LastPointOK
<1>6. CASE LegStopped \/ LegDone \/ Settled
  BY <1>6 DEF LegStopped, LegDone, Settled, LastPointOK
<1>7. CASE SendFirst
  <2>1. pc' \in {"ready", "approach"}
    BY <1>7, SendFirstResult
  <2> QED BY <2>1 DEF LastPointOK
<1>8. CASE FirstRefused
  BY <1>8 DEF FirstRefused, LastPointOK, LinkOK, link
<1>9. CASE ApproachDone \/ SendRead \/ SendSet
  BY <1>9 DEF ApproachDone, SendRead, SendSet, LastPointOK
<1>10. CASE Disconnect
  <2>1. /\ pc' = IF connected /\ hasShaper /\ seg # None /\ seg.T <= GapMax THEN "drain" ELSE "stop"
        /\ pc \in {"ready", "raised"} /\ UNCHANGED <<connected, seg, sent>>
    BY <1>10 DEF Disconnect, link, history
  <2>2. sent = 1 => connected /\ hasShaper /\ seg # None
    BY <2>1 DEF LastPointOK, LinkOK, SegOK
  <2>3. seg # None => seg.T \in Nat
    BY DEF TypeOK, Segments
  <2> QED BY <2>1, <2>2, <2>3 DEF LastPointOK
<1>11. CASE Drained
  <2>1. /\ pc' = "grace" /\ wait' = 0 /\ since \in Nat
        /\ UNCHANGED <<feeder, since, point, seg, sent>>
    BY <1>11 DEF Drained, TypeOK, feeding, history
  <2>2. feeder = "have" => since > 0
    BY <1>11 DEF Drained, LinkOK
  <2>3. Feeding'
    BY <2>1, <2>2 DEF Feeding
  <2> QED BY <2>1, <2>3 DEF LastPointOK
<1>12. CASE StopThreads
  <2>1. UNCHANGED <<seg, feeder, point, target, sent>> /\ pc' = "join"
    BY <1>12 DEF StopThreads, StopShaper, shaper, feeding, history
  <2>2. CASE pc = "stop"
    BY <2>1, <2>2 DEF LastPointOK, TypeOK, SegOK, Segments
  <2>3. CASE pc = "grace" /\ wait >= Grace
    <3>1. ~Feeding
      BY <2>3 DEF Feeding, TypeOK
    <3>2. Fed'
      BY <2>1, <2>3, <3>1 DEF LastPointOK, Fed, Vec
    <3> QED BY <2>1, <3>2 DEF LastPointOK
  <2> QED BY <1>12, <2>2, <2>3 DEF StopThreads
<1>13. CASE Disconnected
  BY <1>13 DEF Disconnected, LastPointOK
<1>14. CASE FeedRead
  <2>1. UNCHANGED <<target, pc, wait, seg, sent, connected>>
    BY <1>14 DEF FeedRead, shaper, control, link, history
  <2>2. CASE feeder' # "have"
    <3>1. ~connected \/ seg = None
      BY <1>14, <2>2 DEF FeedRead
    <3>2. pc # "grace"
      BY <3>1 DEF LinkOK, SegOK
    <3>3. pc = "join" /\ sent = 1 /\ seg.T <= GapMax => Fed'
      BY <2>1, <2>2 DEF LastPointOK, Fed, Vec
    <3> QED BY <2>1, <3>2, <3>3 DEF LastPointOK
  <2>3. CASE feeder' = "have"
    <3>1. connected /\ seg # None /\ point' = SegmentValue(seg) /\ UNCHANGED since
      BY <1>14, <2>3 DEF FeedRead
    <3>2. pc = "grace" => point' = seg.to
      BY <3>1, SegmentBetween DEF TypeOK, SegOK
    <3>3. pc # "join"
      BY <3>1 DEF LinkOK
    <3>4. feeder = "idle"
      BY <1>14 DEF FeedRead
    <3> QED BY <2>1, <3>1, <3>2, <3>3, <3>4 DEF LastPointOK, Fed, Feeding, Vec
  <2> QED BY <2>2, <2>3
<1>15. CASE FeedSet
  <2>1. feeder = "have" /\ feeder' # "have" /\ UNCHANGED <<pc, wait, seg, sent, connected>>
    BY <1>15 DEF FeedSet, control, link, history
  <2>2. CASE hasShaper
    <3>1. target' = Vec(point) /\ since' = 0
      BY <1>15, <2>2 DEF FeedSet, SetTarget
    <3>2. pc = "grace" => Fed' \/ Feeding'
      <4>1. SUFFICES ASSUME pc = "grace", point # seg.to PROVE Feeding'
        BY <2>1, <3>1 DEF Fed, Vec
      <4>2. wait < since
        BY <2>1, <4>1 DEF LastPointOK, Fed, Feeding
      <4> QED BY <2>1, <3>1, <4>2 DEF Feeding, TypeOK
    <3>3. pc = "join" /\ sent = 1 /\ seg.T <= GapMax => Fed'
      BY <2>1, <3>1 DEF LastPointOK, Fed, Vec
    <3> QED BY <2>1, <3>2, <3>3 DEF LastPointOK, Vec
  <2>3. CASE ~hasShaper
    <3>1. UNCHANGED target /\ ~connected
      BY <1>15, <2>3 DEF FeedSet, shaper, LinkOK
    <3>2. pc # "grace"
      BY <3>1 DEF LinkOK
    <3>3. pc = "join" /\ sent = 1 /\ seg.T <= GapMax => Fed'
      BY <2>1, <3>1 DEF LastPointOK, Fed, Vec
    <3> QED BY <2>1, <3>1, <3>2, <3>3 DEF LastPointOK
  <2> QED BY <2>2, <2>3
<1>16. CASE OutputEnds \/ Finished \/ UNCHANGED vars
  BY <1>16 DEF OutputEnds, EndThread, Finished, vars, shaper, follower, link, feeding, control,
               history, LastPointOK, Fed, Feeding, Vec
<1>17. CASE Tick
  <2>1. /\ UNCHANGED <<pc, feeder, point, connected, sent>> /\ pc # "join"
        /\ feeder \in {"idle", "have"} => since < FeedMax
        /\ since' = AtMost(since + 1, FeedMax)
    BY <1>17 DEF Tick, link, history
  <2>2. target' = target
    <3>1. CASE thread = "running"
      BY <1>17, <3>1 DEF Tick, Iteration, FreshIteration, IdleIteration
    <3>2. CASE thread # "running"
      BY <1>17, <3>2 DEF Tick, shaper
    <3> QED BY <3>1, <3>2
  <2>3. seg # None => seg'.T = seg.T /\ seg'.to = seg.to
    BY <1>17, TickSegment
  <2>4. pc = "grace" => Fed' \/ Feeding'
    <3> SUFFICES ASSUME pc = "grace" PROVE Fed' \/ Feeding'
      OBVIOUS
    <3>1. feeder \in {"idle", "have"} /\ seg # None
      BY DEF LinkOK, SegOK
    <3>2. since' = since + 1
      BY <2>1, <3>1 DEF AtMost, TypeOK
    <3>3. wait' = AtMost(wait + 1, Grace + Dwell + SendMax)
      BY <1>17 DEF Tick
    <3>4. wait' <= wait + 1 /\ wait' \in Nat
      BY <3>3 DEF AtMost, TypeOK
    <3>5. Fed => Fed'
      BY <2>1, <2>2, <2>3, <3>1 DEF Fed, Vec
    <3>6. Feeding => Feeding'
      BY <2>1, <2>3, <3>1, <3>2, <3>4 DEF Feeding, TypeOK
    <3> QED BY <3>5, <3>6 DEF LastPointOK
  <2>5. pc = "stop" /\ sent = 1 => seg'.T > GapMax
    BY <2>3 DEF LastPointOK, SegOK
  <2> QED BY <2>1, <2>4, <2>5 DEF LastPointOK
<1> QED BY <1>1, <1>2, <1>3, <1>4, <1>5, <1>6, <1>7, <1>8, <1>9, <1>10, <1>11, <1>12, <1>13,
           <1>14, <1>15, <1>16, <1>17 DEF Next, Control, Feeder

-----------------------------------------------------------------------------
(* The theorems about the follower *)

LEMMA FeedInvariance == Spec => []FeedInv
<1>1. FeedInv /\ [Next]_vars => FeedInv'
  BY TypeStep, FollowerShaperStep, LinkStep, SegStep, LastPointStep DEF FeedInv
<1> QED BY <1>1, FollowerInitially, PTL DEF Spec

\* In every reachable state the follower and its shaper have their types; once disconnect has
\* returned there is no node, executor or shaper, and an output thread that its join did not wait
\* for has been told to stop; and the feeder lives as long as the connection.
THEOREM FollowerClean == Spec => []Inv
<1>1. FeedInv => Inv
  BY DEF FeedInv, ShaperInv, LinkOK, Before, Inv, CleanWhenOff, FeederLives
<1> QED BY <1>1, FeedInvariance, PTL

\* The arm is left commanded to the last action's point, for every duration of a round of
\* the feeder of which two fit into the grace.
THEOREM LastPointIsFed == Spec => []LastPointFed
<1>1. FeedInv => LastPointFed
  BY DEF FeedInv, LastPointOK, Fed, LastPointFed
<1> QED BY <1>1, FeedInvariance, PTL

\* What the follower feeds keeps the published stream within its limits: through homing legs,
\* frozen and replaced segments, pauses, and a new shaper with every connection.
THEOREM FollowerLimits == Spec => LimitsHold
<1>1. FeedInv /\ [Next]_vars => [Limits]_shaper
  <2> SUFFICES ASSUME FeedInv, [Next]_vars, ~UNCHANGED shaper PROVE Limits
    OBVIOUS
  <2>1. ShaperNext \/ Connect
    BY ShaperMoves DEF FeedInv, vars
  <2>2. CASE ShaperNext
    BY <2>2, StepLimits DEF FeedInv, Limits
  <2>3. CASE Connect
    BY <2>3 DEF Connect, Limits
  <2> QED BY <2>1, <2>2, <2>3
<1> QED BY <1>1, FeedInvariance, PTL DEF Spec, LimitsHold, Limits

-----------------------------------------------------------------------------
(* The output trails the feed: the arithmetic of one sample *)

\* Products keep the order of their factors.
LEMMA ProductOrder ==
  ASSUME NEW a \in Nat, NEW x \in Int, NEW y \in Int, x <= y
  PROVE  a * x <= a * y
<1>1. a * (y - x) >= 0
  BY y - x >= 0
<1>2. a * (y - x) = a * y - a * x
  OBVIOUS
<1>3. a * x \in Int /\ a * y \in Int
  OBVIOUS
<1> QED BY <1>1, <1>2, <1>3

LEMMA SquareOrder ==
  ASSUME NEW x \in Int, NEW y \in Int, 0 <= x, x <= y
  PROVE  x * x <= y * y
<1>1. x \in Nat /\ y \in Nat
  OBVIOUS
<1>2. x * x <= x * y
  BY <1>1, ProductOrder
<1>3. y * x <= y * y
  BY <1>1, ProductOrder
<1>4. x * y = y * x
  OBVIOUS
<1>5. x * x \in Int /\ x * y \in Int /\ y * y \in Int
  OBVIOUS
<1> QED BY <1>2, <1>3, <1>4, <1>5

\* Brake(err) is the root of 2 * AMax * |err|.
LEMMA BrakeRoot ==
  ASSUME NEW err \in Int
  PROVE  LET b == Brake(err)
         IN  /\ b \in Nat
             /\ b * b <= 2 * AMax * Dist(err, 0)
             /\ (b + 1) * (b + 1) > 2 * AMax * Dist(err, 0)
<1> DEFINE e == 2 * AMax * Dist(err, 0)
<1>1. e \in Nat
  <2>1. Dist(err, 0) \in Nat
    BY DEF Dist
  <2> QED BY <2>1
<1> HIDE DEF e
<1>2. \E k \in 0..e : k * k <= e /\ (k + 1) * (k + 1) > e
  BY <1>1, Root
<1>3. Brake(err) = CHOOSE k \in 0..e : k * k <= e /\ (k + 1) * (k + 1) > e
  BY DEF Brake, e
<1>4. Brake(err) \in 0..e /\ Brake(err) * Brake(err) <= e
        /\ (Brake(err) + 1) * (Brake(err) + 1) > e
  BY <1>2, <1>3
<1> QED BY <1>1, <1>4 DEF e

\* The speed of one joint after a sample with error err, from speed w, without feed-forward.
Wanted(err) == Clip(0 + Clip(Pull(err), -Brake(err), Brake(err)), -VMax, VMax)
NewSpeed(err, w) == w + Clip(Wanted(err) - w, -AMax, AMax)

LEMMA WantedType ==
  ASSUME NEW err \in Int
  PROVE  Wanted(err) \in -VMax..VMax
<1> DEFINE b == Brake(err)
           p == Pull(err)
<1>1. b \in Nat /\ p \in Int
  BY BrakeType, PullType
<1> HIDE DEF b, p
<1>2. Clip(p, -b, b) \in Int
  BY <1>1 DEF Clip
<1>3. Clip(0 + Clip(p, -b, b), -VMax, VMax) \in -VMax..VMax
  BY <1>2, ClipBounds
<1> QED BY <1>3 DEF Wanted, b, p

\* The two directions are alike.
LEMMA NewSpeedOdd ==
  ASSUME NEW err \in Int, NEW w \in Int
  PROVE  NewSpeed(-err, -w) = -NewSpeed(err, w)
<1>1. Pull(-err) = -Pull(err) /\ Pull(err) \in Int
  <2>1. CASE err < 0
    <3>1. CeilDiv(-err, Tau) \in Nat
      BY <2>1, CeilDivBound
    <3> QED BY <2>1, <3>1 DEF Pull
  <2>2. CASE err = 0
    <3>1. Tau - 1 \in Nat /\ (Tau - 1) \div Tau = 0
      OBVIOUS
    <3>2. CeilDiv(0, Tau) = 0
      BY <3>1 DEF CeilDiv
    <3> QED BY <2>2, <3>2 DEF Pull
  <2>3. CASE err > 0
    <3>1. CeilDiv(err, Tau) \in Nat
      BY <2>3, CeilDivBound
    <3>2. -err < 0 /\ -(-err) = err
      BY <2>3
    <3> QED BY <2>3, <3>1, <3>2 DEF Pull
  <2> QED BY <2>1, <2>2, <2>3
<1>2. Brake(-err) = Brake(err) /\ Brake(err) \in Nat
  <2>1. Dist(-err, 0) = Dist(err, 0)
    BY DEF Dist
  <2> QED BY <2>1, BrakeType DEF Brake
<1>3. ASSUME NEW x \in Int, NEW n \in Nat
      PROVE  Clip(-x, -n, n) = -Clip(x, -n, n) /\ Clip(x, -n, n) \in Int
  BY DEF Clip
<1> DEFINE p == Pull(err)
           b == Brake(err)
           c == Clip(p, -b, b)
           d == Clip(0 + c, -VMax, VMax)
<1>4. Clip(-p, -b, b) = -c /\ c \in Int
  BY <1>1, <1>2, <1>3
<1>5. Wanted(-err) = -Wanted(err) /\ Wanted(err) \in Int
  <2>1. Wanted(-err) = Clip(0 + Clip(-p, -b, b), -VMax, VMax) /\ Wanted(err) = d
    BY <1>1, <1>2 DEF Wanted
  <2> HIDE DEF c
  <2>2. 0 + -c = -(0 + c) /\ 0 + c \in Int
    BY <1>4
  <2>3. Clip(-(0 + c), -VMax, VMax) = -d /\ d \in Int
    BY <1>3, <2>2
  <2>4. Wanted(-err) = Clip(-(0 + c), -VMax, VMax)
    BY <1>4, <2>1, <2>2
  <2> QED BY <2>1, <2>3, <2>4
<1>6. Wanted(-err) - (-w) = -(Wanted(err) - w) /\ Wanted(err) - w \in Int
  BY <1>5
<1>7. Clip(-(Wanted(err) - w), -AMax, AMax) = -Clip(Wanted(err) - w, -AMax, AMax)
        /\ Clip(Wanted(err) - w, -AMax, AMax) \in Int
  BY <1>3, <1>6
<1> QED BY <1>6, <1>7 DEF NewSpeed

-----------------------------------------------------------------------------
(* The output trails the feed: one sample seen from one side *)

\* The numbers of the feed.
LEMMA FollowsNumbers ==
  ASSUME Follows
  PROVE  /\ Lagging \in Nat /\ Reach \in Int /\ Speed \in Nat \ {0}
         /\ Speed <= VMax /\ AMax \in Nat \ {0} /\ VMax \in Nat
         /\ 2 * AMax * Lagging + 2 * AMax * Speed + 2 * AMax * VMax + Speed * Speed
              + 2 * (Speed * VMax) <= 2 * AMax * Reach
         /\ 2 * AMax * Lagging + 2 * AMax * Speed + 2 * AMax * (Speed * Tau) + Speed * Speed
              <= 2 * AMax * Reach
<1>1. /\ Speed \in Nat \ {0} /\ SendMax \in Nat /\ FeedMax \in Nat /\ Slack \in Nat
      /\ AMax \in Nat \ {0} /\ VMax \in Nat /\ Speed <= VMax /\ Tau \in Nat /\ Snap \in Nat
  BY FeedAssumption DEF Follows
<1>2. Lagging \in Nat
  BY <1>1 DEF Lagging
<1>3. Reach \in Int
  BY <1>1, <1>2 DEF Reach
<1> DEFINE L == Lagging
           R == Reach
<1>4. /\ 2 * AMax * (L + Speed + VMax) + Speed * (Speed + 2 * VMax) <= 2 * AMax * R
      /\ 2 * AMax * (L + Speed + Speed * Tau) + Speed * Speed <= 2 * AMax * R
  BY DEF Follows
<1>5. L \in Int /\ R \in Int
  BY <1>2, <1>3
<1> HIDE DEF L, R
<1>6. 2 * AMax * (L + Speed + VMax) = 2 * AMax * L + 2 * AMax * Speed + 2 * AMax * VMax
  BY <1>1, <1>5
<1>7. Speed * (Speed + 2 * VMax) = Speed * Speed + 2 * (Speed * VMax)
  BY <1>1
<1>8. 2 * AMax * (L + Speed + Speed * Tau)
         = 2 * AMax * L + 2 * AMax * Speed + 2 * AMax * (Speed * Tau)
  BY <1>1, <1>5
<1>9. /\ 2 * AMax * L + 2 * AMax * Speed + 2 * AMax * VMax + Speed * Speed + 2 * (Speed * VMax)
           <= 2 * AMax * R
      /\ 2 * AMax * L + 2 * AMax * Speed + 2 * AMax * (Speed * Tau) + Speed * Speed <= 2 * AMax * R
  <2> DEFINE a == 2 * AMax * L
             b == 2 * AMax * Speed
             c == 2 * AMax * VMax
             d == Speed * Speed
             f == 2 * (Speed * VMax)
             g == 2 * AMax * (Speed * Tau)
             h == 2 * AMax * R
  <2>1. a \in Int /\ b \in Int /\ c \in Int /\ d \in Int /\ f \in Int /\ g \in Int /\ h \in Int
    BY <1>1, <1>5
  <2>2. (a + b + c) + (d + f) <= h /\ (a + b + g) + d <= h
    BY <1>4, <1>6, <1>7, <1>8
  <2> HIDE DEF a, b, c, d, f, g, h
  <2>3. a + b + c + d + f <= h /\ a + b + g + d <= h
    BY <2>1, <2>2
  <2> QED BY <2>3 DEF a, b, c, d, f, g, h
<1> QED BY <1>1, <1>2, <1>3, <1>9 DEF L, R

\* While the output runs at most at m against the feed, braking from m fits into the error.
LEMMA TurnRoom ==
  ASSUME Follows, NEW m \in 0..VMax, NEW err \in Int, m * m + 2 * AMax * err <= 0,
         NEW u \in Int, 0 <= u, u <= Speed + m
  PROVE  2 * AMax * (err + Lagging + u) + u * u <= 2 * AMax * Reach
<1> DEFINE A == 2 * AMax
           L == Lagging
           R == Reach
           S == Speed
<1>1. /\ A \in Nat /\ L \in Nat /\ R \in Int /\ S \in Nat /\ m \in Nat /\ VMax \in Nat /\ m <= VMax
      /\ A * L + A * S + A * VMax + S * S + 2 * (S * VMax) <= A * R
  BY FollowsNumbers
<1>2. m * m + A * err <= 0
  OBVIOUS
<1> SUFFICES A * (err + L + u) + u * u <= A * R
  OBVIOUS
<1>a. u <= S + m
  OBVIOUS
<1> HIDE DEF A, L, R, S
<1>3. A * u <= A * (S + m)
  BY <1>1, <1>a, ProductOrder
<1>4. u * u <= (S + m) * (S + m)
  BY <1>1, <1>a, SquareOrder
<1>5. A * m <= A * VMax /\ S * m <= S * VMax
  BY <1>1, ProductOrder
<1>6. /\ A * (err + L + u) = A * err + A * L + A * u
      /\ A * (S + m) = A * S + A * m
      /\ (S + m) * (S + m) = S * S + 2 * (S * m) + m * m
  BY <1>1
<1>7. /\ A * err \in Int /\ A * L \in Int /\ A * u \in Int /\ A * S \in Int /\ A * m \in Int
      /\ S * S \in Int /\ S * m \in Int /\ m * m \in Int /\ u * u \in Int /\ A * VMax \in Int
      /\ S * VMax \in Int /\ A * R \in Int
  BY <1>1
<1>8. A * err + A * L + A * u + u * u
        <= A * err + A * L + (A * S + A * m) + (S * S + 2 * (S * m) + m * m)
  BY <1>3, <1>4, <1>6, <1>7
<1>9. A * err + A * L + (A * S + A * m) + (S * S + 2 * (S * m) + m * m)
        <= A * L + A * S + A * VMax + S * S + 2 * (S * VMax)
  BY <1>2, <1>5, <1>7
<1> QED BY <1>1, <1>6, <1>7, <1>8, <1>9

\* While the output runs with the feed but slower, its error is small.
LEMMA SlowRoom ==
  ASSUME Follows, NEW err \in Int, err <= Speed * Tau \/ 2 * AMax * err <= Speed * Speed,
         NEW u \in Int, 0 <= u, u <= Speed
  PROVE  2 * AMax * (err + Lagging + u) + u * u <= 2 * AMax * Reach
<1> DEFINE A == 2 * AMax
           L == Lagging
           R == Reach
           S == Speed
           K == Speed * Tau
<1>1. /\ A \in Nat /\ L \in Nat /\ R \in Int /\ S \in Nat /\ VMax \in Nat /\ S <= VMax /\ K \in Int
      /\ A * L + A * S + A * VMax + S * S + 2 * (S * VMax) <= A * R
      /\ A * L + A * S + A * K + S * S <= A * R
  BY FollowsNumbers
<1>2. (err <= K \/ A * err <= S * S) /\ u <= S
  OBVIOUS
<1> SUFFICES A * (err + L + u) + u * u <= A * R
  OBVIOUS
<1> HIDE DEF A, L, R, S, K
<1>3. A * u <= A * S
  BY <1>1, <1>2, ProductOrder
<1>4. u * u <= S * S
  BY <1>1, <1>2, SquareOrder
<1>5. S * S <= S * VMax /\ 0 <= S * S /\ 0 <= A * VMax
  BY <1>1, ProductOrder
<1>6. A * (err + L + u) = A * err + A * L + A * u
  BY <1>1
<1>7. /\ A * err \in Int /\ A * L \in Int /\ A * u \in Int /\ A * S \in Int /\ A * K \in Int
      /\ S * S \in Int /\ u * u \in Int /\ A * VMax \in Int /\ S * VMax \in Int /\ A * R \in Int
  BY <1>1
<1>8. CASE err <= K
  <2>1. A * err <= A * K
    BY <1>1, <1>8, ProductOrder
  <2> QED BY <1>1, <1>3, <1>4, <1>6, <1>7, <2>1
<1>9. CASE A * err <= S * S
  BY <1>1, <1>3, <1>4, <1>5, <1>6, <1>7, <1>9
<1> QED BY <1>2, <1>8, <1>9

\* The speed wanted for an error: against the feed it can be braked within the error; with the
\* feed it reaches the feed's speed or the error is small.
LEMMA WantedSide ==
  ASSUME Follows, NEW err \in Int
  PROVE  /\ Wanted(err) >= Speed
              \/ (Wanted(err) >= 0 /\ (err <= Speed * Tau \/ 2 * AMax * err <= Speed * Speed))
              \/ \E m \in 0..VMax : m * m + 2 * AMax * err <= 0 /\ Wanted(err) >= -m
<1>1. /\ Speed \in Nat \ {0} /\ Speed <= VMax /\ AMax \in Nat /\ VMax \in Nat /\ Tau \in Nat \ {0}
  BY FollowsNumbers
<1> DEFINE b == Brake(err)
           p == Pull(err)
           e == 2 * AMax * Dist(err, 0)
<1>2. b \in Nat /\ p \in Int /\ b * b <= e /\ (b + 1) * (b + 1) > e
  BY BrakeRoot, PullType
<1>3. Wanted(err) = Clip(0 + Clip(p, -b, b), -VMax, VMax)
  BY DEF Wanted
<1>4. CASE err >= 0
  <2>1. e = 2 * AMax * err
    BY <1>4 DEF Dist
  <2>2. p \in Nat /\ err <= Tau * p
    BY <1>1, <1>4, CeilDivBound DEF Pull
  <2> HIDE DEF b, p, e
  <2>3. CASE p >= Speed /\ b >= Speed
    BY <1>1, <1>2, <1>3, <2>2, <2>3 DEF Clip
  <2>4. CASE p < Speed
    <3>1. Wanted(err) >= 0
      BY <1>1, <1>2, <1>3, <2>2 DEF Clip
    <3>2. Tau * p <= Tau * Speed /\ Tau * Speed = Speed * Tau
      BY <1>1, <2>2, <2>4, ProductOrder
    <3>3. Tau * p \in Int /\ Speed * Tau \in Int
      BY <1>1, <2>2
    <3> QED BY <2>2, <3>1, <3>2, <3>3
  <2>5. CASE b < Speed
    <3>1. Wanted(err) >= 0
      BY <1>1, <1>2, <1>3, <2>2 DEF Clip
    <3>2. (b + 1) * (b + 1) <= Speed * Speed
      BY <1>1, <1>2, <2>5, SquareOrder
    <3>3. (b + 1) * (b + 1) \in Int /\ Speed * Speed \in Int /\ e \in Int
      BY <1>1, <1>2, <2>1
    <3>4. e <= Speed * Speed
      BY <1>2, <3>2, <3>3
    <3> QED BY <2>1, <3>1, <3>4
  <2> QED BY <1>1, <1>2, <2>2, <2>3, <2>4, <2>5
<1>5. CASE err < 0
  <2>1. e = -(2 * AMax * err) /\ e \in Int
    BY <1>1, <1>5 DEF Dist
  <2> DEFINE m == IF b < VMax THEN b ELSE VMax
  <2>2. m \in 0..VMax /\ m <= b
    BY <1>1, <1>2
  <2> HIDE DEF b, p, e
  <2>3. Wanted(err) >= -m
    BY <1>1, <1>2, <1>3 DEF Clip
  <2> HIDE DEF m
  <2>4. m * m <= b * b
    BY <1>1, <1>2, <2>2, SquareOrder
  <2>5. m * m \in Int /\ b * b \in Int /\ 2 * AMax * err \in Int
    BY <1>1, <1>2, <2>2
  <2>6. m * m + 2 * AMax * err <= 0
    BY <1>2, <2>1, <2>4, <2>5
  <2> QED BY <2>2, <2>3, <2>6
<1> QED BY <1>4, <1>5

\* The output trails the position x by e, with R to spare: braking or speeding up to the
\* feed's speed from w takes less than what is left.
Trails(e, w, R) == e <= R /\ (w < Speed => 2 * AMax * e + (Speed - w) * (Speed - w) <= 2 * AMax * R)

\* What is left is enough for one sample more, whatever the shaper's target is within Lagging.
LEMMA TrailsStep ==
  ASSUME Follows, NEW err \in Int, NEW w \in -VMax..VMax, NEW e \in Int, NEW R \in Int,
         NEW ee \in Int, e <= err + Lagging, Trails(e, w, R), R >= Reach,
         ee <= e - NewSpeed(err, w) + Speed
  PROVE  Trails(ee, NewSpeed(err, w), R)
<1> DEFINE A == 2 * AMax
           L == Lagging
           S == Speed
           d == Wanted(err)
           n == NewSpeed(err, w)
           u == S - n
<1>1. /\ A \in Nat /\ A > 0 /\ AMax \in Nat /\ A = 2 * AMax /\ L \in Nat
      /\ Reach \in Int /\ S \in Nat
      /\ VMax \in Nat /\ S <= VMax /\ d \in Int
  BY FollowsNumbers, WantedType
<1>2. n = w + Clip(d - w, -AMax, AMax)
  BY DEF NewSpeed
<1> HIDE DEF n, d
<1>3. n \in Int /\ u \in Int
  <2>1. Clip(d - w, -AMax, AMax) \in Int
    BY <1>1 DEF Clip
  <2> QED BY <1>1, <1>2, <2>1
<1>4. ee <= e + u
  BY <1>1, <1>3 DEF n
<1>5. e <= R /\ (w < S => A * e + (S - w) * (S - w) <= A * R)
  BY DEF Trails
<1>a. e <= err + L /\ R >= Reach
  OBVIOUS
<1> SUFFICES ee <= R /\ (n < S => A * ee + u * u <= A * R)
  BY DEF Trails, n
<1> DEFINE V == VMax
<1>b. w \in -V..V
  OBVIOUS
<1> HIDE DEF A, L, S, u
<1>6. CASE n >= S
  BY <1>1, <1>3, <1>4, <1>5, <1>6 DEF u
<1>7. CASE n < S
  <2>1. u > 0 /\ u \in Nat
    BY <1>1, <1>3, <1>7 DEF u
  <2>2. SUFFICES A * (e + u) + u * u <= A * R
    <3>1. A * ee <= A * (e + u)
      BY <1>1, <1>3, <1>4, ProductOrder
    <3>2. A * ee \in Int /\ A * (e + u) \in Int /\ u * u \in Nat /\ A * R \in Int
      BY <1>1, <2>1
    <3>3. A * ee + u * u <= A * R /\ A * ee <= A * R
      BY <2>2, <3>1, <3>2
    <3>4. ~(R < ee)
      <4> SUFFICES ASSUME R + 1 <= ee PROVE FALSE
        OBVIOUS
      <4>1. A * (R + 1) <= A * ee
        BY <1>1, ProductOrder
      <4>2. A * (R + 1) = A * R + A
        BY <1>1
      <4> QED BY <1>1, <3>2, <3>3, <4>1, <4>2
    <3> QED BY <3>3, <3>4
  <2>3. CASE d - w >= AMax
    <3>1. n = w + AMax
      BY <1>1, <1>2, <1>b, <2>3 DEF Clip
    <3>2. S - w = u + AMax /\ w < S
      BY <1>1, <1>b, <1>7, <3>1 DEF u
    <3>3. A * e + (u + AMax) * (u + AMax) <= A * R
      BY <1>5, <3>2
    <3>4. (u + AMax) * (u + AMax) = u * u + A * u + AMax * AMax
      BY <1>1, <1>3
    <3>5. A * (e + u) = A * e + A * u
      BY <1>1, <1>3
    <3>6. A * e \in Int /\ A * u \in Int /\ u * u \in Int /\ AMax * AMax \in Nat /\ A * R \in Int
      BY <1>1, <1>3
    <3> QED BY <3>3, <3>4, <3>5, <3>6
  <2>4. CASE d - w < AMax
    <3>1. n >= d
      BY <1>1, <1>2, <1>b, <2>4 DEF Clip
    <3>2. u <= S - d
      BY <1>1, <1>3, <3>1 DEF u
    <3>3. A * (err + L + u) + u * u <= A * Reach
      <4>1. \/ d >= S
            \/ d >= 0 /\ (err <= Speed * Tau \/ 2 * AMax * err <= Speed * Speed)
            \/ \E m \in 0..VMax : m * m + 2 * AMax * err <= 0 /\ d >= -m
        BY WantedSide DEF d, S
      <4>2. CASE d >= S
        BY <1>1, <2>1, <3>2, <4>2
      <4>3. CASE d >= 0 /\ (err <= Speed * Tau \/ 2 * AMax * err <= Speed * Speed)
        <5>1. u <= Speed
          BY <1>1, <1>3, <3>2, <4>3 DEF S
        <5> QED BY <1>3, <2>1, <4>3, <5>1, SlowRoom DEF A, L
      <4>4. ASSUME NEW m \in 0..VMax, m * m + 2 * AMax * err <= 0, d >= -m
            PROVE  A * (err + L + u) + u * u <= A * Reach
        <5>1. u <= Speed + m
          BY <1>1, <1>3, <3>2, <4>4 DEF S
        <5> QED BY <1>3, <2>1, <4>4, <5>1, TurnRoom DEF A, L
      <4> QED BY <4>1, <4>2, <4>3, <4>4
    <3>4. A * (e + u) <= A * (err + L + u)
      BY <1>1, <1>3, <1>a, ProductOrder
    <3>5. A * Reach <= A * R
      BY <1>1, <1>a, ProductOrder
    <3>6. /\ A * (e + u) \in Int /\ A * (err + L + u) \in Int /\ u * u \in Int /\ A * Reach \in Int
          /\ A * R \in Int
      BY <1>1, <1>3
    <3> QED BY <3>3, <3>4, <3>5, <3>6
  <2> QED BY <1>1, <1>b, <2>3, <2>4
<1> QED BY <1>1, <1>3, <1>6, <1>7

-----------------------------------------------------------------------------
(* The pace of the feed *)

\* At its start a segment within the pace has the value it started from.
LEMMA SegmentStart ==
  ASSUME NEW s \in Segments, s.t = 0, Dist(s.from, s.to) <= Speed * s.T
  PROVE  SegmentValue(s) = s.from
<1>1. s.from \in Int /\ s.to \in Int /\ s.T \in Nat
  BY FeedAssumption DEF Segments
<1>2. CASE s.T = 0
  <2>1. Dist(s.from, s.to) <= 0
    BY <1>2, FeedAssumption
  <2> QED BY <1>1, <1>2, <2>1 DEF Dist, SegmentValue
<1>3. CASE s.T > 0
  <2>1. (s.to - s.from) * s.t = 0
    BY <1>1
  <2>2. 0 \div s.T = 0
    BY <1>1, <1>3
  <2> QED BY <1>1, <1>3, <2>1, <2>2 DEF SegmentValue
<1> QED BY <1>1, <1>2, <1>3

\* In one unit of time a segment within the pace moves by Speed at most.
LEMMA SegmentMove ==
  ASSUME NEW s \in Segments, NEW n \in Segments, s.t <= s.T, Dist(s.from, s.to) <= Speed * s.T,
         n.from = s.from, n.to = s.to, n.T = s.T, n.t = AtMost(s.t + 1, s.T)
  PROVE  Dist(SegmentValue(n), SegmentValue(s)) <= Speed
<1> DEFINE d == s.to - s.from
           T == s.T
           x == (d * s.t) \div T
           y == (d * (s.t + 1)) \div T
<1>1. /\ s.from \in Int /\ s.to \in Int /\ s.t \in Nat /\ T \in Nat /\ Speed \in Nat /\ d \in Int
      /\ SegmentValue(s) \in Int
  <2>1. SegmentValue(s) \in Poses
    BY SegmentBetween
  <2>2. s.from \in Poses /\ s.to \in Poses /\ s.t \in Nat /\ s.T \in Nat
    BY DEF Segments
  <2>3. Poses \subseteq Int /\ Speed \in Nat
    BY FeedAssumption
  <2>4. s.from \in Int /\ s.to \in Int /\ SegmentValue(s) \in Int
    BY <2>1, <2>2, <2>3
  <2> QED BY <2>2, <2>3, <2>4
<1>2. CASE n.t = s.t
  <2>1. SegmentValue(n) = SegmentValue(s)
    BY <1>2 DEF SegmentValue
  <2> QED BY <1>1, <2>1 DEF Dist
<1>3. CASE n.t = s.t + 1 /\ T > 0
  <2>1. SegmentValue(s) = s.from + x /\ SegmentValue(n) = s.from + y
    <3>1. s.T # 0 /\ n.T # 0
      BY <1>1, <1>3
    <3> QED BY <1>3, <3>1 DEF SegmentValue
  <2> DEFINE a == d * s.t
  <2>2. a \in Int /\ d * (s.t + 1) = a + d
    BY <1>1
  <2>3. -(Speed * T) <= d /\ d <= Speed * T /\ Speed * T \in Int
    BY <1>1 DEF Dist
  <2>4. x = a \div T /\ y = (a + d) \div T
    BY <2>2
  <2> HIDE DEF a, d, T, x, y
  <2>5. x \in Int /\ y \in Int /\ T * x <= a /\ a < T * x + T /\ T * y <= a + d /\ a + d < T * y + T
    BY <1>1, <1>3, <2>2, <2>4
  <2>6. y <= x + Speed
    <3> SUFFICES ASSUME x + Speed + 1 <= y PROVE FALSE
      BY <1>1, <2>5
    <3>1. T * (x + Speed + 1) <= T * y
      BY <1>1, <2>5, ProductOrder
    <3>2. T * (x + Speed + 1) = T * x + Speed * T + T
      BY <1>1, <2>5
    <3>3. T * x \in Int /\ T * y \in Int
      BY <1>1, <2>5
    <3> QED BY <1>1, <2>2, <2>3, <2>5, <3>1, <3>2, <3>3
  <2>7. x <= y + Speed
    <3> SUFFICES ASSUME y + Speed + 1 <= x PROVE FALSE
      BY <1>1, <2>5
    <3>1. T * (y + Speed + 1) <= T * x
      BY <1>1, <2>5, ProductOrder
    <3>2. T * (y + Speed + 1) = T * y + Speed * T + T
      BY <1>1, <2>5
    <3>3. T * x \in Int /\ T * y \in Int
      BY <1>1, <2>5
    <3> QED BY <1>1, <2>2, <2>3, <2>5, <3>1, <3>2, <3>3
  <2> QED BY <1>1, <2>1, <2>5, <2>6, <2>7 DEF Dist
<1>4. n.t = s.t \/ (n.t = s.t + 1 /\ T > 0)
  <2> DEFINE k == s.t
  <2>1. k \in Nat /\ T \in Nat /\ k <= T /\ n.t = IF k + 1 < T THEN k + 1 ELSE T
    BY <1>1 DEF AtMost
  <2> HIDE DEF k, T
  <2>2. n.t = k \/ (n.t = k + 1 /\ T > 0)
    BY <2>1
  <2> QED BY <2>2 DEF k, T
<1> QED BY <1>2, <1>3, <1>4

\* Segments go at Speed at most unless an action asked for more; the point that send_action has
\* read is behind the feed by what it has waited since.
PaceOK ==
  /\ seg # None /\ ~fast => Dist(seg.from, seg.to) <= Speed * seg.T
  /\ pc = "dwell" => Complete(seg)
  /\ pc = "send" /\ seg # None /\ ~fast => wait <= SendMax /\ Dist(SegNow, cur) <= Speed * wait

\* The pace and the origin of a ramp.
LEMMA RampPace ==
  ASSUME NEW from \in Poses, NEW to \in Poses, Ramp(from, to)
  PROVE  seg'.from = from /\ Dist(seg'.from, seg'.to) <= Speed * seg'.T
<1>1. from \in Int /\ to \in Int /\ Dist(from, to) \in Nat /\ Speed \in Nat \ {0}
  BY FeedAssumption DEF Dist
<1> DEFINE T == IF from = to THEN 1 ELSE CeilDiv(Dist(from, to), Speed)
<1>2. seg'.from = from /\ seg'.to = to /\ seg'.T = T
  BY DEF Ramp, SetSegment
<1>3. Dist(from, to) <= Speed * T
  <2>1. CASE from = to
    <3>1. Dist(from, to) = 0
      BY <1>1, <2>1 DEF Dist
    <3> QED BY <1>1, <2>1, <3>1
  <2>2. CASE from # to
    BY <1>1, <2>2, CeilDivBound
  <2> QED BY <2>1, <2>2
<1> QED BY <1>2, <1>3

LEMMA LegPace ==
  ASSUME NEW from \in Poses, NEW p \in Seq(Poses), p # <<>>, Leg(from, p)
  PROVE  seg'.from = from /\ Dist(seg'.from, seg'.to) <= Speed * seg'.T
<1>1. Head(p) \in Poses
  OBVIOUS
<1> QED BY <1>1, RampPace DEF Leg

\* Where the segments that homing and send_action set start from, and their pace.
LEMMA RunPathPace ==
  ASSUME TypeOK, SegOK, RunPath
  PROVE  seg'.from = SegNow /\ Dist(seg'.from, seg'.to) <= Speed * seg'.T
<1>1. PICK p \in Routes : /\ clean' = (p[Len(p)] = Home)
                          /\ IF Dist(SegNow, meas) > Snap
                             THEN Leg(SegNow, <<meas>> \o p)
                             ELSE Leg(SegNow, p)
  BY DEF RunPath
<1>2. p \in Seq(Poses) /\ p # <<>>
  <2>1. PICK n \in 1..MaxPath : p \in [1..n -> Poses]
    BY DEF Routes
  <2>2. n \in Nat /\ n >= 1
    BY <2>1, FeedAssumption
  <2> QED BY <2>1, <2>2
<1>3. SegNow \in Poses /\ meas \in Poses
  BY SegNowType DEF TypeOK
<1>4. <<meas>> \o p \in Seq(Poses) /\ <<meas>> \o p # <<>>
  BY <1>2, <1>3
<1> QED BY <1>1, <1>2, <1>3, <1>4, LegPace

LEMMA NextLegPace ==
  ASSUME TypeOK, SegOK, NextLeg
  PROVE  seg'.from = seg.to /\ Dist(seg'.from, seg'.to) <= Speed * seg'.T
<1>1. seg # None /\ path # <<>> /\ path \in Seq(Poses) /\ seg \in Segments
  BY DEF NextLeg, TypeOK, SegOK
<1>2. seg.to \in Poses
  BY <1>1 DEF Segments
<1> QED BY <1>1, <1>2, LegPace DEF NextLeg

LEMMA LegStoppedPace ==
  ASSUME TypeOK, SegOK, LegStopped
  PROVE  seg'.from = SegNow /\ Dist(seg'.from, seg'.to) <= Speed * seg'.T
<1>1. SegNow \in Int /\ Speed \in Nat
  BY SegNowType, FeedAssumption
<1>2. seg'.from = SegNow /\ seg'.to = SegNow /\ seg'.T = 0
  BY DEF LegStopped, SegOK, FreezeFeed, SetSegment
<1> QED BY <1>1, <1>2 DEF Dist

LEMMA SendFirstPace ==
  ASSUME TypeOK, SendFirst
  PROVE  seg'.from = meas /\ Dist(seg'.from, seg'.to) <= Speed * seg'.T
BY RampPace DEF SendFirst, TypeOK

LEMMA SendSetPace ==
  ASSUME TypeOK, SendSet, ~fast'
  PROVE  seg'.from = cur /\ Dist(seg'.from, seg'.to) <= Speed * seg'.T
<1>1. PICK gap \in 1..GapMax, p \in Poses : /\ SetSegment(cur, p, gap)
                                            /\ fast' = (fast \/ Dist(cur, p) > Speed * gap)
  BY DEF SendSet
<1>2. ~(Dist(cur, p) > Speed * gap)
  BY <1>1
<1>3. cur \in Int /\ p \in Int /\ gap \in Int /\ Speed \in Nat
  BY FeedAssumption DEF TypeOK
<1>4. Dist(cur, p) \in Int /\ Speed * gap \in Int
  BY <1>3 DEF Dist
<1>5. Dist(cur, p) <= Speed * gap
  BY <1>2, <1>4
<1> QED BY <1>1, <1>5 DEF SetSegment

\* Only a later action asks for more than Speed, and only a new connection forgets it.
LEMMA FastKept ==
  ASSUME [Next]_vars, ~Connect, ~fast'
  PROVE  ~fast
<1>1. CASE Misconfigured \/ JointsArrive \/ FramesArrive \/ ConnectFails \/ Connected
  BY <1>1 DEF Misconfigured, JointsArrive, FramesArrive, ConnectFails, Connected, history
<1>2. CASE RunPath \/ LegDone \/ NextLeg \/ LegStopped \/ Settled \/ HomingRaises \/ Interrupt
  BY <1>2 DEF RunPath, LegDone, NextLeg, LegStopped, Settled, HomingRaises, Interrupt, history
<1>3. CASE SendFirst \/ FirstRefused \/ ApproachDone \/ SendRead \/ SendSet
  BY <1>3 DEF SendFirst, FirstRefused, ApproachDone, SendRead, SendSet, history
<1>4. CASE Disconnect \/ Drained \/ StopThreads \/ Disconnected
  BY <1>4 DEF Disconnect, Drained, StopThreads, Disconnected, history
<1>5. CASE FeedRead \/ FeedSet \/ OutputEnds \/ Finished \/ UNCHANGED vars
  BY <1>5 DEF FeedRead, FeedSet, OutputEnds, Finished, vars, follower, history
<1>6. CASE Tick
  BY <1>6 DEF Tick, history
<1> QED BY <1>1, <1>2, <1>3, <1>4, <1>5, <1>6 DEF Next, Control, Feeder

\* A new connection finds a segment that keeps to Speed, or knows that it does not.
LEMMA ConnectPace ==
  ASSUME TypeOK, SegOK, Connect, seg # None, ~fast'
  PROVE  Dist(seg.from, seg.to) <= Speed * seg.T
<1>1. ~(Dist(seg.from, seg.to) > Speed * seg.T)
  BY DEF Connect
<1>2. seg.from \in Int /\ seg.to \in Int /\ seg.T \in Nat /\ Speed \in Nat
  BY FeedAssumption DEF TypeOK, Segments
<1>3. Dist(seg.from, seg.to) \in Int /\ Speed * seg.T \in Int
  BY <1>2 DEF Dist
<1> QED BY <1>1, <1>3

\* The value of a segment that has just been set.
LEMMA NewValue ==
  ASSUME seg' \in Segments, seg'.t = 0, Dist(seg'.from, seg'.to) <= Speed * seg'.T
  PROVE  SegNow' = seg'.from
<1>1. SegmentValue(seg') = seg'.from
  BY SegmentStart
<1>2. seg' # None
  BY FeedAssumption DEF Segments
<1> QED BY <1>1, <1>2 DEF SegNow, SegmentValue

\* Every unit of time moves the feed by Speed at most.
LEMMA TickMove ==
  ASSUME TypeOK, SegOK, PaceOK, ~fast, Tick, seg # None
  PROVE  /\ SegNow \in Int /\ SegNow' \in Int /\ Dist(SegNow', SegNow) <= Speed
         /\ seg'.from = seg.from /\ seg'.to = seg.to /\ seg'.T = seg.T
<1>1. /\ seg \in Segments /\ seg.t <= seg.T /\ seg.t \in Nat /\ seg.T \in Nat
      /\ Dist(seg.from, seg.to) <= Speed * seg.T
  BY DEF TypeOK, SegOK, PaceOK, Segments
<1>2. seg' \in Segments /\ seg' # None /\ seg'.t <= seg'.T
  BY TickSegment
<1>3. /\ seg'.from = seg.from /\ seg'.to = seg.to /\ seg'.T = seg.T
      /\ seg'.t = AtMost(seg.t + 1, seg.T)
  <2>1. seg' = [seg EXCEPT !.t = AtMost(@ + 1, seg.T)]
    BY DEF Tick
  <2> QED BY <1>1, <2>1 DEF Segments
<1>4. Dist(SegmentValue(seg'), SegmentValue(seg)) <= Speed
  BY <1>1, <1>2, <1>3, SegmentMove
<1>5. SegNow = SegmentValue(seg) /\ SegNow' = SegmentValue(seg')
  BY <1>2 DEF SegNow, SegmentValue
<1>6. SegNow \in Poses /\ SegNow' \in Poses
  BY <1>1, <1>2, <1>5, SegmentBetween
<1> QED BY <1>3, <1>4, <1>5, <1>6, FeedAssumption

LEMMA PaceStep ==
  ASSUME TypeOK, SegOK, LinkOK, PaceOK, [Next]_vars
  PROVE  PaceOK'
<1> USE DEF PaceOK
<1>1. CASE Connect
  <2>1. CASE seg = None
    BY <1>1, <2>1, ConnectSegment DEF Connect
  <2>2. CASE seg # None
    <3>1. /\ seg'.from = seg.from /\ seg'.to = seg.to /\ seg'.T = seg.T
          /\ pc' = "joints"
      BY <1>1, <2>2, ConnectSegment DEF Connect
    <3>2. ~fast' => Dist(seg.from, seg.to) <= Speed * seg.T
      BY <1>1, <2>2, ConnectPace
    <3> QED BY <3>1, <3>2
  <2> QED BY <2>1, <2>2
<1> SUFFICES ASSUME ~Connect PROVE PaceOK'
  BY <1>1
<1>f. ~fast' => ~fast
  BY FastKept
<1>14. CASE Misconfigured
  BY <1>f, <1>14 DEF Misconfigured
<1>2. CASE JointsArrive \/ FramesArrive \/ ConnectFails \/ HomingRaises \/ Interrupt
  BY <1>f, <1>2 DEF JointsArrive, FramesArrive, ConnectFails, HomingRaises, Interrupt
<1>3. CASE Connected \/ Settled \/ FirstRefused \/ ApproachDone
  BY <1>f, <1>3 DEF Connected, Settled, FirstRefused, ApproachDone
<1>4. CASE RunPath
  BY <1>4, RunPathResult, RunPathPace
<1>5. CASE NextLeg
  BY <1>5, NextLegResult, NextLegPace
<1>6. CASE LegStopped
  <2>1. pc' = "settle"
    BY <1>6 DEF LegStopped
  <2> QED BY <1>6, <2>1, LegStoppedPace
<1>7. CASE LegDone
  <2>1. Complete(seg) /\ pc' # "send" /\ UNCHANGED seg
    BY <1>7 DEF LegDone
  <2> QED BY <1>f, <2>1 DEF Complete
<1>8. CASE SendFirst
  BY <1>8, SendFirstResult, SendFirstPace
<1>9. CASE SendRead
  <2>1. cur' = SegNow /\ pc' = "send" /\ wait' = 0 /\ UNCHANGED <<seg, meas>>
    BY <1>9 DEF SendRead
  <2>2. SegNow' = SegNow /\ SegNow \in Int
    BY <2>1, SegNowType, FeedAssumption DEF SegNow, SegmentValue
  <2>3. Dist(SegNow', cur') <= Speed * wait'
    BY <2>1, <2>2, FeedAssumption DEF Dist
  <2>4. wait' <= SendMax
    BY <2>1, FeedAssumption
  <2> QED BY <1>f, <2>1, <2>3, <2>4
<1>10. CASE SendSet
  <2>1. pc' = "ready"
    BY <1>10 DEF SendSet
  <2> QED BY <1>10, <2>1, SendSetPace
<1>11. CASE Disconnect \/ Drained \/ StopThreads \/ Disconnected
  BY <1>f, <1>11 DEF Disconnect, Drained, StopThreads, Disconnected
<1>12. CASE FeedRead \/ FeedSet \/ OutputEnds \/ Finished \/ UNCHANGED vars
  <2>1. UNCHANGED <<seg, pc, wait, cur, meas>>
    BY <1>12 DEF FeedRead, FeedSet, OutputEnds, Finished, vars, follower, control
  <2>2. SegNow' = SegNow
    BY <2>1 DEF SegNow, SegmentValue
  <2> QED BY <1>f, <2>1, <2>2 DEF Complete
<1>13. CASE Tick
  <2>1. CASE seg = None
    BY <1>13, <2>1 DEF Tick, SegOK
  <2>2. CASE seg # None
    <3>1. UNCHANGED <<pc, cur>> /\ seg' # None
      BY <1>13, <2>2, TickSegment DEF Tick
    <3>f. fast' = fast
      BY <1>13 DEF Tick, history
    <3>2. ~fast => SegNow \in Int /\ SegNow' \in Int /\ Dist(SegNow', SegNow) <= Speed
      BY <1>13, <2>2, TickMove
    <3>s. seg'.from = seg.from /\ seg'.to = seg.to /\ seg'.T = seg.T
      <4>1. seg' = [seg EXCEPT !.t = AtMost(@ + 1, seg.T)]
        BY <1>13, <2>2 DEF Tick
      <4> QED BY <2>2, <4>1 DEF TypeOK, Segments
    <3>3. pc = "dwell" => Complete(seg)'
      <4>1. seg'.t >= seg.t /\ seg.t \in Nat /\ seg.T \in Nat /\ seg'.t <= seg'.T
        BY <1>13, <2>2, TickSegment DEF TypeOK, Segments
      <4>2. seg' \in Segments /\ seg'.t \in Nat
        BY <1>13, <2>2, TickSegment DEF Segments
      <4> QED BY <3>s, <4>1, <4>2 DEF Complete
    <3>4. pc = "send" /\ ~fast => wait' <= SendMax /\ Dist(SegNow', cur') <= Speed * wait'
      <4> SUFFICES ASSUME pc = "send", ~fast PROVE wait' <= SendMax /\ Dist(SegNow', cur') <= Speed * wait'
        OBVIOUS
      <4>1. /\ wait < SendMax /\ wait' = AtMost(wait + 1, Grace + Dwell + SendMax)
            /\ Dist(SegNow, cur) <= Speed * wait
        BY <1>13, <2>2 DEF Tick
      <4>2. /\ wait \in Nat /\ cur \in Int /\ Speed \in Nat
            /\ SendMax \in Nat /\ Grace \in Nat /\ Dwell \in Nat
        BY FeedAssumption DEF TypeOK
      <4>3. wait' = wait + 1
        BY <4>1, <4>2 DEF AtMost
      <4>4. Speed * (wait + 1) = Speed * wait + Speed /\ Speed * wait \in Int
        BY <4>2
      <4>5. Dist(SegNow', cur) <= Speed * wait + Speed
        BY <3>2, <4>1, <4>2, <4>4 DEF Dist
      <4> QED BY <3>1, <4>1, <4>2, <4>3, <4>4, <4>5
    <3> QED BY <2>2, <3>1, <3>f, <3>s, <3>3, <3>4
  <2> QED BY <2>1, <2>2
<1> QED BY <1>1, <1>2, <1>3, <1>4, <1>5, <1>6, <1>7, <1>8, <1>9, <1>10, <1>11, <1>12, <1>13,
           <1>14
        DEF Next, Control, Feeder

\* What the control thread, the feeder and the output thread leave of each other.
FlowOK ==
  /\ first => ~apart
  /\ ff = None
  /\ pc \in {"joints", "frames", "latched"} => target = None /\ q = None /\ feeder # "have"
  /\ target # None \/ feeder = "have" => seg # None
  /\ connected /\ target # None => age <= since

LEMMA FlowStep ==
  ASSUME Follows, TypeOK, ShaperTypeOK, SegOK, LinkOK, FlowOK, [Next]_vars
  PROVE  FlowOK'
<1> USE DEF FlowOK
<1>1. CASE Connect \/ Misconfigured
  <2>1. CASE Connect
    <3>1. /\ target' = None /\ q' = None /\ ff' = None /\ thread' = "new" /\ feeder' # "have"
          /\ pc' = "joints" /\ apart' = FALSE
      BY <2>1 DEF Connect, feeding
    <3> QED BY <3>1
  <2>2. CASE Misconfigured
    <3>1. /\ pc = "off" /\ pc' = "raised"
          /\ UNCHANGED <<target, ff, age, thread, connected, seg, feeder, since, first, apart>>
      BY <2>2 DEF Misconfigured, shaper, feeding
    <3> QED BY <3>1 DEF LinkOK, Before
  <2> QED BY <1>1, <2>1, <2>2
<1>2. CASE JointsArrive \/ FramesArrive \/ ConnectFails
  <2>1. /\ UNCHANGED <<target, ff, age, q, thread, connected, seg, feeder, since, first, apart>>
        /\ pc \in Before
    BY <1>2 DEF JointsArrive, FramesArrive, ConnectFails, Before, shaper, link, feeding, history
  <2>2. pc' \in {"joints", "frames", "latched"} => pc \in {"joints", "frames", "latched"}
    BY <1>2 DEF JointsArrive, FramesArrive, ConnectFails
  <2>3. (first => ~apart)'
    BY <2>1
  <2> QED BY <2>1, <2>2, <2>3
<1>3. CASE Connected
  BY <1>3 DEF Connected, StartShaper, history
<1>4. CASE RunPath
  BY <1>4, RunPathResult DEF RunPath, shaper, link, feeding, history
<1>5. CASE NextLeg
  BY <1>5, NextLegResult DEF NextLeg, shaper, link, feeding, history
<1>6. CASE LegStopped
  BY <1>6, LegStoppedResult DEF LegStopped, shaper, link, feeding, history
<1>7. CASE LegDone \/ Settled \/ HomingRaises \/ Interrupt
  <2>1. UNCHANGED <<target, ff, age, q, thread, connected, seg, feeder, since, first, apart>>
    BY <1>7 DEF LegDone, Settled, HomingRaises, Interrupt, shaper, link, feeding, history
  <2>2. pc # "join" /\ pc' \notin {"joints", "frames", "latched"}
    BY <1>7 DEF LegDone, Settled, HomingRaises, Interrupt
  <2>3. (first => ~apart)'
    BY <2>1
  <2>4. (connected /\ target # None => age <= since)'
    BY <2>1
  <2> QED BY <2>1, <2>2, <2>3, <2>4
<1>8. CASE SendFirst
  <2>1. pc = "ready"
    BY <1>8 DEF SendFirst
  <2>2. /\ pc' \in {"ready", "approach"} /\ first' = FALSE /\ seg' # None
        /\ UNCHANGED <<target, ff, age, q, thread, connected, feeder, since>>
    BY <1>8, SendFirstResult DEF shaper, link, feeding
  <2> QED BY <2>1, <2>2
<1>9. CASE FirstRefused \/ ApproachDone \/ SendRead
  BY <1>9 DEF FirstRefused, ApproachDone, SendRead, shaper, link, feeding, history
<1>10. CASE SendSet
  BY <1>10, SendSetResult DEF SendSet, shaper, link, feeding
<1>11. CASE Disconnect \/ Drained
  BY <1>11 DEF Disconnect, Drained, shaper, link, feeding, history
<1>12. CASE StopThreads
  BY <1>12 DEF StopThreads, StopShaper, shaper, feeding, history
<1>13. CASE Disconnected
  BY <1>13 DEF Disconnected, shaper, feeding, history
<1>14. CASE FeedRead
  <2>1. /\ UNCHANGED <<target, ff, age, q, thread, pc, connected, seg, first, apart>>
        /\ (feeder' = "have" => connected /\ seg # None)
        /\ since' = since \/ seg = None
    BY <1>14 DEF FeedRead, shaper, link, control, history
  <2> QED BY <2>1 DEF LinkOK, Before
<1>15. CASE FeedSet
  <2>1. /\ feeder = "have" /\ feeder' # "have"
        /\ UNCHANGED <<q, thread, pc, connected, seg, first, apart>>
        /\ \/ ff' = None /\ age' = 0 /\ since' = 0
           \/ UNCHANGED <<target, ff, age, since>>
    BY <1>15 DEF FeedSet, SetTarget, shaper, link, control, history
  <2> QED BY <2>1
<1>16. CASE OutputEnds
  BY <1>16 DEF OutputEnds, EndThread, follower, link, feeding, control, history
<1>17. CASE Finished \/ UNCHANGED vars
  BY <1>17 DEF Finished, vars, shaper, follower, link, feeding, control, history
<1>18. CASE Tick
  <2>1. /\ UNCHANGED <<target, ff, pc, connected, feeder, first, apart>>
        /\ thread' = "running" => thread = "running"
        /\ age' = age \/ age' <= age + 1
    <3>1. UNCHANGED <<pc, connected, feeder, first, apart>>
      BY <1>18 DEF Tick, link, history
    <3>2. CASE thread = "running"
      BY <1>18, <3>1, <3>2 DEF Tick, Iteration, FreshIteration, IdleIteration, AtMost, ShaperTypeOK
    <3>3. CASE thread # "running"
      BY <1>18, <3>1, <3>3 DEF Tick, shaper
    <3> QED BY <3>2, <3>3
  <2>2. pc \notin {"joints", "frames", "latched"}
    BY <1>18 DEF Tick
  <2>3. seg # None => seg' # None
    BY <1>18, TickSegment
  <2>4. connected => since' = since + 1
    <3> SUFFICES ASSUME connected PROVE since' = since + 1
      OBVIOUS
    <3>1. since < FeedMax /\ since' = AtMost(since + 1, FeedMax)
      BY <1>18 DEF Tick, LinkOK
    <3> QED BY <3>1, FeedAssumption DEF AtMost, TypeOK
  <2>5. age \in Nat /\ since \in Nat /\ age' \in Int
    <3>1. age \in 0..Stale /\ since \in 0..FeedMax
      BY DEF ShaperTypeOK, TypeOK
    <3>2. age' = age \/ age' = age + 1 \/ age' = Stale
      <4>1. CASE thread = "running"
        BY <1>18, <4>1 DEF Tick, Iteration, FreshIteration, IdleIteration, AtMost
      <4>2. CASE thread # "running"
        BY <1>18, <4>2 DEF Tick, shaper
      <4> QED BY <4>1, <4>2
    <3> QED BY <3>1, <3>2, FeedAssumption
  <2>6. connected /\ target # None => age' <= since'
    BY <2>1, <2>4, <2>5
  <2> QED BY <2>1, <2>2, <2>3, <2>6
<1> QED BY <1>1, <1>2, <1>3, <1>4, <1>5, <1>6, <1>7, <1>8, <1>9, <1>10, <1>11, <1>12, <1>13,
           <1>14, <1>15, <1>16, <1>17, <1>18 DEF Next, Control, Feeder

-----------------------------------------------------------------------------
(* The output trails the feed: the invariant *)

\* Where the feed is: send_action's segment will start from the point it has read.
Base == IF pc = "send" THEN cur ELSE SegNow

\* p was read from the feed, now at x, within n iterations.
Near(p, x, n) == Dist(p, x) <= Speed * (SendMax + n)

\* The first action's ramp may make the feed jump once.
Jump == IF first THEN 0 ELSE Slack
Room(o) == Reach + Jump - Dist(o, 0)

\* The output trails the feed as it was before a jump by o, or the feed as it is (o = 0): so does
\* the shaper's target, and what the feeder carries is of this feed or the other.
Aimed(o) == target # None => \A j \in Joints : Near(target[j], Base + o, FeedMax + since)

Carried(o) == feeder = "have" => Near(point, Base + o, since) \/ Near(point, Base, since)

Behind(o) ==
  q # None => \A j \in Joints :
    /\ Trails(Base + o - q[j], v[j], Room(o))
    /\ Trails(-(Base + o - q[j]), -v[j], Room(o))

Tracks(o) == Aimed(o) /\ Carried(o) /\ Behind(o)

TrackOK ==
  thread = "running" /\ seg # None /\ ~apart /\ ~fast => \E o \in -Jump..Jump : Tracks(o)

LEMMA BaseType ==
  ASSUME TypeOK, SegOK
  PROVE  Base \in Int
BY SegNowType, FeedAssumption DEF Base, TypeOK

\* Only time and the first action move the feed.
LEMMA BaseKept ==
  ASSUME TypeOK, SegOK, LinkOK, PaceOK, [Next]_vars, ~Tick, ~SendFirst, ~Connect, seg # None,
         ~fast'
  PROVE  seg' # None /\ Base' = Base
<1>1. CASE Misconfigured \/ JointsArrive \/ FramesArrive \/ ConnectFails \/ Connected
  <2>1. UNCHANGED <<seg, cur, meas>> /\ pc # "send" /\ pc' # "send"
    BY <1>1 DEF Misconfigured, JointsArrive, FramesArrive, ConnectFails, Connected
  <2> QED BY <2>1 DEF Base, SegNow, SegmentValue
<1>2. CASE LegDone \/ Settled \/ HomingRaises \/ Interrupt \/ FirstRefused \/ ApproachDone
  <2>1. UNCHANGED <<seg, cur, meas>> /\ pc # "send" /\ pc' # "send"
    BY <1>2 DEF LegDone, Settled, HomingRaises, Interrupt, FirstRefused, ApproachDone
  <2> QED BY <2>1 DEF Base, SegNow, SegmentValue
<1>3. CASE Disconnect \/ Drained \/ StopThreads \/ Disconnected
  <2>1. UNCHANGED <<seg, cur, meas>> /\ pc # "send" /\ pc' # "send"
    BY <1>3 DEF Disconnect, Drained, StopThreads, Disconnected
  <2> QED BY <2>1 DEF Base, SegNow, SegmentValue
<1>4. CASE FeedRead \/ FeedSet \/ OutputEnds \/ Finished \/ UNCHANGED vars
  <2>1. UNCHANGED <<seg, cur, meas, pc>>
    BY <1>4 DEF FeedRead, FeedSet, OutputEnds, Finished, vars, follower, control
  <2> QED BY <2>1 DEF Base, SegNow, SegmentValue
<1>5. CASE RunPath
  <2>1. /\ seg' \in Segments /\ seg' # None /\ SegNow' = seg'.from /\ seg'.from = SegNow
        /\ pc' = "leg"
    BY <1>5, RunPathResult, RunPathPace, NewValue
  <2>2. pc = "plan"
    BY <1>5 DEF RunPath
  <2> QED BY <2>1, <2>2 DEF Base
<1>6. CASE NextLeg
  <2>1. /\ seg' \in Segments /\ seg' # None /\ SegNow' = seg'.from /\ seg'.from = seg.to
        /\ pc' = "leg"
    BY <1>6, NextLegResult, NextLegPace, NewValue
  <2>2. pc = "dwell"
    BY <1>6 DEF NextLeg
  <2>3. SegNow = seg.to
    BY <2>2, SegmentBetween DEF SegNow, TypeOK, SegOK, PaceOK
  <2> QED BY <2>1, <2>2, <2>3 DEF Base
<1>7. CASE LegStopped
  <2>1. seg' \in Segments /\ seg' # None /\ SegNow' = seg'.from /\ seg'.from = SegNow
    BY <1>7, LegStoppedResult, LegStoppedPace, NewValue
  <2>2. pc = "leg" /\ pc' = "settle"
    BY <1>7 DEF LegStopped
  <2> QED BY <2>1, <2>2 DEF Base
<1>8. CASE SendRead
  <2>1. cur' = SegNow /\ pc = "ready" /\ pc' = "send" /\ UNCHANGED seg
    BY <1>8 DEF SendRead
  <2> QED BY <2>1 DEF Base
<1>9. CASE SendSet
  <2>1. seg' \in Segments /\ seg' # None /\ SegNow' = seg'.from /\ seg'.from = cur
    BY <1>9, SendSetResult, SendSetPace, NewValue
  <2>2. pc = "send" /\ pc' = "ready"
    BY <1>9 DEF SendSet
  <2> QED BY <2>1, <2>2 DEF Base
<1> QED BY <1>1, <1>2, <1>3, <1>4, <1>5, <1>6, <1>7, <1>8, <1>9 DEF Next, Control, Feeder

\* With time the feed moves by Speed at most; what it was read from is a unit of time older.
LEMMA BaseMove ==
  ASSUME TypeOK, SegOK, PaceOK, ~fast, Tick, seg # None
  PROVE  Base \in Int /\ Base' \in Int /\ Dist(Base', Base) <= Speed
<1>1. UNCHANGED <<pc, cur>> /\ cur \in Int /\ Speed \in Nat
  BY FeedAssumption DEF Tick, TypeOK
<1>2. SegNow \in Int /\ SegNow' \in Int /\ Dist(SegNow', SegNow) <= Speed
  BY TickMove
<1>3. CASE pc = "send"
  <2>1. Base = cur /\ Base' = cur
    BY <1>1, <1>3 DEF Base
  <2> QED BY <1>1, <2>1 DEF Dist
<1>4. CASE pc # "send"
  BY <1>1, <1>2, <1>4 DEF Base
<1> QED BY <1>3, <1>4

LEMMA NearMove ==
  ASSUME NEW p \in Int, NEW x \in Int, NEW y \in Int, NEW n \in Nat, Near(p, x, n),
         Dist(y, x) <= Speed
  PROVE  Near(p, y, n + 1)
<1>1. Speed \in Nat /\ SendMax \in Nat
  BY FeedAssumption
<1>2. Speed * (SendMax + (n + 1)) = Speed * (SendMax + n) + Speed /\ Speed * (SendMax + n) \in Int
  BY <1>1
<1> QED BY <1>1, <1>2 DEF Near, Dist

\* What is near within a number of iterations is near within a greater one.
LEMMA NearMore ==
  ASSUME NEW p \in Int, NEW x \in Int, NEW n \in Nat, NEW m \in Nat, Near(p, x, n), n <= m
  PROVE  Near(p, x, m)
<1>1. Speed \in Nat /\ SendMax \in Nat
  BY FeedAssumption
<1>2. Speed * (SendMax + n) <= Speed * (SendMax + m)
  BY <1>1, ProductOrder
<1>3. Speed * (SendMax + n) \in Int /\ Speed * (SendMax + m) \in Int
  BY <1>1
<1> QED BY <1>2, <1>3 DEF Near, Dist

\* The shaper's target is within Lagging of the feed.
LEMMA NearLagging ==
  ASSUME NEW p \in Int, NEW x \in Int, NEW n \in 0..FeedMax, Near(p, x, FeedMax + n)
  PROVE  Dist(p, x) <= Lagging
<1>1. Speed \in Nat /\ SendMax \in Nat /\ FeedMax \in Nat
  BY FeedAssumption
<1>2. Near(p, x, 2 * FeedMax)
  BY <1>1, NearMore
<1> QED BY <1>2 DEF Near, Lagging

\* The room to the output moves with the feed that it is measured from.
LEMMA TrailsShift ==
  ASSUME AMax > 0, NEW e \in Int, NEW w \in Int, NEW R \in Int, NEW ee \in Int, NEW RR \in Int,
         Trails(e, w, R), ee - e <= RR - R
  PROVE  Trails(ee, w, RR)
<1> DEFINE A == 2 * AMax
           k == (Speed - w) * (Speed - w)
<1>1. A \in Nat /\ Speed \in Nat
  BY FeedAssumption
<1>2. k \in Int
  BY <1>1
<1>3. e <= R /\ (w < Speed => A * e + k <= A * R)
  BY DEF Trails
<1> SUFFICES ee <= RR /\ (w < Speed => A * ee + k <= A * RR)
  BY DEF Trails
<1> HIDE DEF A, k
<1>4. A * (ee + R) <= A * (RR + e)
  BY <1>1, ProductOrder
<1>5. A * (ee + R) = A * ee + A * R /\ A * (RR + e) = A * RR + A * e
  BY <1>1
<1>6. A * ee \in Int /\ A * R \in Int /\ A * RR \in Int /\ A * e \in Int
  BY <1>1
<1> QED BY <1>2, <1>3, <1>4, <1>5, <1>6

\* At rest, within Lagging of the feed, there is room enough.
LEMMA TrailsStart ==
  ASSUME Follows, NEW e \in Int, e <= Lagging, NEW R \in Int, R >= Reach
  PROVE  Trails(e, 0, R)
<1>1. /\ Lagging \in Nat /\ Reach \in Int /\ Speed \in Nat /\ AMax > 0 /\ AMax \in Nat
  BY FollowsNumbers
<1>2. 2 * AMax * (0 + Lagging + Speed) + Speed * Speed <= 2 * AMax * Reach
  BY <1>1, SlowRoom
<1> DEFINE A == 2 * AMax
           L == Lagging
           M == Reach
           S == Speed
<1>3. /\ A \in Nat /\ A > 0 /\ L \in Nat /\ M \in Int /\ S \in Nat /\ e <= L /\ M <= R
      /\ A * (0 + L + S) + S * S <= A * M
  BY <1>1, <1>2
<1> SUFFICES e <= R /\ A * e + (S - 0) * (S - 0) <= A * R
  BY DEF Trails
<1> HIDE DEF A, L, M, S
<1>4. A * e <= A * (0 + L + S) /\ A * M <= A * R
  BY <1>3, ProductOrder
<1>5. /\ A * e \in Int /\ A * (0 + L + S) \in Int /\ A * M \in Int /\ A * R \in Int /\ S * S \in Nat
      /\ (S - 0) * (S - 0) = S * S
  BY <1>3
<1>6. A * e + S * S <= A * R /\ A * e <= A * R
  BY <1>3, <1>4, <1>5
<1>7. ~(R < e)
  <2> SUFFICES ASSUME R + 1 <= e PROVE FALSE
    OBVIOUS
  <2>1. A * (R + 1) <= A * e
    BY <1>3, ProductOrder
  <2>2. A * (R + 1) = A * R + A
    BY <1>3
  <2> QED BY <1>3, <1>5, <1>6, <2>1, <2>2
<1> QED BY <1>5, <1>6, <1>7

-----------------------------------------------------------------------------
(* The output trails the feed: the steps *)

LEMMA TracksTypes ==
  ASSUME TypeOK, ShaperTypeOK, SegOK, NEW o \in -Jump..Jump
  PROVE  /\ Base \in Int /\ o \in Int /\ point \in Int /\ since \in 0..FeedMax
         /\ Jump \in Nat /\ Jump <= Slack /\ Dist(o, 0) \in Nat /\ Dist(o, 0) <= Jump
         /\ \A j \in Joints : target # None => target[j] \in Int
         /\ \A j \in Joints : q # None => q[j] \in Int
         /\ \A j \in Joints : v[j] \in -VMax..VMax
<1>1. Slack \in Nat /\ point \in Int
  BY FeedAssumption DEF TypeOK
<1>2. Jump \in Nat /\ Jump <= Slack
  BY <1>1 DEF Jump
<1>3. o \in Int /\ Dist(o, 0) \in Nat /\ Dist(o, 0) <= Jump
  BY <1>2 DEF Dist
<1>4. \A j \in Joints : target # None => target[j] \in Int
  BY DEF ShaperTypeOK, Vector
<1>5. \A j \in Joints : q # None => q[j] \in Int
  BY DEF ShaperTypeOK, Vector
<1>6. \A j \in Joints : v[j] \in -VMax..VMax
  BY DEF ShaperTypeOK
<1> QED BY <1>1, <1>2, <1>3, <1>4, <1>5, <1>6, BaseType DEF TypeOK

\* A step that moves neither the feed nor what follows it.
LEMMA TracksKept ==
  ASSUME UNCHANGED <<target, q, v, feeder, point, since, first>>, Base' = Base, NEW o, Tracks(o)
  PROVE  Tracks(o)'
<1>1. Aimed(o)'
  BY DEF Tracks, Aimed, Near, Dist
<1>2. Carried(o)'
  BY DEF Tracks, Carried, Near, Dist
<1>3. Behind(o)'
  <2>1. Room(o)' = Room(o)
    BY DEF Room, Jump, Reach, Lagging, Dist
  <2> QED BY <2>1 DEF Tracks, Behind, Trails
<1> QED BY <1>1, <1>2, <1>3 DEF Tracks

\* The first action's ramp starts at the arm: the output goes on from where the feed was.
LEMMA SendFirstTracks ==
  ASSUME Follows, TypeOK, ShaperTypeOK, SegOK, SendFirst, ~apart', Tracks(0), seg # None
  PROVE  \E o \in -Jump'..Jump' : Tracks(o)'
<1>1. /\ SegNow \in Int /\ meas \in Int /\ Slack \in Nat /\ Reach \in Int
  BY SegNowType, FeedAssumption, FollowsNumbers DEF TypeOK
<1>2. /\ pc = "ready" /\ first = TRUE /\ Dist(SegNow, meas) <= Slack
  <2>1. pc = "ready" /\ first = TRUE /\ apart' = (Dist(SegNow, meas) > Slack)
    BY DEF SendFirst, TypeOK
  <2>2. ~(Dist(SegNow, meas) > Slack)
    BY <2>1
  <2> QED BY <1>1, <2>1, <2>2 DEF Dist
<1>3. /\ first' = FALSE /\ pc' \in {"ready", "approach"}
      /\ UNCHANGED <<target, q, v, feeder, point, since>>
  BY SendFirstResult DEF shaper, feeding
<1>4. SegNow' = meas
  BY SendFirstResult, SendFirstPace, NewValue
<1>p. PICK o \in Int : o = SegNow - meas
  BY <1>1
<1>5. o \in Int /\ Dist(o, 0) <= Slack /\ Dist(o, 0) \in Nat /\ o \in -Slack..Slack
  BY <1>1, <1>2, <1>p DEF Dist
<1>6. Base = SegNow /\ Base' = meas /\ Base' = Base - o /\ Base' + o = Base + 0
  BY <1>1, <1>2, <1>3, <1>4, <1>p DEF Base
<1>7. /\ Jump = 0 /\ Jump' = Slack
  BY <1>2, <1>3 DEF Jump
<1>8. Aimed(o)'
  BY <1>3, <1>6 DEF Tracks, Aimed, Near, Dist
<1>9. Carried(o)'
  <2>1. Base + 0 = Base
    BY <1>1, <1>6
  <2> QED BY <1>3, <1>6, <2>1 DEF Tracks, Carried, Near, Dist
<1>10. Behind(o)'
  <2>1. Room(0) = Reach
    BY <1>1, <1>7 DEF Room, Dist
  <2>2. Room(o)' = Reach + Slack - Dist(o, 0)
    BY <1>7 DEF Room, Reach, Lagging, Dist
  <2>3. ASSUME q # None, NEW j \in Joints
        PROVE  /\ Trails(Base + 0 - q[j], v[j], Room(o)')
               /\ Trails(-(Base + 0 - q[j]), -v[j], Room(o)')
    <3>1. /\ Trails(Base + 0 - q[j], v[j], Room(0)) /\ Trails(-(Base + 0 - q[j]), -v[j], Room(0))
          /\ 0 \in -Jump..Jump
      BY <1>7, <2>3 DEF Tracks, Behind
    <3>2. /\ Base + 0 - q[j] \in Int /\ -(Base + 0 - q[j]) \in Int /\ v[j] \in Int /\ -v[j] \in Int
          /\ AMax > 0
      BY <2>3, <3>1, TracksTypes, FollowsNumbers
    <3>3. Room(0) \in Int /\ Room(o)' \in Int /\ Room(o)' - Room(0) >= 0
      BY <1>1, <1>5, <2>1, <2>2
    <3> QED BY <3>1, <3>2, <3>3, TrailsShift
  <2>4. q' # None => \A j \in Joints : /\ Trails(Base' + o - q'[j], v'[j], Room(o)')
                                      /\ Trails(-(Base' + o - q'[j]), -v'[j], Room(o)')
    <3> SUFFICES ASSUME q' # None, NEW j \in Joints
                 PROVE  /\ Trails(Base' + o - q'[j], v'[j], Room(o)')
                        /\ Trails(-(Base' + o - q'[j]), -v'[j], Room(o)')
      OBVIOUS
    <3>1. q'[j] = q[j] /\ v'[j] = v[j] /\ q # None
      BY <1>3
    <3>2. Base \in Int /\ Base' \in Int /\ q[j] \in Int
      BY <1>1, <1>6, <3>1 DEF ShaperTypeOK, Vector
    <3>3. Base' + o - q[j] = Base + 0 - q[j]
      BY <1>5, <1>6, <3>2
    <3> QED BY <2>3, <3>1, <3>3
  <2> QED BY <2>4 DEF Behind, Trails
<1> QED BY <1>5, <1>7, <1>8, <1>9, <1>10 DEF Tracks

\* The feeder's point is of one of the two feeds: the output trails that one.
LEMMA FeedSetTracks ==
  ASSUME Follows, TypeOK, ShaperTypeOK, SegOK, FeedSet, Base' = Base,
         NEW o \in -Jump..Jump, Tracks(o)
  PROVE  \E k \in -Jump'..Jump' : Tracks(k)'
<1>1. feeder = "have" /\ feeder' # "have" /\ UNCHANGED <<q, v, first>>
  BY DEF FeedSet, SetTarget, shaper
<1>2. Jump' = Jump /\ 0 \in -Jump..Jump /\ Jump \in Nat
  BY <1>1, TracksTypes DEF Jump
<1>3. /\ Base \in Int /\ o \in Int /\ point \in Int /\ since \in 0..FeedMax /\ FeedMax \in Nat
  BY TracksTypes, FeedAssumption
<1>4. ASSUME NEW k \in -Jump..Jump, Aimed(k)', Behind(k) PROVE Tracks(k)'
  <2>1. Carried(k)'
    BY <1>1 DEF Carried
  <2>2. Room(k)' = Room(k)
    BY <1>2 DEF Room, Reach, Lagging, Dist
  <2>3. Behind(k)'
    BY <1>1, <1>4, <2>2 DEF Behind, Trails
  <2> QED BY <1>4, <2>1, <2>3 DEF Tracks
<1>5. CASE ~hasShaper
  <2>1. UNCHANGED <<target, since>>
    BY <1>5 DEF FeedSet, shaper
  <2>2. Aimed(o)'
    BY <2>1 DEF Tracks, Aimed, Near, Dist
  <2> QED BY <1>2, <1>4, <2>2 DEF Tracks
<1>6. CASE hasShaper
  <2>1. target' = Vec(point) /\ since' = 0
    BY <1>6 DEF FeedSet, SetTarget
  <2>2. ASSUME NEW k \in -Jump..Jump, Near(point, Base + k, since) PROVE Aimed(k)'
    <3>1. k \in Int /\ Base + k \in Int
      BY <1>2, <1>3
    <3>2. Near(point, Base + k, FeedMax + 0)
      BY <1>3, <2>2, <3>1, NearMore
    <3> QED BY <2>1, <3>2 DEF Aimed, Near, Dist, Vec
  <2>3. CASE Near(point, Base + o, since)
    <3>1. Aimed(o)'
      BY <2>2, <2>3
    <3> QED BY <1>2, <1>4, <3>1 DEF Tracks
  <2>4. CASE Near(point, Base, since)
    <3>1. Base + 0 = Base
      BY <1>3
    <3>2. Aimed(0)'
      BY <1>2, <2>2, <2>4, <3>1
    <3>3. Behind(0)
      <4> SUFFICES ASSUME q # None, NEW j \in Joints
                   PROVE  /\ Trails(Base + 0 - q[j], v[j], Room(0))
                          /\ Trails(-(Base + 0 - q[j]), -v[j], Room(0))
        BY DEF Behind
      <4>1. /\ Trails(Base + o - q[j], v[j], Room(o)) /\ Trails(-(Base + o - q[j]), -v[j], Room(o))
        BY DEF Tracks, Behind
      <4>2. q[j] \in Int /\ v[j] \in Int /\ -v[j] \in Int /\ AMax > 0 /\ Reach \in Int
        BY TracksTypes, FollowsNumbers
      <4>3. /\ Base + o - q[j] \in Int /\ -(Base + o - q[j]) \in Int
            /\ Base + 0 - q[j] \in Int /\ -(Base + 0 - q[j]) \in Int
        BY <1>3, <4>2
      <4>4. /\ Room(o) \in Int /\ Room(0) \in Int
            /\ o <= Room(0) - Room(o) /\ -o <= Room(0) - Room(o)
        BY <1>2, <1>3, <4>2 DEF Room, Dist
      <4>5. /\ (Base + 0 - q[j]) - (Base + o - q[j]) = -o
            /\ (-(Base + 0 - q[j])) - (-(Base + o - q[j])) = o
        BY <1>3, <4>2
      <4> QED BY <4>1, <4>2, <4>3, <4>4, <4>5, TrailsShift
    <3> QED BY <1>2, <1>4, <3>2, <3>3
  <2> QED BY <1>1, <2>3, <2>4 DEF Tracks, Carried
<1> QED BY <1>5, <1>6

\* One joint's sample, without feed-forward.
LEMMA SampleSpeed ==
  ASSUME ShaperTypeOK, ff = None, target # None, q # None, ~Lost(q, target),
         Sample, NEW j \in Joints
  PROVE  /\ v'[j] = NewSpeed(target[j] - q[j], v[j])
         /\ q'[j] = q[j] + v'[j]
<1>1. FeedForward = [i \in Joints |-> 0]
  BY DEF FeedForward
<1>2. Desired(target, FeedForward)[j] = Wanted(target[j] - q[j])
  BY <1>1 DEF Desired, Wanted
<1> DEFINE speed == Limited(Desired(target, FeedForward))
<1>3. v' = speed /\ q' = [i \in Joints |-> q[i] + speed[i]]
  BY DEF Sample
<1>4. speed[j] = v[j] + Clip(Desired(target, FeedForward)[j] - v[j], -AMax, AMax)
  BY DEF Limited
<1> HIDE DEF speed
<1>5. v'[j] = speed[j] /\ q'[j] = q[j] + speed[j]
  BY <1>3
<1> QED BY <1>2, <1>4, <1>5 DEF NewSpeed

\* One sample of one joint: it was within the room of the feed and stays within it.
LEMMA SampleTrails ==
  ASSUME Follows, NEW x \in Int, NEW y \in Int, Dist(y, x) <= Speed,
         NEW tgt \in Int, NEW n \in 0..FeedMax - 1, Near(tgt, x, FeedMax + n),
         NEW p \in Int, NEW w \in -VMax..VMax, NEW R \in Int, R >= Reach,
         Trails(x - p, w, R), Trails(-(x - p), -w, R)
  PROVE  LET u == NewSpeed(tgt - p, w)
         IN  Trails(y - (p + u), u, R) /\ Trails(-(y - (p + u)), -u, R)
<1> DEFINE u == NewSpeed(tgt - p, w)
<1>1. /\ Lagging \in Nat /\ Speed \in Nat /\ FeedMax \in Nat
      /\ -w \in -VMax..VMax /\ VMax \in Nat /\ AMax \in Nat
  BY FollowsNumbers, FeedAssumption
<1>2. Dist(tgt, x) <= Lagging
  BY <1>1, NearLagging
<1>3. tgt - p \in Int /\ x - p \in Int /\ -(x - p) \in Int /\ -(tgt - p) \in Int
  OBVIOUS
<1>4. u \in Int
  <2>1. Wanted(tgt - p) \in Int /\ w \in Int
    BY <1>1, <1>3, WantedType
  <2>2. Clip(Wanted(tgt - p) - w, -AMax, AMax) \in Int
    BY <1>1, <2>1 DEF Clip
  <2> QED BY <2>1, <2>2 DEF NewSpeed
<1>5. NewSpeed(-(tgt - p), -w) = -u
  BY <1>3, NewSpeedOdd
<1> HIDE DEF u
<1>6. /\ x - p <= (tgt - p) + Lagging /\ -(x - p) <= -(tgt - p) + Lagging
  BY <1>1, <1>2 DEF Dist
<1>7. /\ y - (p + u) <= (x - p) - u + Speed /\ -(y - (p + u)) <= -(x - p) - (-u) + Speed
  BY <1>1, <1>4 DEF Dist
<1>8. y - (p + u) \in Int /\ -(y - (p + u)) \in Int
  BY <1>4
<1>9. Trails(y - (p + u), u, R)
  BY <1>3, <1>6, <1>7, <1>8, TrailsStep DEF u
<1>10. Trails(-(y - (p + u)), -u, R)
  BY <1>1, <1>3, <1>5, <1>6, <1>7, <1>8, TrailsStep
<1> QED BY <1>9, <1>10 DEF u

\* A unit of time keeps the output behind the feed: the target that the shaper samples is fresh,
\* and within Lagging of the feed.
LEMMA TickTracks ==
  ASSUME Follows, TypeOK, ShaperTypeOK, SegOK, LinkOK, PaceOK, FlowOK, ~fast, Tick,
         thread = "running", seg # None, NEW o \in -Jump..Jump, Tracks(o)
  PROVE  Tracks(o)'
<1>1. /\ UNCHANGED <<first, feeder, point, target, pc>> /\ connected /\ pc # "join"
  <2>1. UNCHANGED <<first, feeder, point, pc>> /\ Iteration /\ pc # "join"
    BY DEF Tick
  <2>2. UNCHANGED target
    BY <2>1 DEF Iteration, FreshIteration, IdleIteration
  <2>3. connected
    BY <2>1 DEF Iteration, FreshIteration, IdleIteration, LinkOK
  <2> QED BY <2>1, <2>2, <2>3
<1>2. since < FeedMax /\ since' = since + 1 /\ since \in Nat /\ FeedMax \in Nat
  <2>1. since < FeedMax /\ since' = AtMost(since + 1, FeedMax)
    BY <1>1 DEF Tick, LinkOK
  <2> QED BY <2>1, FeedAssumption DEF AtMost, TypeOK
<1>3. /\ Base \in Int /\ o \in Int /\ point \in Int /\ Jump \in Nat /\ Dist(o, 0) <= Jump
      /\ Dist(o, 0) \in Nat /\ Reach \in Int /\ Speed \in Nat /\ AMax \in Nat
  BY TracksTypes, FollowsNumbers
<1>4. Base' \in Int /\ Dist(Base', Base) <= Speed
  BY BaseMove
<1>b. PICK b \in Int : b = Base'
  BY <1>4
<1>5. /\ Base + o \in Int /\ b + o \in Int /\ b \in Int /\ Dist(b + o, Base + o) <= Speed
      /\ Dist(b, Base) <= Speed
  <2>1. b \in Int /\ Dist(b, Base) <= Speed
    BY <1>4, <1>b
  <2> QED BY <1>3, <2>1 DEF Dist
<1>6. Room(o)' = Room(o) /\ Room(o) \in Int /\ Room(o) >= Reach
  <2>1. Jump' = Jump
    BY <1>1 DEF Jump
  <2>2. Room(o)' = Room(o)
    BY <2>1 DEF Room, Reach, Lagging, Dist
  <2> QED BY <1>3, <2>2 DEF Room
<1>7. Aimed(o)'
  <2>1. ASSUME target # None, NEW j \in Joints PROVE Near(target[j], b + o, FeedMax + (since + 1))
    <3>1. Near(target[j], Base + o, FeedMax + since) /\ target[j] \in Int
      BY <2>1, TracksTypes DEF Tracks, Aimed
    <3>2. Near(target[j], b + o, (FeedMax + since) + 1)
      BY <1>2, <1>5, <3>1, NearMove
    <3> QED BY <1>2, <3>2
  <2> QED BY <1>1, <1>2, <1>b, <2>1 DEF Aimed, Near, Dist
<1>8. Carried(o)'
  <2>1. Near(point, Base + o, since) => Near(point, b + o, since + 1)
    BY <1>2, <1>3, <1>5, NearMove
  <2>2. Near(point, Base, since) => Near(point, b, since + 1)
    BY <1>2, <1>3, <1>5, NearMove
  <2> QED BY <1>1, <1>2, <1>b, <2>1, <2>2 DEF Tracks, Carried, Near, Dist
<1>9. ASSUME q' # None, NEW j \in Joints
      PROVE  /\ Trails(b + o - q'[j], v'[j], Room(o))
             /\ Trails(-(b + o - q'[j]), -v'[j], Room(o))
  <2>1. CASE target = None
    <3>1. IdleIteration
      BY <2>1 DEF Tick, Iteration, FreshIteration
    <3>2. q' = q /\ q = None
      BY <2>1, <3>1 DEF IdleIteration, ShaperTypeOK
    <3> QED BY <1>9, <3>2
  <2>2. CASE target # None
    <3>1. FreshIteration
      <4>1. age <= since /\ age \in Nat /\ FeedMax <= Stale /\ Stale \in Nat
        <5>1. age <= since /\ FeedMax <= Stale
          BY <1>1, <2>2 DEF FlowOK, Follows
        <5>2. age \in 0..Stale /\ Stale \in Nat
          BY DEF ShaperTypeOK
        <5> QED BY <5>1, <5>2
      <4>2. age < Stale
        BY <1>2, <4>1
      <4>3. ~IdleIteration
        BY <2>2, <4>1, <4>2 DEF IdleIteration
      <4> QED BY <4>3 DEF Tick, Iteration
    <3>2. Sample
      BY <3>1 DEF FreshIteration
    <3>3. target[j] \in Int /\ Near(target[j], Base + o, FeedMax + since)
      BY <2>2, TracksTypes DEF Tracks, Aimed
    <3>4. CASE q = None \/ Lost(q, target)
      <4>1. q'[j] = target[j] /\ v'[j] = 0
        BY <3>2, <3>4 DEF Sample, Zero
      <4>2. Near(target[j], b + o, (FeedMax + since) + 1)
        BY <1>2, <1>5, <3>3, NearMove
      <4>3. Dist(target[j], b + o) <= Lagging
        <5>1. since + 1 \in 0..FeedMax /\ FeedMax + (since + 1) = (FeedMax + since) + 1
          BY <1>2
        <5> QED BY <1>5, <3>3, <4>2, <5>1, NearLagging
      <4>4. /\ b + o - target[j] \in Int /\ b + o - target[j] <= Lagging
            /\ -(b + o - target[j]) \in Int /\ -(b + o - target[j]) <= Lagging
        BY <1>3, <1>5, <3>3, <4>3, FollowsNumbers DEF Dist
      <4>5. Trails(b + o - target[j], 0, Room(o)) /\ Trails(-(b + o - target[j]), 0, Room(o))
        BY <1>6, <4>4, TrailsStart
      <4> QED BY <4>1, <4>5
    <3>5. CASE q # None /\ ~Lost(q, target)
      <4>1. /\ v'[j] = NewSpeed(target[j] - q[j], v[j]) /\ q'[j] = q[j] + v'[j]
        BY <2>2, <3>2, <3>5, SampleSpeed DEF FlowOK
      <4>2. q[j] \in Int /\ v[j] \in -VMax..VMax
        BY <3>5, TracksTypes
      <4>3. /\ Trails(Base + o - q[j], v[j], Room(o)) /\ Trails(-(Base + o - q[j]), -v[j], Room(o))
        BY <3>5 DEF Tracks, Behind
      <4> DEFINE x == Base + o
                 y == b + o
                 u == NewSpeed(target[j] - q[j], v[j])
      <4>4. x - q[j] = Base + o - q[j] /\ x \in Int /\ y \in Int
        BY <1>3, <1>5, <4>2
      <4>5. since \in 0..FeedMax - 1
        BY <1>2
      <4>6. Trails(y - (q[j] + u), u, Room(o)) /\ Trails(-(y - (q[j] + u)), -u, Room(o))
        <5>1. Trails(x - q[j], v[j], Room(o)) /\ Trails(-(x - q[j]), -v[j], Room(o))
          BY <4>3, <4>4
        <5>2. Near(target[j], x, FeedMax + since) /\ Dist(y, x) <= Speed
          BY <1>5, <3>3
        <5> HIDE DEF x, y, u
        <5> QED BY <1>6, <3>3, <4>2, <4>4, <4>5, <5>1, <5>2, SampleTrails DEF u
      <4>7. y - (q[j] + u) = b + o - q'[j] /\ v'[j] = u
        <5>1. q'[j] = q[j] + u /\ v'[j] = u
          BY <4>1
        <5>2. y - (q[j] + u) = b + o - (q[j] + u)
          <6>1. u \in Int
            <7>1. target[j] - q[j] \in Int /\ v[j] \in Int
              BY <3>3, <4>2
            <7>2. Wanted(target[j] - q[j]) \in Int
              BY <7>1, WantedType
            <7> QED BY <1>3, <7>1, <7>2 DEF NewSpeed, Clip
          <6> HIDE DEF u
          <6> QED BY <1>3, <1>5, <4>2, <6>1
        <5> QED BY <5>1, <5>2
      <4> QED BY <4>6, <4>7
    <3> QED BY <3>4, <3>5
  <2> QED BY <2>1, <2>2
<1>10. Behind(o)'
  <2>1. q' # None => \A j \in Joints : /\ Trails(Base' + o - q'[j], v'[j], Room(o)')
                                      /\ Trails(-(Base' + o - q'[j]), -v'[j], Room(o)')
    BY <1>6, <1>9, <1>b
  <2> QED BY <2>1 DEF Behind, Trails
<1> QED BY <1>7, <1>8, <1>10 DEF Tracks

\* The steps that leave the shaper alone.
LEMMA StillShaper ==
  ASSUME [Next]_vars, ~Connect, ~Connected, ~FeedSet, ~StopThreads, ~OutputEnds, ~Tick
  PROVE  UNCHANGED shaper
<1>1. CASE Misconfigured \/ JointsArrive \/ FramesArrive \/ ConnectFails \/ Interrupt \/ FeedRead
  BY <1>1 DEF Misconfigured, JointsArrive, FramesArrive, ConnectFails, Interrupt, FeedRead
<1>2. CASE RunPath \/ LegDone \/ NextLeg \/ LegStopped \/ Settled \/ HomingRaises
  BY <1>2 DEF RunPath, LegDone, NextLeg, LegStopped, Settled, HomingRaises
<1>3. CASE SendFirst \/ FirstRefused \/ ApproachDone \/ SendRead \/ SendSet
  BY <1>3 DEF SendFirst, FirstRefused, ApproachDone, SendRead, SendSet
<1>4. CASE Disconnect \/ Drained \/ Disconnected \/ Finished \/ UNCHANGED vars
  BY <1>4 DEF Disconnect, Drained, Disconnected, Finished, vars
<1> QED BY <1>1, <1>2, <1>3, <1>4 DEF Next, Control, Feeder

\* The steps that set the first segment.
LEMMA SegmentFirst ==
  ASSUME SegOK, [Next]_vars, ~Connect, seg = None, seg' # None
  PROVE  RunPath \/ SendFirst \/ SendSet
<1> SUFFICES ASSUME ~RunPath, ~SendFirst, ~SendSet PROVE UNCHANGED seg
  OBVIOUS
<1>1. CASE Misconfigured \/ JointsArrive \/ FramesArrive \/ ConnectFails \/ Connected \/ Interrupt
  BY <1>1 DEF Misconfigured, JointsArrive, FramesArrive, ConnectFails, Connected, Interrupt
<1>2. CASE LegDone \/ NextLeg \/ LegStopped \/ Settled \/ HomingRaises
  BY <1>2 DEF LegDone, NextLeg, LegStopped, Settled, HomingRaises, SegOK
<1>3. CASE FirstRefused \/ ApproachDone \/ SendRead
  BY <1>3 DEF FirstRefused, ApproachDone, SendRead
<1>4. CASE Disconnect \/ Drained \/ StopThreads \/ Disconnected
  BY <1>4 DEF Disconnect, Drained, StopThreads, Disconnected
<1>5. CASE FeedRead \/ FeedSet \/ OutputEnds \/ Finished \/ UNCHANGED vars
  BY <1>5 DEF FeedRead, FeedSet, OutputEnds, Finished, vars, follower
<1>6. CASE Tick
  BY <1>6 DEF Tick
<1> QED BY <1>1, <1>2, <1>3, <1>4, <1>5, <1>6 DEF Next, Control, Feeder

\* Only the first action can find the arm apart.
LEMMA ApartKept ==
  ASSUME [Next]_vars, ~SendFirst, ~Connect
  PROVE  apart' = apart
<1>1. CASE Misconfigured \/ JointsArrive \/ FramesArrive \/ ConnectFails \/ Connected
  BY <1>1 DEF Misconfigured, JointsArrive, FramesArrive, ConnectFails, Connected, history
<1>2. CASE RunPath \/ LegDone \/ NextLeg \/ LegStopped \/ Settled \/ HomingRaises \/ Interrupt
  BY <1>2 DEF RunPath, LegDone, NextLeg, LegStopped, Settled, HomingRaises, Interrupt, history
<1>3. CASE FirstRefused \/ ApproachDone \/ SendRead \/ SendSet
  BY <1>3 DEF FirstRefused, ApproachDone, SendRead, SendSet, history
<1>4. CASE Disconnect \/ Drained \/ StopThreads \/ Disconnected
  BY <1>4 DEF Disconnect, Drained, StopThreads, Disconnected, history
<1>5. CASE FeedRead \/ FeedSet \/ OutputEnds \/ Finished \/ UNCHANGED vars
  BY <1>5 DEF FeedRead, FeedSet, OutputEnds, Finished, vars, follower, history
<1>6. CASE Tick
  BY <1>6 DEF Tick, history
<1> QED BY <1>1, <1>2, <1>3, <1>4, <1>5, <1>6 DEF Next, Control, Feeder

\* The steps that move nothing of what follows the feed.
LEMMA FeedStill ==
  ASSUME [Next]_vars, ~Connect, ~Connected, ~SendFirst, ~Tick, ~FeedSet, ~FeedRead, ~FirstRefused
  PROVE  UNCHANGED <<target, q, v, feeder, point, since, first>>
<1> USE DEF shaper, feeding
<1>1. CASE Misconfigured \/ JointsArrive \/ FramesArrive \/ ConnectFails
  BY <1>1 DEF Misconfigured, JointsArrive, FramesArrive, ConnectFails
<1>2. CASE RunPath \/ LegDone \/ NextLeg \/ LegStopped \/ Settled \/ HomingRaises \/ Interrupt
  BY <1>2 DEF RunPath, LegDone, NextLeg, LegStopped, Settled, HomingRaises, Interrupt
<1>3. CASE ApproachDone \/ SendRead \/ SendSet
  BY <1>3 DEF ApproachDone, SendRead, SendSet
<1>4. CASE Disconnect \/ Drained \/ StopThreads \/ Disconnected
  BY <1>4 DEF Disconnect, Drained, StopThreads, StopShaper, Disconnected
<1>5. CASE OutputEnds \/ Finished \/ UNCHANGED vars
  BY <1>5 DEF OutputEnds, EndThread, Finished, vars, follower
<1> QED BY <1>1, <1>2, <1>3, <1>4, <1>5 DEF Next, Control, Feeder

\* What the feeder reads is of the feed as it is.
LEMMA FeedReadTracks ==
  ASSUME TypeOK, ShaperTypeOK, SegOK, PaceOK, ~fast, FeedRead, Base' = Base, seg # None,
         NEW o \in -Jump..Jump, Tracks(o)
  PROVE  Tracks(o)'
<1>1. UNCHANGED <<target, q, v, first, since>>
  BY DEF FeedRead, shaper
<1>2. feeder' = "have" => Near(point', Base, since)
  <2> SUFFICES ASSUME feeder' = "have" PROVE Near(point', Base, since)
    OBVIOUS
  <2>1. point' = SegNow
    BY DEF FeedRead, SegNow
  <2>2. /\ Speed \in Nat /\ SendMax \in Nat /\ since \in Nat /\ cur \in Int /\ SegNow \in Int
        /\ wait \in Nat
    <3>1. SegNow \in Poses /\ cur \in Poses /\ wait \in Nat /\ since \in 0..FeedMax
      BY SegNowType DEF TypeOK
    <3>2. Poses \subseteq Int /\ Speed \in Nat /\ SendMax \in Nat /\ FeedMax \in Nat
      BY FeedAssumption
    <3> QED BY <3>1, <3>2
  <2>3. CASE pc = "send"
    <3>1. wait <= SendMax /\ Dist(SegNow, cur) <= Speed * wait /\ Base = cur
      BY <2>3 DEF PaceOK, Base
    <3>2. Speed * wait <= Speed * (SendMax + since)
      BY <2>2, <3>1, ProductOrder
    <3>3. Speed * wait \in Int /\ Speed * (SendMax + since) \in Int /\ Dist(SegNow, cur) \in Int
      BY <2>2 DEF Dist
    <3>4. Dist(SegNow, cur) <= Speed * (SendMax + since)
      BY <3>1, <3>2, <3>3
    <3> QED BY <2>1, <3>1, <3>4 DEF Near
  <2>4. CASE pc # "send"
    <3>1. Base = SegNow
      BY <2>4 DEF Base
    <3>2. Speed * (SendMax + since) \in Nat
      BY <2>2
    <3>3. Dist(SegNow, SegNow) = 0
      BY <2>2 DEF Dist
    <3> QED BY <2>1, <3>1, <3>2, <3>3 DEF Near
  <2> QED BY <2>3, <2>4
<1>3. Aimed(o)'
  BY <1>1 DEF Tracks, Aimed, Near, Dist
<1>4. Carried(o)'
  BY <1>1, <1>2 DEF Carried, Near, Dist
<1>5. Behind(o)'
  <2>1. Room(o)' = Room(o)
    BY <1>1 DEF Room, Jump, Reach, Lagging, Dist
  <2> QED BY <1>1, <2>1 DEF Tracks, Behind, Trails
<1> QED BY <1>3, <1>4, <1>5 DEF Tracks

\* A refused first action frees the feed to jump, and moves nothing.
LEMMA FirstRefusedTracks ==
  ASSUME Follows, TypeOK, ShaperTypeOK, SegOK, FirstRefused, Base' = Base, Tracks(0)
  PROVE  Tracks(0)'
<1>1. /\ first = TRUE /\ first' = FALSE /\ UNCHANGED <<target, q, v, feeder, point, since>>
  BY DEF FirstRefused, TypeOK, shaper, feeding
<1>2. /\ Base \in Int /\ Slack \in Nat /\ Reach \in Int /\ AMax > 0
  BY BaseType, FeedAssumption, FollowsNumbers
<1>3. Jump = 0 /\ Room(0) = Reach /\ Room(0)' = Reach + Slack
  BY <1>1, <1>2 DEF Jump, Room, Reach, Lagging, Dist
<1>4. Aimed(0)'
  BY <1>1 DEF Tracks, Aimed, Near, Dist
<1>5. Carried(0)'
  BY <1>1 DEF Tracks, Carried, Near, Dist
<1>6. ASSUME q # None, NEW j \in Joints
      PROVE  /\ Trails(Base + 0 - q[j], v[j], Room(0)')
             /\ Trails(-(Base + 0 - q[j]), -v[j], Room(0)')
  <2>1. /\ Trails(Base + 0 - q[j], v[j], Room(0)) /\ Trails(-(Base + 0 - q[j]), -v[j], Room(0))
    BY <1>6 DEF Tracks, Behind
  <2>2. q[j] \in Int /\ v[j] \in Int /\ -v[j] \in Int
    <3>1. q[j] \in Int
      BY <1>6 DEF ShaperTypeOK, Vector
    <3>2. v[j] \in -VMax..VMax
      BY DEF ShaperTypeOK
    <3> QED BY <3>1, <3>2
  <2>3. /\ Base + 0 - q[j] \in Int /\ -(Base + 0 - q[j]) \in Int
        /\ Room(0) \in Int /\ Room(0)' \in Int /\ Room(0)' - Room(0) >= 0
    BY <1>2, <1>3, <2>2
  <2> QED BY <1>2, <2>1, <2>2, <2>3, TrailsShift
<1>7. Behind(0)'
  <2>1. q' # None => \A j \in Joints : /\ Trails(Base' + 0 - q'[j], v'[j], Room(0)')
                                      /\ Trails(-(Base' + 0 - q'[j]), -v'[j], Room(0)')
    BY <1>1, <1>6
  <2> QED BY <2>1 DEF Behind, Trails
<1> QED BY <1>4, <1>5, <1>7 DEF Tracks

\* While there is no segment nothing follows it.
LEMMA NothingTracks ==
  ASSUME target' = None, q' = None, feeder' # "have"
  PROVE  Tracks(0)'
BY DEF Tracks, Aimed, Carried, Behind

LEMMA JumpType == Jump \in Nat /\ Jump' \in Nat /\ 0 \in -Jump'..Jump'
<1>1. Slack \in Nat
  BY FeedAssumption
<1>2. Jump \in Nat /\ Jump' \in Nat
  BY <1>1 DEF Jump
<1>3. \A n \in Nat : 0 \in -n..n
  OBVIOUS
<1> QED BY <1>2, <1>3, Zenon

LEMMA TrackStep ==
  ASSUME Follows, TypeOK, ShaperTypeOK, SegOK, LinkOK, PaceOK, FlowOK, TrackOK, [Next]_vars
  PROVE  TrackOK'
<1> SUFFICES ASSUME thread' = "running", seg' # None, ~apart', ~fast'
             PROVE  \E k \in -Jump'..Jump' : Tracks(k)'
  BY DEF TrackOK
<1> USE DEF FlowOK
<1>1. CASE Connect
  <2>1. thread' = "new"
    BY <1>1 DEF Connect
  <2> QED BY <2>1
<1>2. CASE Connected
  <2>1. target' = None /\ q' = None /\ feeder' # "have"
    BY <1>2 DEF Connected, StartShaper
  <2> QED BY <2>1, NothingTracks, JumpType
<1>3. CASE ~Connect /\ ~Connected
  <2>1. thread = "running"
    <3>1. CASE UNCHANGED shaper
      BY <3>1 DEF shaper
    <3>2. CASE FeedSet
      BY <3>2 DEF FeedSet, SetTarget, shaper
    <3>3. CASE StopThreads
      BY <3>3 DEF StopThreads, StopShaper, shaper
    <3>4. CASE OutputEnds
      BY <3>4 DEF OutputEnds, EndThread
    <3>5. CASE Tick
      BY <3>5 DEF Tick, Iteration, FreshIteration, IdleIteration, shaper
    <3>6. CASE UNCHANGED vars
      BY <3>6 DEF vars, shaper
    <3> QED BY <1>3, <3>1, <3>2, <3>3, <3>4, <3>5, <3>6, StillShaper
  <2>2. CASE seg = None
    <3>1. target = None /\ q = None /\ feeder # "have"
      BY <2>2 DEF ShaperTypeOK
    <3>2. RunPath \/ SendFirst \/ SendSet
      BY <1>3, <2>2, SegmentFirst
    <3>3. target' = None /\ q' = None /\ feeder' # "have"
      BY <3>1, <3>2, SendFirstResult DEF RunPath, SendSet, shaper, feeding
    <3> QED BY <3>3, NothingTracks, JumpType
  <2>f. ~fast
    BY <1>3, FastKept
  <2>3. CASE seg # None
    <3>1. CASE SendFirst
      <4>1. first = TRUE /\ ~apart
        BY <3>1 DEF SendFirst, TypeOK
      <4>2. PICK o \in -Jump..Jump : Tracks(o)
        BY <2>1, <2>f, <2>3, <4>1 DEF TrackOK
      <4>3. o = 0
        BY <4>1, <4>2 DEF Jump
      <4> QED BY <2>3, <3>1, <4>2, <4>3, SendFirstTracks
    <3>2. CASE ~SendFirst
      <4>1. apart' = apart
        BY <1>3, <3>2, ApartKept
      <4>2. PICK o \in -Jump..Jump : Tracks(o)
        BY <2>1, <2>f, <2>3, <4>1 DEF TrackOK
      <4>3. CASE Tick
        <5>1. Tracks(o)' /\ Jump' = Jump
          BY <2>1, <2>f, <2>3, <4>2, <4>3, TickTracks DEF Tick, Jump
        <5> QED BY <4>2, <5>1
      <4>4. CASE ~Tick
        <5>1. Base' = Base
          BY <1>3, <2>3, <3>2, <4>4, BaseKept
        <5>2. CASE FeedSet
          BY <4>2, <5>1, <5>2, FeedSetTracks
        <5>3. CASE FeedRead
          <6>1. Tracks(o)' /\ Jump' = Jump
            BY <2>f, <2>3, <4>2, <5>1, <5>3, FeedReadTracks DEF FeedRead, Jump
          <6> QED BY <4>2, <6>1
        <5>4. CASE FirstRefused
          <6>1. o = 0
            BY <4>2, <5>4 DEF FirstRefused, Jump
          <6> QED BY <4>2, <5>1, <5>4, <6>1, FirstRefusedTracks, JumpType
        <5>5. CASE ~FeedSet /\ ~FeedRead /\ ~FirstRefused
          <6>1. UNCHANGED <<target, q, v, feeder, point, since, first>>
            BY <1>3, <3>2, <4>4, <5>5, FeedStill
          <6>2. Tracks(o)' /\ Jump' = Jump
            BY <4>2, <5>1, <6>1, TracksKept DEF Jump
          <6> QED BY <4>2, <6>2
        <5> QED BY <5>2, <5>3, <5>4, <5>5
      <4> QED BY <4>3, <4>4
    <3> QED BY <3>1, <3>2
  <2> QED BY <2>2, <2>3
<1> QED BY <1>1, <1>2, <1>3

-----------------------------------------------------------------------------
(* The output trails the feed: the theorem *)

TrackInv == PaceOK /\ FlowOK /\ TrackOK

LEMMA TrackInitially == Init => TrackInv
BY DEF Init, ShaperInit, TrackInv, PaceOK, FlowOK, TrackOK

\* What trails the feed within its room, with a target near the feed, is not lost.
LEMMA TrackNear ==
  ASSUME Follows, TypeOK, ShaperTypeOK, SegOK, FlowOK, TrackOK
  PROVE  NeverSnaps
<1> SUFFICES ASSUME thread = "running", q # None, target # None, ~apart, ~fast, NEW j \in Joints
             PROVE  ~(Dist(target[j], q[j]) > Snap)
  BY DEF NeverSnaps, Lost
<1>1. PICK o \in -Jump..Jump : Tracks(o)
  BY DEF FlowOK, TrackOK
<1>2. /\ Base \in Int /\ o \in Int /\ since \in 0..FeedMax /\ Jump <= Slack /\ Jump \in Nat
      /\ Dist(o, 0) \in Nat /\ target[j] \in Int /\ q[j] \in Int
  BY TracksTypes
<1>3. Base + o \in Int /\ Near(target[j], Base + o, FeedMax + since)
  BY <1>1, <1>2 DEF Tracks, Aimed
<1>4. Dist(target[j], Base + o) <= Lagging
  BY <1>2, <1>3, NearLagging
<1>5. Base + o - q[j] <= Room(o) /\ -(Base + o - q[j]) <= Room(o)
  BY <1>1 DEF Tracks, Behind, Trails
<1>6. /\ Lagging \in Nat /\ Reach \in Int /\ Snap \in Nat /\ Slack \in Nat
      /\ Snap = Lagging + Reach + Slack
  BY FollowsNumbers, FeedAssumption DEF Reach
<1>7. Room(o) \in Int /\ Room(o) <= Reach + Slack
  BY <1>2, <1>6 DEF Room
<1> QED BY <1>2, <1>3, <1>4, <1>5, <1>6, <1>7 DEF Dist

\* However the control thread changes the segment under the feeder, and however late the feeder
\* and send_action are within their bounds, the output keeps up with the feed, so that no sample
\* is published without limits: for every limit, gain, snap distance and speed of the feed that
\* Follows, any number of joints, connections, attempts and legs, as long as no action asks for
\* more than that speed and the first is not sent while the arm has stalled far from its target.
THEOREM OutputKeepsUp ==
  ASSUME Follows
  PROVE  Spec => []NeverSnaps
<1>1. Init => FeedInv /\ TrackInv
  BY FollowerInitially, TrackInitially
<1>2. FeedInv /\ TrackInv /\ [Next]_vars => FeedInv' /\ TrackInv'
  <2> SUFFICES ASSUME FeedInv, TrackInv, [Next]_vars PROVE FeedInv' /\ TrackInv'
    OBVIOUS
  <2>1. TypeOK /\ ShaperInv /\ ShaperTypeOK /\ LinkOK /\ SegOK /\ PaceOK /\ FlowOK /\ TrackOK
    BY DEF FeedInv, TrackInv, ShaperInv
  <2>2. FeedInv'
    BY TypeStep, FollowerShaperStep, LinkStep, SegStep, LastPointStep DEF FeedInv
  <2>3. PaceOK' /\ FlowOK' /\ TrackOK'
    BY <2>1, PaceStep, FlowStep, TrackStep
  <2> QED BY <2>2, <2>3 DEF TrackInv
<1>3. FeedInv /\ TrackInv => NeverSnaps
  BY TrackNear DEF FeedInv, TrackInv, ShaperInv
<1> QED BY <1>1, <1>2, <1>3, PTL DEF Spec
=============================================================================
