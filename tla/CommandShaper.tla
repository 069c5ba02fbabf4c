--------------------------- MODULE CommandShaper ---------------------------
(***************************************************************************)
(* The output thread that turns joint targets into the command stream      *)
(* (class CommandShaper of teleop_mantis.py, used by the bridge and by the *)
(* LeRobot follower).  One iteration of its loop is one unit of time;      *)
(* positions and velocities are integers per unit.  Telemetry (stats()) is *)
(* left out, and so are vectors that change their length.                  *)
(***************************************************************************)
EXTENDS Integers

CONSTANTS
  Joints,   \* the commanded joints
  None,     \* no vector yet
  VMax,     \* v_max * dt
  AMax,     \* a_max * dt * dt
  Tau,      \* 1 / (kp * dt), the iterations an error takes to be pulled in
  FfTau,    \* ff_tau / dt, 0 for no smoothing
  Snap,     \* resync_snap
  Stale,    \* OUT_STALE in iterations
  MaxErrors \* failed publishes the thread survives (50)

ASSUME ShaperAssumption ==
  /\ VMax \in Nat /\ AMax \in Nat /\ Tau \in Nat \ {0} /\ FfTau \in Nat
  /\ Snap \in Nat /\ Stale \in Nat \ {0} /\ MaxErrors \in Nat
  /\ None \notin [Joints -> Int]

VARIABLES
  target,    \* _target
  ff,        \* _v_ff
  age,       \* iterations since set_target, at most Stale
  q, v, ffF, \* _q, _v, _ff_f
  published, \* the last message on the command topic
  idle,      \* history: iterations since the last sample was computed, at most Stale
  errors,    \* _pub_errors
  stopping,  \* _stop
  thread     \* "new", "running" or "ended"

shaper == <<target, ff, age, q, v, ffF, published, idle, errors, stopping, thread>>

Vector == [Joints -> Int]
Zero == [j \in Joints |-> 0]

-----------------------------------------------------------------------------
(* Arithmetic *)

Dist(a, b) == IF a < b THEN b - a ELSE a - b
Clip(x, lo, hi) == IF x < lo THEN lo ELSE IF x > hi THEN hi ELSE x
AtMost(n, cap) == IF n < cap THEN n ELSE cap
CeilDiv(n, d) == (n + d - 1) \div d

\* kp * err, away from zero to the next integer.
Pull(err) == IF err < 0 THEN -CeilDiv(-err, Tau) ELSE CeilDiv(err, Tau)

\* The speed from which AMax can still brake within err: floor(sqrt(2 * AMax * |err|)).
Brake(err) ==
  LET e == 2 * AMax * Dist(err, 0)
  IN  CHOOSE k \in 0..e : k * k <= e /\ (k + 1) * (k + 1) > e

Smoothed(f, w) == IF FfTau = 0 THEN w ELSE f + ((w - f) \div FfTau)

\* Some joint is further from its target than the shaper may lag.
Lost(from, tgt) == \E j \in Joints : Dist(tgt[j], from[j]) > Snap

FeedForward == [j \in Joints |-> IF ff = None THEN 0 ELSE Smoothed(ffF[j], ff[j])]

Desired(tgt, f) ==
  [j \in Joints |->
     LET err == tgt[j] - q[j]
     IN  Clip(f[j] + Clip(Pull(err), -Brake(err), Brake(err)), -VMax, VMax)]

\* Seeded fault: the acceleration limit is forgotten.
LimitedNot(des) == des

Limited(des) == [j \in Joints |-> v[j] + Clip(des[j] - v[j], -AMax, AMax)]

-----------------------------------------------------------------------------
(* Operations *)

ShaperInit ==
  /\ target = None /\ ff = None /\ age = 0
  /\ q = None /\ v = Zero /\ ffF = Zero
  /\ published = None /\ idle = 0 /\ errors = 0
  /\ stopping = FALSE /\ thread = "new"

StartShaper ==
  /\ thread = "new"
  /\ thread' = "running"
  /\ UNCHANGED <<target, ff, age, q, v, ffF, published, idle, errors, stopping>>

\* set_target, under the lock; vff = None marks a discontinuity.
SetTarget(vec, vff) ==
  /\ target' = vec /\ ff' = vff /\ age' = 0
  /\ UNCHANGED <<q, v, ffF, published, idle, errors, stopping, thread>>

\* stop(): the flag; the join waits for the thread for a second at most.
StopShaper ==
  /\ stopping' = TRUE
  /\ UNCHANGED <<target, ff, age, q, v, ffF, published, idle, errors, thread>>

\* One sample. The first one, and one after a snap, is the target itself.
Sample ==
  IF q = None \/ Lost(q, target)
  THEN q' = target /\ v' = Zero /\ ffF' = Zero
  ELSE LET speed == Limited(Desired(target, FeedForward))
       IN  /\ ffF' = FeedForward
           /\ v' = speed
           /\ q' = [j \in Joints |-> q[j] + speed[j]]

\* The message goes out or publish() raises; the error that is one too many ends the thread,
\* and so does any error while stopping.
Publish ==
  \/ published' = q' /\ UNCHANGED <<errors, thread>>
  \/ /\ UNCHANGED published
     /\ IF stopping
        THEN UNCHANGED errors /\ thread' = "ended"
        ELSE /\ errors' = errors + 1
             /\ thread' = IF errors >= MaxErrors THEN "ended" ELSE thread

\* An iteration that finds a fresh target.
FreshIteration ==
  /\ thread = "running" /\ ~stopping
  /\ target # None /\ age < Stale
  /\ Sample /\ Publish
  /\ age' = age + 1 /\ idle' = 0
  /\ UNCHANGED <<target, ff, stopping>>

\* An iteration that finds no target, or a stale one: it stops integrating.
IdleIteration ==
  /\ thread = "running" /\ ~stopping
  /\ target = None \/ age >= Stale
  /\ IF target = None THEN UNCHANGED <<v, ffF>> ELSE v' = Zero /\ ffF' = Zero
  /\ age' = AtMost(age + 1, Stale) /\ idle' = AtMost(idle + 1, Stale)
  /\ UNCHANGED <<target, ff, q, published, errors, stopping, thread>>

Iteration == FreshIteration \/ IdleIteration

EndThread ==
  /\ thread = "running" /\ stopping
  /\ thread' = "ended"
  /\ UNCHANGED <<target, ff, age, q, v, ffF, published, idle, errors, stopping>>

-----------------------------------------------------------------------------
(* The shaper by itself, fed with arbitrary vectors *)

ShaperNext ==
  \/ StartShaper
  \/ \E vec \in Vector : \E vff \in Vector \cup {None} : SetTarget(vec, vff)
  \/ StopShaper
  \/ Iteration
  \/ EndThread

ShaperSpec == ShaperInit /\ [][ShaperNext]_shaper

-----------------------------------------------------------------------------
(* Properties *)

\* Type correctness; the output never moves faster than VMax, and there is no output
\* before there was a target.
ShaperTypeOK ==
  /\ target \in Vector \cup {None} /\ ff \in Vector \cup {None}
  /\ age \in 0..Stale /\ idle \in 0..Stale
  /\ q \in Vector \cup {None} /\ published \in Vector \cup {None}
  /\ v \in [Joints -> -VMax..VMax] /\ ffF \in Vector
  /\ errors \in 0..MaxErrors + 1
  /\ stopping \in BOOLEAN /\ thread \in {"new", "running", "ended"}
  /\ q # None => target # None
  /\ published # None => q # None

\* Consecutive samples are within the velocity limit, and their difference changes within
\* the acceleration limit, unless the output had fallen behind its target by more than
\* Snap; after a pause the output starts again from rest.  (A new shaper has no sample yet.)
LimitsHold ==
  [][(q # None /\ q' \notin {q, None} /\ ~Lost(q, target))
       => \A j \in Joints :
            LET step == q'[j] - q[j]
            IN  /\ Dist(step, 0) <= VMax
                /\ Dist(step, IF idle > 0 THEN 0 ELSE v[j]) <= AMax]_shaper
=============================================================================
