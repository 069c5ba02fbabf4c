------------------------ MODULE SafetyFilter_proofs ------------------------
(***************************************************************************)
(* Proofs about SafetyFilter, for any joints, reach, limits, horizon and   *)
(* collision geometry.  The inductive invariant adds to the types that an  *)
(* active filter is commanding its last safe command: that is what makes a *)
(* rejected reference harmless and the next accepted one a bounded step.   *)
(***************************************************************************)
EXTENDS SafetyFilter, TLAPS

Commanding == active => out = safe

IInv == TypeOK /\ Commanding

-----------------------------------------------------------------------------
(* What the checks see *)

\* The measured pose of the joints, and a reference with its NaN filled in, are commands.
LEMMA CommandsInReach ==
  ASSUME TypeOK
  PROVE  /\ Commanded(q) \in Command
         /\ Others(q) \in [Passive -> Reach]
         /\ Wanted \in Command
<1>1. Commanded(q) \in Command /\ Others(q) \in [Passive -> Reach]
  BY DEF TypeOK, Commanded, Others, Command, Joints
<1>2. Wanted \in Command
  <2>1. CASE Usable
    <3>1. ref \in References
      BY <2>1, FilterAssumption DEF TypeOK, Usable, None, References
    <3>2. \A j \in Active : (IF ref[j] = Hold THEN q[j] ELSE ref[j]) \in Reach
      BY <3>1 DEF References, TypeOK, Joints
    <3> QED
      BY <2>1, <3>2 DEF Wanted, Command
  <2>2. CASE ~Usable
    BY <2>2 DEF Wanted, TypeOK
  <2> QED
    BY <2>1, <2>2
<1> QED
  BY <1>1, <1>2

\* The first step of the horizon is the command itself, with the other joints measured.
LEMMA FirstStepIsCommand ==
  ASSUME TypeOK, NEW cmd \in Command
  PROVE  Ahead(q, cmd, 1) = At(cmd, Others(q))
<1>1. \A j \in Active : q[j] + 1 * (cmd[j] - q[j]) = cmd[j]
  <2> TAKE j \in Active
  <2>1. q[j] \in Int /\ cmd[j] \in Int
    BY FilterAssumption DEF TypeOK, Command, Joints
  <2>2. \A a, b \in Int : a + 1 * (b - a) = b
    OBVIOUS
  <2> QED
    BY <2>1, <2>2
<1>2. \A j \in Joints : j \notin Active => Others(q)[j] = q[j]
  BY DEF Others, Joints
<1> QED
  BY <1>1, <1>2 DEF Ahead, At

\* A command accepted by the horizon check does not collide with the other arm.
LEMMA AcceptedIsClear ==
  ASSUME TypeOK, Accepts
  PROVE  At(Wanted, Others(q)) \notin Colliding
<1>1. 1 \in 1..Horizon
  BY FilterAssumption
<1>2. Ahead(q, Wanted, 1) \notin Colliding
  BY <1>1 DEF Accepts, CheckHorizonCollisionFree
<1> QED
  BY <1>2, CommandsInReach, FirstStepIsCommand

-----------------------------------------------------------------------------
(* The invariant *)

LEMMA InitIInv == Init => IInv
<1> SUFFICES ASSUME Init PROVE IInv
  OBVIOUS
<1>1. Commanded(q) \in Command /\ Others(q) \in [Passive -> Reach]
  BY DEF Init, Commanded, Others, Command, Joints
<1> QED
  BY <1>1 DEF Init, IInv, TypeOK, Commanding

LEMMA NextIInv == IInv /\ [Next]_vars => IInv'
<1> SUFFICES ASSUME IInv, [Next]_vars PROVE IInv'
  OBVIOUS
<1>0. /\ TypeOK
      /\ Commanded(q) \in Command /\ Others(q) \in [Passive -> Reach]
      /\ Wanted \in Command
  BY CommandsInReach DEF IInv
<1>1. CASE Activate
  BY <1>0, <1>1 DEF Activate, IInv, TypeOK, Commanding
<1>2. CASE Deactivate
  BY <1>0, <1>2 DEF Deactivate, IInv, TypeOK, Commanding
<1>3. CASE Receive
  BY <1>0, <1>3 DEF Receive, IInv, TypeOK, Commanding
<1>4. CASE Update
  BY <1>0, <1>4 DEF Update, IInv, TypeOK, Commanding
<1>5. CASE Move
  <2>1. q' \in [Joints -> Reach]
    BY <1>0, <1>5 DEF Move, TypeOK
  <2> QED
    BY <1>0, <1>5, <2>1 DEF Move, IInv, TypeOK, Commanding
<1>6. CASE UNCHANGED vars
  BY <1>0, <1>6 DEF vars, IInv, TypeOK, Commanding, References, None
<1> QED
  BY <1>1, <1>2, <1>3, <1>4, <1>5, <1>6 DEF Next

\* The state of the filter is well typed, and it has a last safe command exactly while
\* it is active.
THEOREM TypeCorrect == Spec => []TypeOK
<1>1. IInv => TypeOK
  BY DEF IInv
<1> QED
  BY InitIInv, NextIInv, <1>1, PTL DEF Spec

-----------------------------------------------------------------------------
(* What a step may never do *)

Bounded ==
  active /\ active' =>
    \A j \in Active : out'[j] - out[j] <= MaxDelta /\ out[j] - out'[j] <= MaxDelta

LEMMA StepIsBounded == IInv /\ IInv' /\ [Next]_vars => Bounded
<1> SUFFICES ASSUME IInv, IInv', [Next]_vars, active, active',
                    NEW j \in Active
             PROVE  out'[j] - out[j] <= MaxDelta /\ out[j] - out'[j] <= MaxDelta
  BY DEF Bounded
<1>1. out[j] \in Int /\ MaxDelta \in Nat
  BY FilterAssumption DEF IInv, TypeOK, Command
<1>2. CASE out' = out
  BY <1>1, <1>2
<1>3. CASE Update /\ Accepts
  BY <1>3 DEF Update, Accepts, CheckDeltaLimits, IInv, Commanding
<1>4. CASE Update /\ ~Accepts
  BY <1>2, <1>4 DEF Update, IInv, TypeOK, Commanding
<1> QED
  BY <1>2, <1>3, <1>4 DEF Next, Activate, Deactivate, Receive, Move, vars

\* No command of an active filter is further than MaxDelta from the previous one.
THEOREM StepsBounded == Spec => StepBounded
<1>1. IInv /\ IInv' /\ [Next]_vars => [Bounded]_vars
  BY StepIsBounded
<1> QED
  BY InitIInv, NextIInv, <1>1, PTL DEF Spec, StepBounded, Bounded

Clear == active /\ active' /\ out' # out => At(out', cleared') \notin Colliding

LEMMA ChangeIsClear == IInv /\ [Next]_vars => Clear
<1> SUFFICES ASSUME IInv, [Next]_vars, active, active', out' # out
             PROVE  At(out', cleared') \notin Colliding
  BY DEF Clear
<1>1. Update /\ Accepts
  BY DEF Next, Activate, Deactivate, Receive, Move, Update, vars, IInv, TypeOK, Commanding
<1>2. out' = Wanted /\ cleared' = Others(q)
  BY <1>1 DEF Update
<1> QED
  BY <1>1, <1>2, AcceptedIsClear DEF IInv

\* A command the filter changes does not collide with the other arm as measured.
THEOREM CommandsClear == Spec => CommandCleared
<1>1. IInv /\ [Next]_vars => [Clear]_vars
  BY ChangeIsClear
<1> QED
  BY InitIInv, NextIInv, <1>1, PTL DEF Spec, CommandCleared, Clear
=============================================================================
