--------------------------- MODULE Gripper_proofs ---------------------------
(***************************************************************************)
(* Proofs about the gripper's path from a click to the fingers, for any    *)
(* widths, number of retries, clicks, refusals, lost goals and lost        *)
(* commands.  The invariant is proved in three parts: the bridge and the   *)
(* action server, the driver and the fingers, and the end of the driver's  *)
(* threads; each part has the steps of the other components in common.     *)
(***************************************************************************)
EXTENDS Gripper, TLAPS

USE GripperAssumption

Goals == {0, Open}

\* What is left of a bound is a number, and no more is refused than the bound allows.
LeftOK ==
  /\ left \in [clicks : Nat, homes : Nat, rejects : Nat, eaten : Nat, losses : Nat]
  /\ left.rejects + refused <= Rejects
  /\ left.losses <= Losses

\* The flags of the bridge's loop.
Flags ==
  /\ closed \in BOOLEAN /\ clickNow \in BOOLEAN /\ clickWas \in BOOLEAN
  /\ debounced \in BOOLEAN /\ retryDue \in BOOLEAN

\* The loop of the bridge and the goals on their way.
BridgeOK ==
  /\ sent \in {0, Open, NONE} /\ lastW \in Widths \cup {NONE}
  /\ goals \in Seq(Goals) /\ Len(goals) <= InFlight /\ refused \in Nat
  /\ goalWidth \in Goals
  /\ sent # NONE => IF goals # <<>> THEN sent = goals[Len(goals)]
                   ELSE sent = goalWidth \/ refused > 0 \/ ate

\* The driver and the fingers: a write thread that is about to act has read a goal.
DriverOK ==
  /\ width \in Widths /\ retries \in 0..MaxRetry /\ lastGoal \in {0, Open, NONE}
  /\ seen \in [goal : {0, Open, NONE}, meas : Widths]
  /\ writer = "busy" => seen.goal # NONE
  /\ pos \in Widths /\ drive \in [how : {"idle", "move", "grasp"}, to : Goals]
  /\ lastGoal # NONE => drive.to = lastGoal \/ left.losses < Losses

IInv == LeftOK /\ Flags /\ BridgeOK /\ DriverOK /\ NothingAfterClose

\* Goals are not NONE.
LEMMA GoalFacts == NONE \notin Goals /\ Goals \subseteq Widths /\ Goals \subseteq Int
  BY DEF Goals, Widths

\* A goal appended to those in flight is the last of them.
LEMMA AppendGoal ==
  ASSUME NEW s \in Seq(Goals), NEW w \in Goals
  PROVE  /\ Append(s, w) \in Seq(Goals) /\ Append(s, w) # <<>>
         /\ Len(Append(s, w)) = Len(s) + 1
         /\ Append(s, w)[Len(Append(s, w))] = w
  OBVIOUS

\* Serving the first goal leaves the last one, if there is another.
LEMMA ServeGoal ==
  ASSUME NEW s \in Seq(Goals), s # <<>>
  PROVE  /\ Head(s) \in Goals /\ Tail(s) \in Seq(Goals) /\ Len(Tail(s)) = Len(s) - 1
         /\ Tail(s) # <<>> => Tail(s)[Len(Tail(s))] = s[Len(s)]
         /\ Tail(s) = <<>> => s[Len(s)] = Head(s)
<1>1. Len(s) \in Nat \ {0} /\ Head(s) = s[1] /\ Tail(s) \in Seq(Goals) /\ Len(Tail(s)) = Len(s) - 1
      /\ \A i \in 1..Len(s) - 1 : Tail(s)[i] = s[i + 1]
  OBVIOUS
<1>2. Tail(s) = <<>> <=> Len(s) = 1
  BY <1>1
<1> QED
  BY <1>1, <1>2

\* Spending one of what is left.
LEMMA SpendLeaves ==
  ASSUME LeftOK, NEW what \in {"clicks", "homes", "rejects", "eaten", "losses"}, Spend(what)
  PROVE  /\ left' \in [clicks : Nat, homes : Nat, rejects : Nat, eaten : Nat, losses : Nat]
         /\ left'.rejects = IF what = "rejects" THEN left.rejects - 1 ELSE left.rejects
         /\ left'.losses = IF what = "losses" THEN left.losses - 1 ELSE left.losses
  BY DEF LeftOK, Spend

LEMMA Initially == Init => IInv
<1> SUFFICES ASSUME Init PROVE IInv
  OBVIOUS
<1>1. LeftOK
  BY DEF Init, LeftOK
<1>2. BridgeOK
  BY DEF Init, BridgeOK, Goals, Widths
<1>3. DriverOK
  BY DEF Init, DriverOK, Goals, Widths, Nothing
<1>4. NothingAfterClose
  BY DEF Init, NothingAfterClose
<1>5. Flags
  BY DEF Init, Flags
<1> QED
  BY <1>1, <1>2, <1>3, <1>4, <1>5 DEF IInv

-----------------------------------------------------------------------------
(* The bridge and the server *)

\* Every step keeps the flags.
LEMMA FlagsStep ==
  ASSUME Flags, [Next]_vars
  PROVE  Flags'
<1> USE DEF Flags
<1>1. CASE Button \/ Home \/ GripResponse \/ Debounced \/ RetryDue
  BY <1>1 DEF Button, Home, GripResponse, Debounced, RetryDue
<1>2. CASE GripTick
  BY <1>2 DEF GripTick, Toggle, Unfinished
<1>3. CASE UNCHANGED bridge
  BY <1>3 DEF bridge
<1>4. ServerUp \/ Serve \/ ReadThread \/ WriteRead \/ WriteAct \/ WriteTimer \/ Disconnect \/ Joined
        \/ Fingers \/ UNCHANGED vars => UNCHANGED bridge
  BY DEF ServerUp, Serve, ReadThread, WriteRead, WriteAct, WriteTimer, Disconnect, Joined, Fingers, vars
<1> QED
  BY <1>1, <1>2, <1>3, <1>4 DEF Next

\* A tick of the gripper loop: what it believes sent is the last goal it queued.
LEMMA TickStep ==
  ASSUME IInv, GripTick
  PROVE  BridgeOK'
<1>1. UNCHANGED <<refused, goalWidth, ate>>
  BY DEF GripTick
<1>2. Want \in Goals /\ Want # NONE
  BY GoalFacts DEF Want, Goals
<1>3. goals \in Seq(Goals) /\ Len(goals) < InFlight /\ width \in Widths
  BY DEF IInv, BridgeOK, DriverOK, GripTick
<1>4. CASE Want # sent /\ serverUp
  <2>1. goals' = Append(goals, Want) /\ sent' = Want /\ retryDue' = FALSE /\ lastW' = NONE
    BY <1>4 DEF GripTick, SendGrip
  <2>2. goals' \in Seq(Goals) /\ goals' # <<>> /\ goals'[Len(goals')] = Want
    BY <1>2, <1>3, <2>1, AppendGoal
  <2>3. Len(goals') <= InFlight
    BY <1>2, <1>3, <2>1, AppendGoal DEF IInv, BridgeOK
  <2>4. sent' \in {0, Open, NONE}
    BY <1>2, <2>1 DEF Goals
  <2> QED
    BY <1>1, <2>1, <2>2, <2>3, <2>4 DEF IInv, BridgeOK
<1>5. CASE Want # sent /\ ~serverUp
  <2>1. UNCHANGED <<goals, sent, retryDue, lastW>>
    BY <1>5 DEF GripTick, SendGrip
  <2> QED
    BY <1>1, <2>1 DEF IInv, BridgeOK
<1>6. CASE Want = sent
  <2>1. Unfinished /\ UNCHANGED sent
    BY <1>6 DEF GripTick
  <2>2. CASE goals' = Append(goals, Open) /\ ~closed'
    <3>1. sent = Open
      BY <1>6, <2>2 DEF Want
    <3>2. lastW' \in Widths \cup {NONE}
      BY <1>3, <2>1 DEF Unfinished, IInv, BridgeOK
    <3>3. Open \in Goals
      BY DEF Goals
    <3> QED
      BY <1>1, <1>3, <2>1, <2>2, <3>1, <3>2, <3>3, AppendGoal DEF IInv, BridgeOK
  <2>3. CASE UNCHANGED goals
    <3>1. lastW' \in Widths \cup {NONE}
      BY <1>3, <2>1 DEF Unfinished, IInv, BridgeOK
    <3> QED
      BY <1>1, <2>1, <2>3, <3>1 DEF IInv, BridgeOK
  <2> QED
    BY <2>1, <2>2, <2>3 DEF Unfinished, SendGrip
<1> QED
  BY <1>4, <1>5, <1>6

\* The server takes a goal up, refuses it or loses it.
LEMMA ServeStep ==
  ASSUME IInv, Serve
  PROVE  BridgeOK' /\ LeftOK'
<1>1. /\ goals \in Seq(Goals) /\ goals # <<>> /\ goals' = Tail(goals)
      /\ UNCHANGED <<sent, lastW>>
  BY DEF IInv, BridgeOK, Serve, bridge
<1>2. /\ Head(goals) \in Goals /\ goals' \in Seq(Goals) /\ Len(goals') = Len(goals) - 1
      /\ goals' # <<>> => goals'[Len(goals')] = goals[Len(goals)]
      /\ goals' = <<>> => goals[Len(goals)] = Head(goals)
  BY <1>1, ServeGoal
<1>3. Len(goals) \in Nat /\ Len(goals) <= InFlight /\ refused \in Nat
  BY <1>1 DEF IInv, BridgeOK
<1>4. CASE goalWidth' = Head(goals) /\ ate' = FALSE /\ UNCHANGED <<refused, left>>
  <2>1. LeftOK'
    BY <1>4 DEF IInv, LeftOK
  <2>2. sent # NONE => IF goals' # <<>> THEN sent = goals'[Len(goals')] ELSE sent = goalWidth'
    BY <1>1, <1>2, <1>4 DEF IInv, BridgeOK
  <2> QED
    BY <1>1, <1>2, <1>3, <1>4, <2>1, <2>2 DEF IInv, BridgeOK
<1>5. CASE Spend("rejects") /\ refused' = refused + 1 /\ UNCHANGED <<ate, goalWidth>>
  <2>1. LeftOK'
    <3>1. /\ left' \in [clicks : Nat, homes : Nat, rejects : Nat, eaten : Nat, losses : Nat]
          /\ left'.rejects = left.rejects - 1 /\ left'.losses = left.losses
      BY <1>5, SpendLeaves DEF IInv
    <3>2. left.rejects \in Nat /\ left.rejects + refused <= Rejects /\ left.losses <= Losses
      BY DEF IInv, LeftOK
    <3>3. left'.rejects + refused' <= Rejects
      <4>1. refused' = refused + 1 /\ refused \in Nat
        BY <1>3, <1>5
      <4> QED
        BY <3>1, <3>2, <4>1
    <3> QED
      BY <3>1, <3>2, <3>3 DEF LeftOK
  <2>2. sent' # NONE => IF goals' # <<>> THEN sent' = goals'[Len(goals')] ELSE refused' > 0
    BY <1>1, <1>2, <1>3, <1>5 DEF IInv, BridgeOK
  <2> QED
    BY <1>1, <1>2, <1>3, <1>5, <2>1, <2>2 DEF IInv, BridgeOK
<1>6. CASE Spend("eaten") /\ ate' = TRUE /\ UNCHANGED <<refused, goalWidth>>
  <2>1. LeftOK'
    BY <1>3, <1>6, SpendLeaves DEF IInv, LeftOK
  <2> QED
    BY <1>1, <1>2, <1>3, <1>6, <2>1 DEF IInv, BridgeOK
<1> QED
  BY <1>4, <1>5, <1>6 DEF Serve

\* The other steps outside the driver.
LEMMA BridgeStep ==
  ASSUME IInv, Button \/ Home \/ GripResponse \/ Debounced \/ RetryDue \/ ServerUp
  PROVE  BridgeOK' /\ LeftOK'
<1> USE DEF IInv, BridgeOK
<1>1. CASE Button
  <2>1. LeftOK'
    BY <1>1, SpendLeaves DEF Button, server, LeftOK
  <2> QED
    BY <1>1, <2>1 DEF Button, server
<1>2. CASE Home
  <2>1. LeftOK'
    BY <1>2, SpendLeaves DEF Home, server, LeftOK
  <2> QED
    BY <1>2, <2>1 DEF Home, server
<1>3. CASE GripResponse
  <2>1. /\ refused > 0 /\ refused' = refused - 1 /\ sent' = NONE
        /\ UNCHANGED <<lastW, goals, goalWidth, ate, left>>
    BY <1>3 DEF GripResponse
  <2>2. refused' \in Nat /\ refused' <= refused
    BY <2>1
  <2>3. LeftOK'
    <3>1. left.rejects \in Nat /\ left.rejects + refused <= Rejects
      BY DEF LeftOK
    <3>2. left'.rejects + refused' <= Rejects
      BY <2>1, <3>1
    <3> QED
      BY <2>1, <3>2 DEF LeftOK
  <2> QED
    BY <2>1, <2>2, <2>3
<1>4. CASE Debounced \/ RetryDue \/ ServerUp
  <2>1. UNCHANGED <<sent, lastW, goals, refused, goalWidth, ate, left>>
    BY <1>4 DEF Debounced, RetryDue, ServerUp, server, bridge
  <2> QED
    BY <2>1 DEF LeftOK
<1> QED
  BY <1>1, <1>2, <1>3, <1>4

-----------------------------------------------------------------------------
(* The driver *)

\* The write thread acts on what it has read: the fingers follow, or a command is lost.
LEMMA WriteStep ==
  ASSUME IInv, WriteAct
  PROVE  DriverOK' /\ LeftOK'
<1> USE DEF IInv
<1>1. /\ seen.goal \in Goals /\ seen.goal # NONE /\ seen.meas \in Widths
      /\ seen' = Nothing /\ writer' = "loop" /\ UNCHANGED <<width, refused>>
  BY DEF DriverOK, WriteAct, Goals, server
<1>2. Nothing \in [goal : {0, Open, NONE}, meas : Widths]
  BY DEF Nothing, Widths
<1>3. ASSUME NEW how \in {"move", "grasp"}, Command(how)
      PROVE  /\ LeftOK' /\ pos' \in Widths /\ drive' \in [how : {"idle", "move", "grasp"}, to : Goals]
             /\ drive'.to = seen.goal \/ left'.losses < Losses
  <2>1. CASE drive' = [how |-> how, to |-> seen.goal] /\ UNCHANGED <<pos, left>>
    BY <1>1, <2>1 DEF DriverOK, LeftOK
  <2>2. CASE Spend("losses") /\ UNCHANGED fingers
    <3>1. left.losses > 0 /\ left.losses \in Nat
      BY <2>2 DEF Spend, LeftOK
    <3> QED
      BY <1>1, <2>2, <3>1, SpendLeaves DEF DriverOK, LeftOK, fingers
  <2> QED
    BY <1>3, <2>1, <2>2 DEF Command
<1>4. CASE Changed
  <2>1. /\ Command(IF seen.goal >= seen.meas THEN "move" ELSE "grasp")
        /\ lastGoal' = seen.goal /\ retries' = 0
    BY <1>4 DEF WriteAct
  <2>2. /\ LeftOK' /\ pos' \in Widths /\ drive' \in [how : {"idle", "move", "grasp"}, to : Goals]
        /\ drive'.to = seen.goal \/ left'.losses < Losses
    BY <1>3, <2>1
  <2> QED
    BY <1>1, <1>2, <2>1, <2>2 DEF DriverOK, Goals
<1>5. CASE ~Changed /\ Stalled
  <2>1. Command("move") /\ retries' = retries + 1 /\ UNCHANGED lastGoal
    BY <1>5 DEF WriteAct
  <2>2. /\ LeftOK' /\ pos' \in Widths /\ drive' \in [how : {"idle", "move", "grasp"}, to : Goals]
        /\ drive'.to = seen.goal \/ left'.losses < Losses
    BY <1>3, <2>1
  <2>3. lastGoal = seen.goal /\ retries < MaxRetry
    BY <1>5 DEF Changed, Stalled
  <2> QED
    BY <1>1, <1>2, <2>1, <2>2, <2>3 DEF DriverOK, Goals
<1>6. CASE ~Changed /\ ~Stalled
  <2>1. UNCHANGED <<lastGoal, retries, fingers, left>>
    BY <1>6 DEF WriteAct
  <2> QED
    BY <1>1, <1>2, <2>1 DEF DriverOK, LeftOK, fingers
<1> QED
  BY <1>4, <1>5, <1>6

\* The other steps of the driver and the fingers.
LEMMA DriverStep ==
  ASSUME IInv, ReadThread \/ WriteRead \/ WriteTimer \/ Disconnect \/ Joined \/ Fingers
  PROVE  DriverOK'
<1> USE DEF IInv
<1>1. CASE ReadThread \/ WriteTimer \/ Disconnect \/ Joined
  BY <1>1 DEF ReadThread, WriteTimer, Disconnect, Joined, DriverOK, fingers
<1>2. CASE WriteRead
  <2>1. goalWidth \in Goals /\ goalWidth # NONE
    BY GoalFacts DEF BridgeOK
  <2> QED
    BY <1>2, <2>1 DEF WriteRead, DriverOK, fingers, Goals
<1>3. CASE Fingers
  <2>1. pos' \in Widths
    BY <1>3 DEF Fingers, DriverOK, Widths, Goals
  <2>2. drive' \in [how : {"idle", "move", "grasp"}, to : Goals] /\ drive'.to = drive.to
    BY <1>3 DEF Fingers, DriverOK
  <2> QED
    BY <1>3, <2>1, <2>2 DEF Fingers, DriverOK, driver
<1> QED
  BY <1>1, <1>2, <1>3

-----------------------------------------------------------------------------
(* The theorem *)

\* Every step keeps the invariant.
LEMMA InvStep ==
  ASSUME IInv, [Next]_vars
  PROVE  IInv'
<1> USE DEF IInv
<1>0. Flags'
  BY FlagsStep
<1>1. CASE Button \/ Home \/ GripResponse \/ Debounced \/ RetryDue \/ ServerUp
  <2>1. BridgeOK' /\ LeftOK'
    BY <1>1, BridgeStep
  <2>2. UNCHANGED <<driver, fingers>> /\ (left'.losses = left.losses)
    BY <1>1, SpendLeaves DEF Button, Home, GripResponse, Debounced, RetryDue, ServerUp
  <2> QED
    BY <1>0, <2>1, <2>2 DEF driver, fingers, DriverOK, NothingAfterClose
<1>2. CASE GripTick
  <2>1. BridgeOK'
    BY <1>2, TickStep
  <2> QED
    BY <1>0, <1>2, <2>1 DEF GripTick, driver, fingers, DriverOK, LeftOK, NothingAfterClose
<1>3. CASE Serve
  <2>1. BridgeOK' /\ LeftOK'
    BY <1>3, ServeStep
  <2>2. UNCHANGED <<driver, fingers>> /\ (left'.losses = left.losses)
    BY <1>3, SpendLeaves DEF Serve
  <2> QED
    BY <1>0, <2>1, <2>2 DEF driver, fingers, DriverOK, NothingAfterClose
<1>4. CASE WriteAct
  <2>1. DriverOK' /\ LeftOK'
    BY <1>4, WriteStep
  <2> QED
    BY <1>0, <1>4, <2>1 DEF WriteAct, bridge, server, BridgeOK, NothingAfterClose
<1>5. CASE ReadThread \/ WriteRead \/ WriteTimer \/ Disconnect \/ Joined \/ Fingers
  <2>1. DriverOK'
    BY <1>5, DriverStep
  <2>2. BridgeOK' /\ LeftOK'
    <3>1. UNCHANGED <<bridge, server, left>>
      BY <1>5 DEF ReadThread, WriteRead, WriteTimer, Disconnect, Joined, Fingers
    <3> QED
      BY <3>1 DEF bridge, server, BridgeOK, LeftOK
  <2>3. NothingAfterClose'
    BY <1>5 DEF ReadThread, WriteRead, WriteTimer, Disconnect, Joined, Fingers, driver,
                NothingAfterClose
  <2> QED
    BY <1>0, <2>1, <2>2, <2>3
<1>6. CASE UNCHANGED vars
  BY <1>0, <1>6 DEF vars, bridge, server, driver, fingers, LeftOK, BridgeOK, DriverOK, NothingAfterClose
<1> QED
  BY <1>1, <1>2, <1>3, <1>4, <1>5, <1>6 DEF Next

\* The gripper's invariant (Inv), for any number of clicks, refusals and losses: what the bridge
\* believes to have sent is still on its way or arrived, unless a refusal is to be heard or the
\* server lost it; the fingers are driven to the last goal acted on unless a command was lost;
\* and nothing is sent on a closed socket.
THEOREM GoalsTracked == Spec => []Inv
<1>1. Init => IInv
  BY Initially
<1>2. IInv /\ [Next]_vars => IInv'
  BY InvStep
<1>3. IInv => Inv
  <2> SUFFICES ASSUME IInv PROVE Inv
    OBVIOUS
  <2>1. refused \in 0..Rejects
    BY DEF IInv, LeftOK, BridgeOK
  <2>2. TypeOK
    BY <2>1 DEF IInv, Flags, BridgeOK, DriverOK, TypeOK, Goals
  <2>3. OnTrack
    BY DEF IInv, BridgeOK, DriverOK, OnTrack
  <2> QED
    BY <2>2, <2>3 DEF IInv, Inv
<1> QED
  BY <1>1, <1>2, <1>3, PTL DEF Spec
=============================================================================
