--------------------------- MODULE FollowerHoming ---------------------------
(***************************************************************************)
(* The homing loop of the LeRobot plugin (_go_home of mantis_follower.py)  *)
(* over its route search, which is a copy of home_planner.py: plan, run    *)
(* the route under the measured-pose gate, settle, look at the arm, plan   *)
(* again.  Times are abstracted to whether the total time is up.           *)
(***************************************************************************)
EXTENDS HomePlanner

CONSTANTS
  Attempts,   \* home_max_attempts
  GateScale,  \* MEAS_GATE_FRAC
  Done,       \* HOME_DONE_TOL and approach_tol
  Settle,     \* home_settle_tol
  UsePlanner, \* home_planner
  Lead,       \* MAX_JOINT_LEAD
  Scenes      \* bound: the clearance maps, each with the pose and the command homing begins with

ASSUME HomingAssumption ==
  /\ Attempts \in Nat \ {0} /\ GateScale \in Nat /\ Done \in Nat /\ Settle \in Nat
  /\ UsePlanner \in BOOLEAN /\ Lead \in Nat
  /\ \A s \in Scenes :
       /\ s.clear \in [Configs -> Int] /\ s.meas \in Configs
       /\ s.cmd \in Configs \cup {NoRoute}

VARIABLES
  at,        \* where _go_home is
  connected, \* _connected
  meas,      \* the measured pose
  cmd,       \* _seg_now between runs: the last command, NoRoute before the first segment
  attempt,
  minScale,  \* index of the strictest scale still searched
  prevGap,   \* gap at the start of the attempt before
  frozen,    \* attempts in which nothing moved
  late,      \* t_end has passed
  status,    \* what _run_path returned
  gate,      \* gate_min and gate_scale of the route
  from       \* history: the pose in which homing began, or the last one off a checked route

loop == <<at, connected, meas, cmd, attempt, minScale, prevGap, frozen, late, status, gate, from>>
vars == <<clear, planner, loop>>

HomeGap == Gap(meas, Home)
Cap(n) == IF n < Len(Scales) - 1 THEN n ELSE Len(Scales) - 1

-----------------------------------------------------------------------------
(* The follower's copy of the search *)

\* Every other joint stays at its latched pose.
PlanMargin(q, s) == Margin(q, s)
PlanSamples(a, b) == Samples(a, b)
\* No sample of the segment is below the floors.
PlanEdge(a, b, s) == \A c \in PlanSamples(a, b) : PlanMargin(c, s) >= 0

PlanDirect == Direct
PlanStaged == Staged
PlanGreedy == Greedy
PlanDetour == Detour
PlanGrow == Grow
PlanConnect == Connect
PlanRrtEnds == RrtEnds
PlanShortcut == Shortcut

\* _plan_home with home_planner off: the straight segment at the full floors, or nothing.
PlanStraight ==
  /\ plan' = "done" /\ q0' = meas /\ scale' = Scales[1] /\ floor' = 0
  /\ answer' = IF PlanEdge(meas, Home, Scales[1])
               THEN [path |-> <<Home>>, scale |-> Scales[1], how |-> "direct", complete |-> TRUE,
                     gain |-> HomeGap]
               ELSE NoRoute
  /\ expired' = FALSE
  /\ UNCHANGED <<left, pts, trees, turn, tip, limb, best>>

\* The steps of the search; how often the trees grow is open, the clock ends it.
PlanGoesOn ==
  \/ NextScale \/ GiveUp \/ Break
  \/ PlanDirect \/ PlanStaged \/ PlanGreedy \/ PlanDetour
  \/ PlanConnect \/ PlanRrtEnds \/ PlanShortcut \/ Smoothed
PlanSteps == PlanGoesOn \/ PlanGrow

-----------------------------------------------------------------------------
(* The loop *)

\* _go_home: nothing to do, or the first attempt.
GoHome ==
  /\ at = "start"
  /\ IF HomeGap <= Done THEN at' = "home" ELSE at' = "attempt"
  /\ attempt' = 1
  /\ UNCHANGED <<clear, planner, connected, meas, cmd, minScale, prevGap, frozen, late, status,
                 gate, from>>

\* Seeded fault: an attempt that failed is not counted.
AgainForEver == at' = "attempt" /\ UNCHANGED attempt

\* The next attempt, or the end of them.
Again ==
  IF attempt < Attempts
  THEN at' = "attempt" /\ attempt' = attempt + 1
  ELSE at' = "exhausted" /\ UNCHANGED attempt

\* An attempt that bought nothing drops a floor tier before it searches again.
Relaxed == IF prevGap # NoRoute /\ HomeGap >= prevGap THEN Cap(minScale + 1) ELSE minScale

Attempt ==
  /\ at = "attempt"
  /\ IF ~connected \/ HomeGap <= Done \/ late
     THEN /\ at' = IF ~connected THEN "gone" ELSE IF HomeGap <= Done THEN "home" ELSE "exhausted"
          /\ UNCHANGED <<planner, minScale, prevGap>>
     ELSE /\ at' = "planning"
          /\ minScale' = Relaxed /\ prevGap' = HomeGap
          /\ IF UsePlanner THEN StartPlan(meas, minScale') ELSE PlanStraight
  /\ UNCHANGED <<clear, connected, meas, cmd, attempt, frozen, late, status, gate, from>>

\* No route: relax the floors and try again.
NoPath ==
  /\ at = "planning" /\ plan = "done" /\ answer = NoRoute
  /\ minScale' = Cap(minScale + 1)
  /\ Again
  /\ UNCHANGED <<clear, planner, connected, meas, cmd, prevGap, frozen, late, status, gate,
                 from>>

\* Seeded fault: the gate is armed at its own fraction of the floors, whatever the plan was
\* allowed.
GateFixed == [scale |-> GateScale, min |-> 0]

\* The gate is never armed above the clearance that the plan was allowed.
Gate ==
  [scale |-> IF answer.scale < GateScale THEN answer.scale ELSE GateScale,
   min |-> Least({PlanMargin(meas, answer.scale), 0})]

Run ==
  /\ at = "planning" /\ plan = "done" /\ answer # NoRoute
  /\ gate' = Gate
  /\ at' = "running"
  /\ UNCHANGED <<clear, planner, connected, meas, cmd, attempt, minScale, prevGap, frozen, late,
                 status, from>>

Route == <<q0>> \o answer.path

\* The way onto the route, which no search has checked: the arm goes to the last command, which
\* starts towards the route's first waypoint, or is walked back to the arm if it is too far off.
LeadIn ==
  IF cmd = NoRoute THEN {}
  ELSE Samples(q0, cmd) \cup Samples(cmd, IF Gap(cmd, q0) > Lead THEN q0 ELSE Head(answer.path))

\* The arm has followed the command to some point of its way.
Follow ==
  /\ meas' \in RouteSamples(Route) \cup LeadIn
  /\ from' = IF meas' \in RouteSamples(Route) THEN from ELSE meas'

\* The route is run to the end; the arm has followed it, as far as it went.
RouteDone ==
  /\ at = "running" /\ status' = "done" /\ at' = "settle"
  /\ Follow /\ cmd' = Last(answer.path)
  /\ UNCHANGED <<clear, planner, connected, attempt, minScale, prevGap, frozen, late, gate>>

\* t_end passes, or the connection goes, and the target is frozen. Homing ends.
RouteStopped ==
  /\ at = "running" /\ at' = "settle"
  /\ \/ status' = "timeout" /\ late' = TRUE /\ UNCHANGED connected
     \/ status' = "disconnected" /\ connected' = FALSE /\ UNCHANGED late
  /\ Follow
  /\ UNCHANGED <<clear, planner, cmd, attempt, minScale, prevGap, frozen, gate>>

\* The arm leaves the route (a tracking failure, a person) and the gate sees it. The target is
\* frozen where the interpolation is.
RouteGated ==
  /\ at = "running" /\ status' = "gate" /\ at' = "settle"
  /\ \E c \in Configs : Margin(c, gate.scale) < gate.min /\ meas' = c /\ from' = c
  /\ cmd' \in RouteSamples(Route) \cup LeadIn
  /\ UNCHANGED <<clear, planner, connected, attempt, minScale, prevGap, frozen, late, gate>>

\* _settle, and what the loop makes of the attempt.
Settled ==
  /\ at = "settle"
  /\ IF connected /\ HomeGap <= Done
     THEN at' = "home" /\ UNCHANGED <<attempt, frozen>>
     ELSE IF answer.complete /\ status = "done" /\ HomeGap <= Settle
     THEN at' = "near" /\ UNCHANGED <<attempt, frozen>>
     ELSE IF meas = q0
     THEN /\ frozen' = frozen + 1
          /\ IF frozen + 1 >= 2 THEN at' = "dead" /\ UNCHANGED attempt ELSE Again
     ELSE Again /\ UNCHANGED frozen
  /\ UNCHANGED <<clear, planner, connected, meas, cmd, minScale, prevGap, late, status, gate,
                 from>>

\* The total time passes between or within attempts.
TimeUp ==
  /\ at \in {"attempt", "planning"} /\ ~late
  /\ late' = TRUE
  /\ UNCHANGED <<clear, planner, at, connected, meas, cmd, attempt, minScale, prevGap, frozen,
                 status, gate, from>>

-----------------------------------------------------------------------------

Init ==
  /\ PlannerInit
  /\ at = "start" /\ connected = TRUE
  /\ \E s \in Scenes : clear = s.clear /\ meas = s.meas /\ cmd = s.cmd
  /\ from = meas
  /\ attempt = 0 /\ minScale = 0 /\ prevGap = NoRoute /\ frozen = 0 /\ late = FALSE
  /\ status = "none" /\ gate = [scale |-> 0, min |-> 0]

Ended == {"home", "near", "gone", "dead", "exhausted"}

Finished == at \in Ended /\ UNCHANGED vars

Planning == PlanSteps /\ UNCHANGED <<clear, loop>>
PlanDeadline == Deadline /\ UNCHANGED <<clear, loop>>
RouteEnds == RouteDone \/ RouteStopped \/ RouteGated
LoopSteps == GoHome \/ Attempt \/ NoPath \/ Run \/ RouteEnds \/ Settled

Next == Planning \/ PlanDeadline \/ LoopSteps \/ TimeUp \/ Finished

\* A step of the control thread between runs, but for a growing tree.
LoopGoesOn == GoHome \/ Attempt \/ NoPath \/ Run \/ Settled
GoesOn == LoopGoesOn \/ (PlanGoesOn /\ UNCHANGED <<clear, loop>>)

\* A run ends, by one of RouteEnds.
RunOver == at = "running" /\ at' = "settle"

\* The control thread keeps going and the clock of a search runs out.
Spec ==
  Init /\ [][Next]_vars /\ WF_vars(GoesOn) /\ WF_at(RunOver) /\ WF_vars(PlanDeadline)

-----------------------------------------------------------------------------
(* Properties *)

\* Type correctness of the loop; the floors searched and the attempts stay in their ranges.
TypeOK ==
  /\ at \in Ended \cup {"start", "attempt", "planning", "running", "settle"}
  /\ connected \in BOOLEAN /\ late \in BOOLEAN
  /\ meas \in Configs /\ from \in Configs /\ cmd \in Configs \cup {NoRoute}
  /\ attempt \in 0..Attempts /\ minScale \in 0..Len(Scales) - 1 /\ frozen \in 0..2
  /\ prevGap \in {Gap(c, Home) : c \in Configs} \cup {NoRoute}
  /\ status \in {"none", "done", "timeout", "disconnected", "gate"}

\* The gate that is armed for a route does not stop an arm that is on that route, however much
\* the route's floors were relaxed.
GateLetsRouteRun ==
  at = "running" => \A c \in RouteSamples(Route) : Margin(c, gate.scale) >= gate.min

\* Over all attempts, partial routes and relaxed floors, the routes of homing never take the arm
\* into contact, nor deeper into the contact it is in: since it was last off a checked route its
\* clearance has not fallen below what it had there, or below none. Off the route it is by somebody
\* else's doing (RouteGated) and on the unchecked way onto it (LeadIn; the bridge's start beside
\* the arm), of which nothing is claimed.
NeverIntoContact == clear[meas] >= IF clear[from] < 0 THEN clear[from] ELSE 0

\* The loop's invariant: its type, and that its routes never lead into contact.
Inv == TypeOK /\ NeverIntoContact

\* Homing ends: at home, near it, or with an error.
HomingEnds == []<>(at \in Ended)
=============================================================================
