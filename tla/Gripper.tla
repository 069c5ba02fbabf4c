------------------------------ MODULE Gripper ------------------------------
(***************************************************************************)
(* The path of a gripper click: the gripper loop of the bridge (grip_tick, *)
(* send_grip, _on_grip_response, _grip_update of teleop_mantis.py), the    *)
(* action server (external), the WSG50 driver with its read and write      *)
(* threads (wsg_50.cpp) and the fingers (external).  That a time has       *)
(* elapsed is a flag; it is raised at any moment, where it can be read.    *)
(***************************************************************************)
EXTENDS Integers, Sequences

CONSTANTS
  Open,        \* GRIP_OPEN and the fully open width; 0 is GRIP_CLOSE
  Part,        \* width of the part between the fingers, 0 for none
  MaxRetry,    \* MAX_RETRY of write_thread
  NONE,        \* None, NaN
  Clicks, Homes,            \* bounds: presses of the trigger, HOME while the gripper is closed
  Rejects, Eaten, Losses,   \* bounds: goals refused, goals accepted without effect,
                            \* commands lost on the way to the fingers
  InFlight                  \* bound: goals on their way to the server

ASSUME GripperAssumption ==
  /\ Open \in Nat \ {0} /\ Part \in 0..Open /\ MaxRetry \in Nat
  /\ {Clicks, Homes, Rejects, Eaten, Losses, InFlight} \subseteq Nat
  /\ NONE \notin Int

Widths == 0..Open

VARIABLES
  \* bridge
  closed, clickNow, clickWas, debounced, sent, retryDue, lastW,
  \* action server
  goals, refused, serverUp, ate, goalWidth,
  \* driver: shared with its threads, then the write thread's own
  connected, width, lastGoal, lastOpen, retries, due, seen, writer, reader, socket,
  \* fingers
  pos, drive, latched,
  \* what is left of the bounds
  left

bridge == <<closed, clickNow, clickWas, debounced, sent, retryDue, lastW>>
server == <<goals, refused, serverUp, ate, goalWidth>>
driver == <<connected, width, lastGoal, lastOpen, retries, due, seen, writer, reader,
            socket>>
fingers == <<pos, drive, latched>>
vars == <<bridge, server, driver, fingers, left>>

Spend(what) == left[what] > 0 /\ left' = [left EXCEPT ![what] = @ - 1]

-----------------------------------------------------------------------------
(* The bridge *)

Want == IF closed' THEN 0 ELSE Open

\* send_grip returns serverUp: nothing is sent while the server is not there.
SendGrip(w) == goals' = IF serverUp THEN Append(goals, w) ELSE goals

\* The trigger is pressed or let go.
Button ==
  /\ \/ ~clickNow /\ Spend("clicks") /\ clickNow' = TRUE
     \/ clickNow /\ clickNow' = FALSE /\ UNCHANGED left
  /\ UNCHANGED <<closed, clickWas, debounced, sent, retryDue, lastW, server, driver, fingers>>

\* HOME opens the gripper.
Home ==
  /\ closed /\ Spend("homes")
  /\ closed' = FALSE
  /\ UNCHANGED <<clickNow, clickWas, debounced, sent, retryDue, lastW, server, driver,
                 fingers>>

Toggle == clickNow /\ ~clickWas /\ debounced

\* An OPEN that has not got there: sent again if the fingers have not moved since the last look.
Unfinished ==
  IF ~closed' /\ width # Open /\ retryDue
  THEN /\ lastW' = width
       /\ IF lastW = width
          THEN SendGrip(Open) /\ retryDue' = ~serverUp
          ELSE retryDue' = FALSE /\ UNCHANGED goals
  ELSE UNCHANGED <<goals, retryDue, lastW>>

\* _grip_update, called by grip_tick while the buttons are fresh.  (A tick without fresh buttons
\* does nothing.)
GripTick ==
  /\ Len(goals) < InFlight
  /\ closed' = IF Toggle THEN ~closed ELSE closed
  /\ debounced' = (debounced /\ ~Toggle)
  /\ clickWas' = clickNow
  /\ IF Want # sent
     THEN /\ SendGrip(Want)
          /\ IF serverUp THEN sent' = Want /\ retryDue' = FALSE /\ lastW' = NONE
             ELSE UNCHANGED <<sent, retryDue, lastW>>
     ELSE Unfinished /\ UNCHANGED sent
  /\ UNCHANGED <<clickNow, refused, serverUp, ate, goalWidth, driver, fingers, left>>

\* Seeded fault: a refused goal is forgotten.
GripResponseIgnored ==
  /\ refused > 0 /\ refused' = refused - 1
  /\ UNCHANGED <<bridge, goals, serverUp, ate, goalWidth, driver, fingers, left>>

\* The refusal of some goal arrives, perhaps after a newer goal was sent.
GripResponse ==
  /\ refused > 0 /\ refused' = refused - 1
  /\ sent' = NONE
  /\ UNCHANGED <<closed, clickNow, clickWas, debounced, retryDue, lastW, goals, serverUp,
                 ate, goalWidth, driver, fingers, left>>

\* The debounce time has passed since the last toggle.
Debounced ==
  /\ ~debounced /\ clickNow /\ ~clickWas /\ debounced' = TRUE
  /\ UNCHANGED <<closed, clickNow, clickWas, sent, retryDue, lastW, server, driver, fingers,
                 left>>

\* The retry period has passed since the last goal.
RetryDue ==
  /\ ~retryDue /\ ~closed /\ width # Open /\ retryDue' = TRUE
  /\ UNCHANGED <<closed, clickNow, clickWas, debounced, sent, lastW, server, driver, fingers,
                 left>>

-----------------------------------------------------------------------------
(* The action server *)

ServerUp ==
  /\ ~serverUp /\ serverUp' = TRUE
  /\ UNCHANGED <<bridge, goals, refused, ate, goalWidth, driver, fingers, left>>

\* It takes a goal up, refuses it, or accepts it and loses it.
Serve ==
  /\ goals # <<>> /\ goals' = Tail(goals)
  /\ \/ goalWidth' = Head(goals) /\ ate' = FALSE /\ UNCHANGED <<refused, left>>
     \/ Spend("rejects") /\ refused' = refused + 1 /\ UNCHANGED <<ate, goalWidth>>
     \/ Spend("eaten") /\ ate' = TRUE /\ UNCHANGED <<refused, goalWidth>>
  /\ UNCHANGED <<bridge, serverUp, driver, fingers>>

-----------------------------------------------------------------------------
(* The driver *)

\* Seeded fault: the loop does not look at connected_.
ReadThreadForEver ==
  /\ reader = "running"
  /\ width' = pos
  /\ reader' = "running"
  /\ UNCHANGED <<bridge, server, connected, lastGoal, lastOpen, retries, due, seen, writer, socket,
                 fingers, left>>

\* read_thread: a message arrives, then the loop looks at connected_.
ReadThread ==
  /\ reader = "running"
  /\ width' = pos
  /\ reader' = IF connected THEN "running" ELSE "ended"
  /\ UNCHANGED <<bridge, server, connected, lastGoal, lastOpen, retries, due, seen, writer,
                 socket, fingers, left>>

\* write_thread, first half: the goal under the lock, the width without it.  (The controller
\* manager copies goal_width_ to pending_goal_ in every cycle; one variable stands for both.)
WriteRead ==
  /\ writer = "loop"
  /\ IF connected THEN writer' = "busy" /\ seen' = [goal |-> goalWidth, meas |-> width]
     ELSE writer' = "ended" /\ UNCHANGED seen
  /\ UNCHANGED <<bridge, server, connected, width, lastGoal, lastOpen, retries, due, reader,
                 socket, fingers, left>>

Nothing == [goal |-> NONE, meas |-> 0]
Changed == seen.goal # lastGoal
Stalled == lastOpen /\ seen.meas # seen.goal /\ retries < MaxRetry /\ due

\* ACK, then MOVE or GRASP, on its way to the fingers.
Command(how) ==
  \/ drive' = [how |-> how, to |-> seen.goal] /\ latched' = FALSE /\ UNCHANGED <<pos, left>>
  \/ Spend("losses") /\ UNCHANGED fingers

\* Seeded fault: an OPEN that was lost is not issued again.
WriteActOnce ==
  /\ writer = "busy" /\ writer' = "loop" /\ seen' = Nothing
  /\ IF Changed
     THEN /\ Command(IF seen.goal >= seen.meas THEN "move" ELSE "grasp")
          /\ lastGoal' = seen.goal /\ lastOpen' = (seen.goal >= seen.meas)
          /\ retries' = 0 /\ due' = FALSE
     ELSE UNCHANGED <<lastGoal, lastOpen, retries, due, fingers, left>>
  /\ UNCHANGED <<bridge, server, connected, width, reader, socket>>

\* write_thread, second half: a new goal, or an OPEN that has not got there, again.
WriteAct ==
  /\ writer = "busy" /\ writer' = "loop" /\ seen' = Nothing
  /\ IF Changed
     THEN /\ Command(IF seen.goal >= seen.meas THEN "move" ELSE "grasp")
          /\ lastGoal' = seen.goal /\ lastOpen' = (seen.goal >= seen.meas)
          /\ retries' = 0 /\ due' = FALSE
     ELSE IF Stalled
     THEN Command("move") /\ retries' = retries + 1 /\ due' = FALSE
          /\ UNCHANGED <<lastGoal, lastOpen>>
     ELSE UNCHANGED <<lastGoal, lastOpen, retries, due, fingers, left>>
  /\ UNCHANGED <<bridge, server, connected, width, reader, socket>>

\* RETRY_PERIOD has passed since the last command.
WriteTimer ==
  /\ ~due /\ lastOpen /\ width # lastGoal /\ due' = TRUE
  /\ UNCHANGED <<bridge, server, connected, width, lastGoal, lastOpen, retries, seen,
                 writer, reader, socket, fingers, left>>

\* disconnect: both threads are told to stop, then joined, then the socket is closed.
Disconnect ==
  /\ connected /\ connected' = FALSE
  /\ left["clicks"] = 0 /\ goals = <<>> /\ refused = 0 \* bound: not before the clicks are served
  /\ UNCHANGED <<bridge, server, width, lastGoal, lastOpen, retries, due, seen, writer,
                 reader, socket, fingers, left>>

\* Seeded fault: the write thread is not joined.
JoinedReader ==
  /\ ~connected /\ socket = "open" /\ reader = "ended"
  /\ socket' = "closed"
  /\ UNCHANGED <<bridge, server, connected, width, lastGoal, lastOpen, retries, due, seen,
                 writer, reader, fingers, left>>

Joined ==
  /\ ~connected /\ socket = "open" /\ reader = "ended" /\ writer = "ended"
  /\ socket' = "closed"
  /\ UNCHANGED <<bridge, server, connected, width, lastGoal, lastOpen, retries, due, seen,
                 writer, reader, fingers, left>>

-----------------------------------------------------------------------------
(* The fingers *)

\* They move one unit; a part stops a closing hand, and the fast-stop latches.
Fingers ==
  /\ drive.how # "idle" /\ ~latched
  /\ IF pos = drive.to
     THEN drive' = [drive EXCEPT !.how = "idle"] /\ UNCHANGED <<pos, latched>>
     ELSE IF pos = Part /\ drive.to < pos
     THEN drive' = [drive EXCEPT !.how = "idle"] /\ latched' = TRUE /\ UNCHANGED pos
     ELSE pos' = (IF pos < drive.to THEN pos + 1 ELSE pos - 1) /\ UNCHANGED <<drive, latched>>
  /\ UNCHANGED <<bridge, server, driver, left>>

-----------------------------------------------------------------------------

Init ==
  /\ closed = FALSE /\ clickNow = FALSE /\ clickWas = FALSE /\ debounced = TRUE
  /\ sent = NONE /\ retryDue = TRUE /\ lastW = NONE
  /\ goals = <<>> /\ refused = 0 /\ serverUp = FALSE /\ ate = FALSE /\ goalWidth = Open
  /\ connected = TRUE /\ width = Open /\ lastGoal = NONE /\ lastOpen = FALSE
  /\ retries = 0 /\ due = FALSE /\ seen = Nothing
  /\ writer = "loop" /\ reader = "running" /\ socket = "open"
  /\ pos = Open /\ drive = [how |-> "idle", to |-> Open] /\ latched = FALSE
  /\ left = [clicks |-> Clicks, homes |-> Homes, rejects |-> Rejects, eaten |-> Eaten,
             losses |-> Losses]

Writes == WriteRead \/ WriteAct

Next ==
  \/ Button \/ Home \/ GripTick \/ GripResponse \/ Debounced \/ RetryDue \/ ServerUp \/ Serve
  \/ ReadThread \/ WriteRead \/ WriteAct \/ WriteTimer \/ Disconnect \/ Joined
  \/ Fingers

\* Timers of the bridge, the server, the controller manager and both threads of the driver keep
\* running; the gripper keeps reporting its width.
Spec ==
  /\ Init /\ [][Next]_vars
  /\ WF_vars(GripTick) /\ WF_vars(GripResponse)
  /\ WF_vars(Debounced) /\ WF_vars(RetryDue)
  /\ WF_vars(ServerUp) /\ WF_vars(Serve) /\ WF_vars(ReadThread)
  /\ WF_vars(Writes) /\ WF_vars(WriteTimer) /\ WF_vars(Joined) /\ WF_vars(Fingers)

-----------------------------------------------------------------------------
(* Properties *)

\* Type correctness; the driver issues a lost OPEN again a bounded number of times.
TypeOK ==
  /\ {closed, clickNow, clickWas, debounced, retryDue} \subseteq BOOLEAN
  /\ sent \in {0, Open, NONE} /\ lastW \in Widths \cup {NONE}
  /\ goals \in Seq({0, Open}) /\ Len(goals) <= InFlight /\ refused \in 0..Rejects
  /\ goalWidth \in {0, Open} /\ width \in Widths
  /\ retries \in 0..MaxRetry /\ lastGoal \in {0, Open, NONE}
  /\ pos \in Widths /\ drive.how \in {"idle", "move", "grasp"}

\* The driver sends nothing on a socket that disconnect has closed.
NothingAfterClose == socket = "closed" => writer = "ended" /\ reader = "ended"

\* What the bridge believes to have sent is on its way to the gripper: it is the last goal in
\* flight, or the one the driver has, unless a refusal is still to be heard or a goal was
\* accepted and lost.  The fingers are driven to the goal the driver acted on last, unless a
\* command was lost.
OnTrack ==
  /\ sent # NONE => IF goals # <<>> THEN sent = goals[Len(goals)]
                   ELSE sent = goalWidth \/ refused > 0 \/ ate
  /\ lastGoal # NONE => drive.to = lastGoal \/ left["losses"] < Losses

\* The invariant of loop and driver: its type, that both threads are over when the socket is,
\* and that what was sent is not lost unnoticed.
Inv == TypeOK /\ NothingAfterClose /\ OnTrack

\* However the clicks, HOME, refusals (late ones too) and lost goals interleave, the gripper ends
\* up with the goal the operator last asked for; a CLOSE that the server accepts and loses is the
\* one case nobody repairs (grip_tick watches OPEN only).
LastClickWins == <>[](closed => goalWidth = 0 \/ ate)

\* Fingers that are to be open end up open, if no more commands are lost than the driver repeats
\* and it is not disconnected: a refused or lost goal, a fast-stop on a part and a command lost
\* on the way are all repaired.
OpensInTheEnd == <>[](~closed => pos = Open \/ ~connected)

\* disconnect returns, while the gripper keeps reporting.
DisconnectReturns == ~connected ~> socket = "closed"
=============================================================================
