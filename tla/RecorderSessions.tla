-------------------------- MODULE RecorderSessions --------------------------
(***************************************************************************)
(* The recorder over several runs of the teleop on one dataset folder:     *)
(* lerobot loading in the background, the folder opened by the first       *)
(* episode (_open_dataset of lerobot_recorder.py), the process killed at   *)
(* any moment, an interrupted shutdown, and the next session that finds    *)
(* what was left.  The variables of EpisodeRecorder are those of the       *)
(* running process, except dataset and videos, which are what is on disk.  *)
(***************************************************************************)
EXTENDS EpisodeRecorder

CONSTANT MaxSessions  \* bound: runs of the teleop

ASSUME SessionsAssumption == MaxSessions \in Nat /\ Resumed = 0

VARIABLES
  disk,     \* the folder: "none"; "empty", no episode in it; "torn", episodes written but not
            \* finalized; "bare", finalized with videos missing; "whole", which alone loads
  lr,       \* lerobot: "loading", "loaded", "failed"
  session   \* how many runs there have been

memory == <<opened, recVars, buffer, queue, worker, item, unencoded, flushing>>
stored == <<dataset, videos, disk>>
sessions == <<vars, disk, lr, session>>

SessionsInit == Init /\ disk = "none" /\ lr = "loading" /\ session = 1

-----------------------------------------------------------------------------

\* The import thread ends.
Preload ==
  /\ phase # "exit" /\ lr = "loading"
  /\ lr' \in {"loaded", "failed"}
  /\ UNCHANGED <<vars, disk, session>>

\* A folder without episodes is moved aside and a dataset created; one that loads is resumed;
\* any other makes start() refuse.
OpenDataset ==
  \/ opened /\ UNCHANGED disk
  \/ ~opened /\ disk \in {"none", "empty"} /\ disk' = "empty"
  \/ ~opened /\ disk = "whole" /\ UNCHANGED disk

StartEpisode == lr = "loaded" /\ Start /\ OpenDataset

\* The episode is in the folder, but not for a reader before finalize().
SaveEpisode == Saved /\ disk' = "torn"

FinalizeDataset ==
  /\ Finalize
  /\ disk' = IF ~opened \/ disk # "torn" THEN disk ELSE IF flushing' > 0 THEN "bare" ELSE "whole"

EncodeVideos == Encode /\ disk' = IF disk = "bare" THEN "whole" ELSE disk

\* finalize() or the deferred encode raises or is interrupted by Ctrl-C.
TeardownFails ==
  /\ phase \in {"finalize", "encode"} /\ opened
  /\ phase' = "exit"
  /\ UNCHANGED <<memory, stored>>

\* The process is killed, perhaps in the middle of a save.
Kill ==
  /\ phase # "exit"
  /\ phase' = "exit"
  /\ disk' \in {disk} \cup (IF worker = "saving" THEN {"torn"} ELSE {})
  /\ UNCHANGED <<memory, dataset, videos>>

\* The next run of the teleop.
Launch ==
  /\ phase = "exit" /\ session < MaxSessions
  /\ session' = session + 1 /\ phase' = "spin" /\ lr' = "loading"
  /\ opened' = FALSE /\ recording' = FALSE /\ pending' = FALSE
  /\ frames' = 0 /\ episode' = 0 /\ next' = 0
  /\ buffer' = Fresh(0) /\ queue' = <<>> /\ worker' = "none" /\ item' = Pill
  /\ unencoded' = 0 /\ flushing' = 0
  /\ UNCHANGED stored

\* The operator follows the refusal's advice and moves the folder away.
MoveAway ==
  /\ phase = "spin" /\ ~opened /\ disk \in {"torn", "bare"}
  /\ disk' = "none" /\ dataset' = <<>> /\ videos' = {}
  /\ UNCHANGED <<phase, memory>>

SessionsNext ==
  \/ Preload \/ Launch
  \/ /\ UNCHANGED <<lr, session>>
     /\ \/ StartEpisode \/ SaveEpisode \/ FinalizeDataset \/ EncodeVideos
        \/ TeardownFails \/ Kill \/ MoveAway
        \/ /\ UNCHANGED disk
           /\ \/ OnImage \/ Stop \/ SpinEnds \/ EndSaves \/ Joined
              \/ Take \/ SaveFailed

SessionsSpec == SessionsInit /\ [][SessionsNext]_sessions

-----------------------------------------------------------------------------
(* Properties *)

\* A folder that the next session will load and extend has a video for every episode in it,
\* whatever was killed, abandoned or interrupted before.
LoadsComplete == disk = "whole" => videos = DOMAIN dataset

\* The number announced for an episode is not that of an episode in the dataset, over queued
\* and failed saves and over sessions.
AnnouncedIsNew == recording => episode >= Total
=============================================================================
