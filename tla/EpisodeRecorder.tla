-------------------------- MODULE EpisodeRecorder --------------------------
(***************************************************************************)
(* The episode recorder (class EpisodeRecorder of lerobot_recorder.py).    *)
(*                                                                         *)
(* Two threads share the dataset writer.  The main thread runs the camera  *)
(* callbacks and start/stop on the ROS executor and, once spinning ends,   *)
(* shutdown().  The save thread drains a queue of finished episodes into   *)
(* the dataset.  stop() hands the writer's frame buffer over and gives the *)
(* writer a new one, so that the next episode can record during the save.  *)
(*                                                                         *)
(* A frame is counted, not represented; the writer's buffer is the index   *)
(* it was created for and the number of frames in it.  The dataset library *)
(* is external: save_episode, clear_episode_buffer and the video encoder   *)
(* do what lerobot_recorder.py relies on them to do.                       *)
(***************************************************************************)
EXTENDS Naturals, Sequences

CONSTANTS
  Resumed,       \* episodes already in the dataset when it is opened
  MinFrames,     \* record.min_frames
  Batch,         \* record.batch_encoding_size
  Impatient,     \* TRUE: the wait for the save thread may be cut short (Ctrl-C, 600 s)
  MaxFrames,     \* bound: frames of one episode
  MaxEpisodes    \* bound: episodes queued in one session

ASSUME RecorderAssumption ==
  /\ Resumed \in Nat
  /\ MinFrames \in Nat \ {0} /\ Batch \in Nat \ {0}
  /\ Impatient \in BOOLEAN
  /\ MaxFrames \in Nat /\ MaxEpisodes \in Nat

Buffer == [ep : Nat, n : Nat]

\* None, the item that ends the save thread
Pill == [idx |-> 0, n |-> 0, buf |-> [ep |-> 0, n |-> 0]]

VARIABLES
  phase,      \* main(): "spin", then shutdown's "join", "finalize", "encode", "exit"
  opened,     \* _dataset is not None
  recording,
  pending,    \* _pending is not None: a primary image waits for its secondaries
  frames,     \* _frames
  episode,    \* episode_index
  next,       \* _next_ep_idx
  buffer,     \* writer.episode_buffer
  queue,      \* _save_q
  worker,     \* the save thread: "none", "waiting", "saving", "ended"
  item,       \* the queue item being saved
  dataset,    \* episodes saved this session: index, frames, frames reported
  unencoded,  \* writer._episodes_since_last_encoding
  videos,     \* positions in dataset whose video is encoded
  flushing    \* pending, read by shutdown

vars == <<phase, opened, recording, pending, frames, episode, next, buffer, queue,
          worker, item, dataset, unencoded, videos, flushing>>

recVars  == <<recording, pending, frames, episode, next>>
saveVars == <<worker, item, dataset, unencoded, videos>>

Fresh(ep) == [ep |-> ep, n |-> 0]

\* meta.total_episodes
Total == Resumed + Len(dataset)

Init ==
  /\ phase = "spin" /\ opened = FALSE
  /\ recording = FALSE /\ pending = FALSE /\ frames = 0 /\ episode = 0 /\ next = 0
  /\ buffer = Fresh(0) /\ queue = <<>>
  /\ worker = "none" /\ item = Pill
  /\ dataset = <<>> /\ unencoded = 0 /\ videos = {} /\ flushing = 0

-----------------------------------------------------------------------------
(* The main thread *)

\* start(), past its refusals: lerobot is loaded, joints and cameras are fresh and the
\* dataset opens.  _next_ep_idx is read from the dataset once, on the first start.
Start ==
  LET first == IF opened THEN next ELSE Total IN
    /\ phase = "spin" /\ ~recording
    /\ first < Resumed + MaxEpisodes
    /\ opened' = TRUE
    /\ buffer' = IF opened THEN buffer ELSE Fresh(Total)
    /\ next' = first /\ episode' = first
    /\ recording' = TRUE /\ pending' = FALSE /\ frames' = 0
    /\ UNCHANGED <<phase, queue, saveVars, flushing>>

\* _on_image of the primary camera: the pending image becomes a frame, or is dropped
\* (no secondary in time, or add_frame raised), and the new one waits in its place.
OnImage ==
  /\ phase = "spin" /\ recording /\ frames < MaxFrames
  /\ \E added \in BOOLEAN :
       /\ added => pending
       /\ frames' = IF added THEN frames + 1 ELSE frames
       /\ buffer' = IF added THEN [buffer EXCEPT !.n = @ + 1] ELSE buffer
  /\ pending' = TRUE
  /\ UNCHANGED <<phase, opened, recording, episode, next, queue, saveVars, flushing>>

\* Seeded fault: the frames of a discarded episode stay in the writer.
DiscardKeepsFrames == UNCHANGED <<next, buffer, queue, worker>>

\* stop() of a short episode: the index is used again, the frames are dropped
Discard ==
  /\ buffer' = Fresh(next)
  /\ UNCHANGED <<next, queue, worker>>

\* Seeded fault: the writer keeps the buffer it handed over.
HandOverKeepsBuffer(n, buf) ==
  /\ queue' = Append(queue, [idx |-> episode, n |-> n, buf |-> buf])
  /\ next' = next + 1
  /\ buffer' = [buf EXCEPT !.ep = next + 1]
  /\ worker' = IF worker = "none" THEN "waiting" ELSE worker

\* Seeded fault: the save thread is only started by a stop() that finds the queue empty.
HandOverNoStart(n, buf) ==
  /\ queue' = Append(queue, [idx |-> episode, n |-> n, buf |-> buf])
  /\ next' = next + 1
  /\ buffer' = Fresh(next + 1)
  /\ worker' = IF worker = "none" /\ queue # <<>> THEN "waiting" ELSE worker

\* Seeded fault: the next index is counted from the episodes already saved.
HandOverByTotal(n, buf) ==
  /\ queue' = Append(queue, [idx |-> episode, n |-> n, buf |-> buf])
  /\ next' = Total + 1
  /\ buffer' = Fresh(Total + 1)
  /\ worker' = IF worker = "none" THEN "waiting" ELSE worker

\* Seeded fault: the newest episode is queued first.
HandOverNewestFirst(n, buf) ==
  /\ queue' = <<[idx |-> episode, n |-> n, buf |-> buf]>> \o queue
  /\ next' = next + 1
  /\ buffer' = Fresh(next + 1)
  /\ worker' = IF worker = "none" THEN "waiting" ELSE worker

\* stop() of an episode of n frames, buf the writer's buffer
HandOver(n, buf) ==
  /\ queue' = Append(queue, [idx |-> episode, n |-> n, buf |-> buf])
  /\ next' = next + 1
  /\ buffer' = Fresh(next + 1)
  /\ worker' = IF worker = "none" THEN "waiting" ELSE worker

\* stop(); added: the pending image still becomes a frame
Stop ==
  /\ phase \in {"spin", "stop"} /\ recording
  /\ \E added \in BOOLEAN :
       LET n == frames + (IF added THEN 1 ELSE 0) IN
         /\ added => pending
         /\ frames' = n
         /\ IF n < MinFrames THEN Discard
            ELSE HandOver(n, IF added THEN [buffer EXCEPT !.n = @ + 1] ELSE buffer)
  /\ recording' = FALSE /\ pending' = FALSE
  /\ UNCHANGED <<phase, opened, episode, item, dataset, unencoded, videos, flushing>>

\* spin() returned: main() calls shutdown(), which first stops an open episode
SpinEnds ==
  /\ phase = "spin"
  /\ phase' = "stop"
  /\ UNCHANGED <<opened, recVars, buffer, queue, saveVars, flushing>>

\* Seeded fault: the save thread is told to end but not joined.
EndSavesNoJoin ==
  /\ phase = "stop" /\ ~recording
  /\ phase' = "finalize"
  /\ queue' = IF worker = "none" THEN queue ELSE Append(queue, Pill)
  /\ UNCHANGED <<opened, recVars, buffer, saveVars, flushing>>

\* Seeded fault: the save thread is joined but never told to end.
EndSavesNoPill ==
  /\ phase = "stop" /\ ~recording
  /\ phase' = IF worker = "none" THEN "finalize" ELSE "join"
  /\ UNCHANGED <<opened, recVars, buffer, queue, saveVars, flushing>>

\* a live save thread is sent None and joined
EndSaves ==
  /\ phase = "stop" /\ ~recording
  /\ IF worker = "none" THEN phase' = "finalize" /\ UNCHANGED queue
     ELSE phase' = "join" /\ queue' = Append(queue, Pill)
  /\ UNCHANGED <<opened, recVars, buffer, saveVars, flushing>>

\* join() returned: the thread ended, or Ctrl-C or the timeout cut the wait short
Joined ==
  /\ phase = "join"
  /\ worker = "ended" \/ Impatient
  /\ phase' = "finalize"
  /\ UNCHANGED <<opened, recVars, buffer, queue, saveVars, flushing>>

\* Seeded fault: the number of deferred videos is read after it is reset.
FinalizeForgetsVideos ==
  /\ phase = "finalize"
  /\ flushing' = 0 /\ unencoded' = 0
  /\ phase' = IF opened THEN "encode" ELSE "exit"
  /\ UNCHANGED <<opened, recVars, buffer, queue, worker, item, dataset, videos>>

Finalize ==
  /\ phase = "finalize"
  /\ flushing' = unencoded /\ unencoded' = 0
  /\ phase' = IF opened THEN "encode" ELSE "exit"
  /\ UNCHANGED <<opened, recVars, buffer, queue, worker, item, dataset, videos>>

\* _flush_deferred_videos: the last `flushing` episodes of the dataset
Encode ==
  /\ phase = "encode"
  /\ videos' = videos \cup (Len(dataset) + 1 - flushing)..Len(dataset)
  /\ phase' = "exit"
  /\ UNCHANGED <<opened, recVars, buffer, queue, worker, item, dataset, unencoded, flushing>>

-----------------------------------------------------------------------------
(* The save thread, a daemon: it dies with the process *)

Take ==
  /\ phase # "exit" /\ worker = "waiting" /\ queue # <<>>
  /\ item' = Head(queue) /\ queue' = Tail(queue)
  /\ worker' = IF Head(queue) = Pill THEN "ended" ELSE "saving"
  /\ UNCHANGED <<phase, opened, recVars, buffer, dataset, unencoded, videos, flushing>>

\* save_episode returned.  The library encodes a batch when it is complete.
Saved ==
  /\ phase # "exit" /\ worker = "saving"
  /\ dataset' = Append(dataset, [idx |-> item.idx, n |-> item.n, buf |-> item.buf])
  /\ IF unencoded + 1 = Batch
     THEN /\ videos' = videos \cup (Len(dataset) + 1 - unencoded)..(Len(dataset) + 1)
          /\ unencoded' = 0
     ELSE unencoded' = unencoded + 1 /\ UNCHANGED videos
  /\ worker' = "waiting"
  /\ UNCHANGED <<phase, opened, recVars, buffer, queue, item, flushing>>

\* save_episode raised: clear_episode_buffer replaces the buffer being recorded into
SaveFailed ==
  /\ phase # "exit" /\ worker = "saving"
  /\ buffer' = Fresh(Total)
  /\ worker' = "waiting"
  /\ UNCHANGED <<phase, opened, recVars, queue, item, dataset, unencoded, videos, flushing>>

-----------------------------------------------------------------------------

Worker == Take \/ Saved

Next ==
  \/ Start \/ OnImage \/ Stop
  \/ SpinEnds \/ EndSaves \/ Joined \/ Finalize \/ Encode
  \/ Take \/ Saved

Spec == Init /\ [][Next]_vars

\* The recorder when save_episode may raise.
FaultySpec == Init /\ [][Next \/ SaveFailed]_vars

\* The save thread is scheduled and save_episode returns; shutdown runs to its end.
FairSpec ==
  /\ Spec
  /\ WF_vars(Worker)
  /\ WF_vars(phase = "stop" /\ Stop) /\ WF_vars(EndSaves) /\ WF_vars(Joined)
  /\ WF_vars(Finalize) /\ WF_vars(Encode)

-----------------------------------------------------------------------------
(* Properties *)

\* Type correctness; an item is only in hand while it is being saved.
TypeOK ==
  /\ phase \in {"spin", "stop", "join", "finalize", "encode", "exit"}
  /\ opened \in BOOLEAN /\ recording \in BOOLEAN /\ pending \in BOOLEAN
  /\ frames \in Nat /\ episode \in Nat /\ next \in Nat
  /\ buffer \in Buffer
  /\ queue \in Seq([idx : Nat, n : Nat, buf : Buffer])
  /\ worker \in {"none", "waiting", "saving", "ended"}
  /\ item \in [idx : Nat, n : Nat, buf : Buffer]
  /\ dataset \in Seq([idx : Nat, n : Nat, buf : Buffer])
  /\ unencoded \in 0..Batch - 1 /\ flushing \in Nat
  /\ videos \subseteq DOMAIN dataset

\* A saved episode holds exactly the frames the recorder reports for it, none of them
\* lost to, or taken from, the episode recorded while it was being saved.
SavedWhole == \A i \in DOMAIN dataset : dataset[i].buf.n = dataset[i].n

\* Even when saves fail, frames never cross from one episode into another.
NeverMixed == \A i \in DOMAIN dataset : dataset[i].buf.n <= dataset[i].n

\* An episode that starts finds the writer's buffer empty.
StartsEmpty == ~recording => buffer.n = 0

\* The recorder's invariant, also with failing saves and an abandoned wait: its type, and that
\* frames stay with their episode.
Inv == TypeOK /\ NeverMixed /\ StartsEmpty

\* The dataset is only finalized once every queued episode is in it.
FinalizedLast ==
  phase \in {"finalize", "encode", "exit"} => queue = <<>> /\ worker # "saving"

\* Every episode kept by stop() reaches the dataset, also while others record.
EveryEpisodeSaved ==
  \A k \in 1..MaxEpisodes : opened /\ next >= Resumed + k ~> Len(dataset) >= k

\* shutdown() comes to its end.
ShutdownEnds == phase = "stop" ~> phase = "exit"

\* Episodes in the hands of the save thread, and episodes queued: None is not one.
InHand == IF worker = "saving" THEN 1 ELSE 0
Queued == IF queue # <<>> /\ queue[Len(queue)] = Pill THEN Len(queue) - 1 ELSE Len(queue)

\* The frames of every episode kept so far.
Accepted ==
  [i \in 1..Len(dataset) + InHand + Queued |->
     IF i <= Len(dataset) THEN dataset[i].buf.n
     ELSE IF i = Len(dataset) + InHand THEN item.n
     ELSE queue[i - Len(dataset) - InHand].n]

\* The recorder implements the log of episodes: kept in order, written in order.
Log == INSTANCE EpisodeLog WITH
  accepted <- Accepted, written <- Len(dataset), Lengths <- MinFrames..MaxFrames + 1

LogSpec == Log!Spec
=============================================================================
